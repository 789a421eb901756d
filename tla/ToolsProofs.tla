----------------------------- MODULE ToolsProofs -----------------------------
(***************************************************************************)
(* The tools that act on the machine. A replay, for any step lists and any *)
(* number of upsets: type correctness, the soundness of the verdict, and   *)
(* the state it leaves. An experiment, for any script: its manifest. The   *)
(* freeze set and the input sequences, for any number of callers, cells,   *)
(* buttons, plans and programs: the cap and one entry for each cell, and   *)
(* no button left down. And the types of all the tools, those of           *)
(* AnswersProofs included.                                                 *)
(***************************************************************************)
EXTENDS MCTools, AnswersProofs, ListLemmas, FiniteSetTheorems, TLAPS

\* What a frame saw, and what is recorded of it.
Frame == (SUBSET Pressable) \cup {Foreign}
Frameset == Seq(Frame)
Reading == Frameset \cup {Missing}
Count == Nat \cup {Missing}

PassRecord ==
  [confirmed : BOOLEAN, baseline : Count, fingerprint : Reading, tokens : Seq(Count),
   samples : Seq(Reading), final : Reading, advanced : Nat, seen : Seq(Frameset)]

FoundState == {"running", "paused", "unknown"}
Closing == {"open", "unrestored", "skipped", "paused", "stuck", "resumed"}

CallRecord ==
  [at : ReplayPhase, steps : StepLists \cup {<<>>}, strict : BOOLEAN, passes : {2, 3},
   entry : FoundState, runs : Seq(PassRecord), step : Nat, todo : Seq(Pressable), closed : Closing]

Waiting == {"idle", "over"}
Stepping == {"press", "advance", "sample", "release"}
Passing == Stepping \cup {"baseline", "final"}
Opened == {"save", "load", "settle"} \cup Passing \cup {"restore", "resume"}

\* Where the call is in its step list and among its passes.
PlaceOK(call) ==
  /\ call.at \notin Waiting => call.steps \in StepLists
  /\ call.step \in 1 .. Len(call.steps) + 1
  /\ call.at \in Stepping => call.step \in 1 .. Len(call.steps)
  /\ call.at \in {"press", "release"} => call.todo # <<>>
  /\ Len(call.runs) <= call.passes
  /\ call.at \in {"pause", "save", "load", "settle"} => Len(call.runs) < call.passes
  /\ call.at \in Passing => Len(call.runs) >= 1
  /\ call.at = "verdict" => Len(call.runs) = call.passes

\* The answer names the run state the call found.
ClosingOK(call) ==
  /\ call.at \in {"pause"} \cup Opened => call.closed = "open"
  /\ call.at = "resume" => call.entry = "running"
  /\ call.closed = "paused" => call.entry = "paused"
  /\ call.closed \in {"resumed", "stuck"} => call.entry = "running"

TypeInv ==
  /\ running \in BOOLEAN /\ joypad \subseteq Pressable /\ counter \in Nat
  /\ past \in Frameset
  /\ lock \in {"free", "replay", "foreign"} /\ admitted \in BOOLEAN
  /\ touched \in BOOLEAN /\ intruded \in BOOLEAN
  /\ replay \in CallRecord
  /\ PlaceOK(replay) /\ ClosingOK(replay)

-----------------------------------------------------------------------------
(* The buttons, the frames and the run state.                               *)

Buttons(call) == ToSet(call.steps[call.step].buttons)

\* The buttons of the step under way, and no others, are down.
PadOK(call, pad) ==
  /\ call.at \in {"idle", "pause", "save", "load", "settle", "baseline", "final"} => pad = {}
  /\ call.at = "press" => pad \cup ToSet(call.todo) = Buttons(call)
  /\ call.at \in {"advance", "sample"} => pad = Buttons(call)
  /\ call.at = "release" => pad \subseteq ToSet(call.todo)
  /\ call.at \in {"restore", "resume", "verdict"} /\ Len(call.runs) = call.passes => pad = {}

StepFrames(step) == [k \in 1 .. step.frames |-> ToSet(step.buttons)]

Before(seen, i) == IF i = 1 THEN <<>> ELSE seen[i - 1]

\* A pass has seen the frames of its steps and no others.
Follows(seen, steps) ==
  /\ Len(seen) <= Len(steps)
  /\ \A i \in 1 .. Len(seen) : seen[i] = Before(seen, i) \o StepFrames(steps[i])

Agree(one, other) == \A i \in 1 .. Len(one) : i <= Len(other) => one[i] = other[i]

\* How many steps the current pass has seen.
Reached(call) ==
  CASE call.at = "baseline" -> 0
    [] call.at \in {"press", "advance"} -> call.step - 1
    [] call.at \in {"sample", "release"} -> call.step
    [] OTHER -> Len(call.steps)

\* Every pass follows the steps, the earlier ones to their end; the machine has been
\* through what the current one has seen.
RunsOK(call, frames) ==
  /\ \A p \in 1 .. Len(call.runs) :
       /\ Follows(call.runs[p].seen, call.steps)
       /\ Len(call.runs[p].seen) = IF call.at \in Passing /\ p = Len(call.runs)
                                   THEN Reached(call) ELSE Len(call.steps)
  /\ \A p, q \in 1 .. Len(call.runs) : Agree(call.runs[p].seen, call.runs[q].seen)
  /\ call.at = "settle" => frames = <<>>
  /\ call.at \in Passing =>
       LET seen == call.runs[Len(call.runs)].seen IN frames = Before(seen, Len(seen) + 1)

\* From the snapshot on, the machine moves by the frames of the call alone.
StillOK(call, moving) ==
  /\ call.at \in Opened => ~moving
  /\ call.at \in {"verdict", "failed"} =>
       /\ call.closed = "resumed" => moving
       /\ call.closed \in {"skipped", "paused"} => ~moving

Undisturbed == ~touched /\ ~intruded

ReplayInv ==
  /\ TypeInv
  /\ PadOK(replay, joypad)
  /\ Undisturbed => RunsOK(replay, past) /\ StillOK(replay, running)

-----------------------------------------------------------------------------
(* What the steps of a call are made of.                                    *)

LEMMA ListTypes ==
  ASSUME NEW steps \in StepLists
  PROVE  /\ steps \in Seq(NormalizedStep) /\ steps # <<>> /\ Len(steps) \in Nat /\ Len(steps) >= 1
         /\ \A i \in 1 .. Len(steps) :
              steps[i].buttons \in Seq(Pressable) /\ steps[i].frames \in Nat \ {0}
<1>1. steps \in Seq(NormalizedStep) /\ steps # <<>>
  BY ReplayAssumption
<1>2. \A i \in 1 .. Len(steps) : steps[i] \in NormalizedStep
  BY <1>1, ElementOfSeq
<1>3. Len(steps) \in Nat /\ Len(steps) # 0
  BY <1>1, EmptySeq
<1> QED
  BY <1>1, <1>2, <1>3 DEF NormalizedStep

LEMMA FunctionIsSeq ==
  ASSUME NEW S, NEW n \in Nat, NEW f \in [1 .. n -> S]
  PROVE  f \in Seq(S)
BY SeqDef

LEMMA ToSetTypes ==
  ASSUME NEW S, NEW s \in Seq(S)
  PROVE  /\ ToSet(s) \subseteq S
         /\ s = <<>> => ToSet(s) = {}
         /\ s # <<>> => /\ Head(s) \in S /\ Tail(s) \in Seq(S)
                        /\ ToSet(s) = {Head(s)} \cup ToSet(Tail(s))
                        /\ Len(s) > 1 <=> Tail(s) # <<>>
<1>1. Len(s) \in Nat /\ DOMAIN s = 1 .. Len(s) /\ \A i \in 1 .. Len(s) : s[i] \in S
  BY LenProperties, ElementOfSeq
<1>2. ToSet(s) \subseteq S
  BY <1>1 DEF ToSet
<1>3. ASSUME s = <<>>
      PROVE  ToSet(s) = {}
  BY <1>1, <1>3, EmptySeq DEF ToSet
<1>4. ASSUME s # <<>>
      PROVE  /\ Head(s) \in S /\ Tail(s) \in Seq(S)
             /\ ToSet(s) = {Head(s)} \cup ToSet(Tail(s))
             /\ Len(s) > 1 <=> Tail(s) # <<>>
  <2>1. /\ Tail(s) \in Seq(S) /\ Head(s) \in S
        /\ Len(Tail(s)) = Len(s) - 1
        /\ \A i \in 1 .. Len(Tail(s)) : Tail(s)[i] = s[i + 1]
    BY <1>4, HeadTailProperties
  <2>2. Head(s) = s[1] /\ Len(s) >= 1
    BY <1>1, <1>4, EmptySeq
  <2>3. Len(Tail(s)) \in Nat /\ DOMAIN Tail(s) = 1 .. Len(Tail(s))
    BY <2>1, LenProperties
  <2>4. ToSet(s) \subseteq {Head(s)} \cup ToSet(Tail(s))
    <3>1. ASSUME NEW i \in 1 .. Len(s)
          PROVE  s[i] \in {Head(s)} \cup ToSet(Tail(s))
      <4>1. CASE i = 1
        BY <2>2, <4>1
      <4>2. CASE i # 1
        <5>1. i - 1 \in 1 .. Len(Tail(s)) /\ (i - 1) + 1 = i
          BY <1>1, <2>1, <4>2
        <5>2. Tail(s)[i - 1] = s[i]
          BY <2>1, <5>1
        <5> QED
          BY <2>3, <5>1, <5>2 DEF ToSet
      <4> QED
        BY <4>1, <4>2
    <3> QED
      BY <1>1, <3>1 DEF ToSet
  <2>5. {Head(s)} \cup ToSet(Tail(s)) \subseteq ToSet(s)
    <3>1. Head(s) \in ToSet(s)
      BY <1>1, <2>2 DEF ToSet
    <3>2. \A i \in 1 .. Len(Tail(s)) : i + 1 \in 1 .. Len(s)
      BY <1>1, <2>1
    <3>3. ToSet(Tail(s)) \subseteq ToSet(s)
      BY <1>1, <2>1, <2>3, <3>2 DEF ToSet
    <3> QED
      BY <3>1, <3>3
  <2>6. Len(s) > 1 <=> Tail(s) # <<>>
    <3>1. Tail(s) = <<>> <=> Len(Tail(s)) = 0
      BY <2>1, EmptySeq
    <3> QED
      BY <1>1, <2>1, <3>1
  <2> QED
    BY <2>1, <2>4, <2>5, <2>6
<1> QED
  BY <1>2, <1>3, <1>4

\* The frames of one more step.
LEMMA SeenGrows ==
  ASSUME NEW steps \in StepLists, NEW seen \in Seq(Frameset), Follows(seen, steps),
         Len(seen) < Len(steps),
         NEW next, next = Before(seen, Len(seen) + 1) \o StepFrames(steps[Len(seen) + 1])
  PROVE  /\ next \in Frameset
         /\ Append(seen, next) \in Seq(Frameset) /\ Len(Append(seen, next)) = Len(seen) + 1
         /\ Follows(Append(seen, next), steps)
         /\ Before(Append(seen, next), Len(seen) + 2) = next
<1> DEFINE k == Len(seen) + 1
           more == Append(seen, next)
<1>1. Len(seen) \in Nat /\ Len(steps) \in Nat /\ k \in 1 .. Len(steps)
      /\ \A i \in 1 .. Len(seen) : seen[i] \in Frameset
  BY ListTypes, LenProperties, ElementOfSeq
<1>2. steps[k].frames \in Nat /\ ToSet(steps[k].buttons) \in Frame
  BY <1>1, ListTypes, ToSetTypes DEF Frame
<1>3. StepFrames(steps[k]) \in Frameset
  <2>1. StepFrames(steps[k]) \in [1 .. steps[k].frames -> Frame]
    BY <1>2 DEF StepFrames
  <2> QED
    BY <1>2, <2>1, FunctionIsSeq DEF Frameset
<1>4. Before(seen, k) \in Frameset
  <2>1. CASE k = 1
    BY <2>1, EmptySeq DEF Before, Frameset
  <2>2. CASE k # 1
    <3>1. k - 1 \in 1 .. Len(seen)
      BY <1>1, <2>2
    <3> QED
      BY <1>1, <2>2, <3>1 DEF Before
  <2> QED
    BY <2>1, <2>2
<1>5. next \in Frameset
  BY <1>3, <1>4, ConcatProperties DEF Frameset
<1>6. /\ more \in Seq(Frameset) /\ Len(more) = k /\ more[k] = next
      /\ \A i \in 1 .. Len(seen) : more[i] = seen[i]
  BY <1>1, <1>5, AppendProperties
<1> HIDE DEF more
<1>7. \A i \in 1 .. k : Before(more, i) = Before(seen, i)
  BY <1>1, <1>6 DEF Before
<1>8. Follows(more, steps)
  <2>0. Before(more, k) = Before(seen, k)
    BY <1>1, <1>7
  <2>1. ASSUME NEW i \in 1 .. k
        PROVE  more[i] = Before(more, i) \o StepFrames(steps[i])
    <3>1. CASE i = k
      BY <1>6, <2>0, <3>1
    <3>2. CASE i # k
      <4>1. i \in 1 .. Len(seen) /\ i \in 1 .. k
        BY <1>1, <3>2
      <4>2. more[i] = seen[i] /\ Before(more, i) = Before(seen, i)
        BY <1>6, <1>7, <4>1
      <4>3. seen[i] = Before(seen, i) \o StepFrames(steps[i])
        BY <4>1 DEF Follows
      <4> QED
        BY <4>2, <4>3
    <3> QED
      BY <3>1, <3>2
  <2> QED
    BY <1>1, <1>6, <2>1 DEF Follows
<1>9. Before(more, Len(seen) + 2) = next
  <2> DEFINE j == Len(seen) + 2
  <2>1. j # 1 /\ j - 1 = k
    BY <1>1
  <2>2. Before(more, j) = more[j - 1]
    <3> HIDE DEF j
    <3> QED
      BY <2>1 DEF Before
  <2> QED
    BY <1>6, <2>1, <2>2
<1> QED
  BY <1>5, <1>6, <1>8, <1>9 DEF more

\* Two passes of the same steps that have agreed so far agree on the next one.
LEMMA SeenAgree ==
  ASSUME NEW steps \in StepLists, NEW seen \in Seq(Frameset), NEW other \in Seq(Frameset),
         Follows(seen, steps), Follows(other, steps), Agree(seen, other),
         Len(seen) < Len(steps),
         NEW next, next = Before(seen, Len(seen) + 1) \o StepFrames(steps[Len(seen) + 1])
  PROVE  Agree(Append(seen, next), other) /\ Agree(other, Append(seen, next))
<1> DEFINE k == Len(seen) + 1
           more == Append(seen, next)
<1>1. Len(seen) \in Nat /\ Len(other) \in Nat
  BY LenProperties
<1>2. /\ Len(more) = k /\ more[k] = next
      /\ \A i \in 1 .. Len(seen) : more[i] = seen[i]
  <2>1. next \in Frameset
    BY SeenGrows
  <2> QED
    BY <1>1, <2>1, AppendProperties
<1> HIDE DEF more
<1>3. ASSUME k <= Len(other)
      PROVE  other[k] = next
  <2>1. other[k] = Before(other, k) \o StepFrames(steps[k])
    BY <1>1, <1>3 DEF Follows
  <2>2. Before(other, k) = Before(seen, k)
    BY <1>1, <1>3 DEF Before, Agree
  <2> QED
    BY <2>1, <2>2
<1>4. ASSUME NEW i \in 1 .. k, i <= Len(other)
      PROVE  more[i] = other[i]
  <2>1. CASE i = k
    BY <1>2, <1>3, <1>4, <2>1
  <2>2. CASE i # k
    <3>1. i \in 1 .. Len(seen)
      BY <1>1, <2>2
    <3> QED
      BY <1>2, <1>4, <3>1 DEF Agree
  <2> QED
    BY <2>1, <2>2
<1> QED
  BY <1>1, <1>2, <1>4 DEF Agree, more

-----------------------------------------------------------------------------
(* The ways on that several commands share.                                 *)

\* What a step keeps that leaves everybody else alone.
Own == UNCHANGED <<lock, admitted, touched, intruded>>

MachineTypes == /\ running' \in BOOLEAN /\ joypad' \subseteq Pressable /\ counter' \in Nat
                /\ past' \in Frameset

LEMMA RefusedKeeps ==
  ASSUME ReplayInv, Own, MachineTypes, replay' = RefusedReplay,
         replay.at \in {"pause", "save", "load", "settle"}
  PROVE  ReplayInv'
<1>1. /\ replay' \in CallRecord /\ replay'.at = "failed" /\ replay'.closed = "open"
      /\ replay'.runs = replay.runs /\ replay'.steps = replay.steps /\ replay'.step = replay.step
      /\ replay'.passes = replay.passes
  BY DEF ReplayInv, TypeInv, CallRecord, ReplayPhase, RefusedReplay, ClosingOK, Opened
<1>2. PlaceOK(replay')
  BY <1>1 DEF ReplayInv, TypeInv, PlaceOK, Stepping, Passing, Waiting
<1>3. ClosingOK(replay') /\ PadOK(replay', joypad')
  BY <1>1 DEF ClosingOK, PadOK, Opened, Passing, Stepping
<1>4. RunsOK(replay, past) => RunsOK(replay', past')
  BY <1>1 DEF RunsOK, Passing, Stepping
<1>5. StillOK(replay', running')
  BY <1>1 DEF StillOK, Opened, Passing, Stepping
<1> QED
  BY <1>1, <1>2, <1>3, <1>4, <1>5 DEF ReplayInv, TypeInv, Own, MachineTypes, Undisturbed

LEMMA AbortKeeps ==
  ASSUME ReplayInv, Own, MachineTypes, replay' = Aborted,
         replay.at \in {"press", "advance", "release"}, ~running => ~running'
  PROVE  ReplayInv'
<1> DEFINE n == Len(replay.runs)
<1>1. replay.runs \in Seq(PassRecord) /\ n \in Nat /\ n >= 1 /\ n <= replay.passes
      /\ replay.passes \in Nat /\ replay \in CallRecord
      /\ \A i \in 1 .. n : replay.runs[i] \in PassRecord
  BY LenProperties, ElementOfSeq DEF ReplayInv, TypeInv, PlaceOK, CallRecord, Passing, Stepping
<1>2. /\ Front(replay.runs) \in Seq(PassRecord) /\ Len(Front(replay.runs)) = n - 1
      /\ \A i \in 1 .. n - 1 : Front(replay.runs)[i] = replay.runs[i]
  <2>1. \A i \in 1 .. n - 1 : replay.runs[i] \in PassRecord
    BY <1>1
  <2>2. /\ SubSeq(replay.runs, 1, n - 1) \in Seq(PassRecord)
        /\ Len(SubSeq(replay.runs, 1, n - 1)) = IF 1 <= n - 1 THEN n - 1 ELSE 0
        /\ \A i \in 1 .. n - 1 : SubSeq(replay.runs, 1, n - 1)[i] = replay.runs[i]
    <3>1. /\ SubSeq(replay.runs, 1, n - 1) \in Seq(PassRecord)
          /\ Len(SubSeq(replay.runs, 1, n - 1)) = IF 1 <= n - 1 THEN (n - 1) - 1 + 1 ELSE 0
          /\ \A i \in 1 .. (n - 1) - 1 + 1 : SubSeq(replay.runs, 1, n - 1)[i] = replay.runs[1 + i - 1]
      BY <1>1, <2>1, SubSeqProperties
    <3> QED
      BY <1>1, <3>1
  <2> QED
    BY <1>1, <2>2 DEF Front
<1>3. /\ replay'.at = "restore" /\ replay'.runs = Front(replay.runs)
      /\ replay'.steps = replay.steps /\ replay'.step = replay.step /\ replay'.entry = replay.entry
      /\ replay'.passes = replay.passes /\ replay'.closed = replay.closed
      /\ replay' \in CallRecord
  BY <1>1, <1>2 DEF CallRecord, ReplayPhase, Aborted
<1>4. PlaceOK(replay')
  BY <1>1, <1>2, <1>3 DEF ReplayInv, TypeInv, PlaceOK, Stepping, Passing, Waiting
<1>5. ClosingOK(replay') /\ PadOK(replay', joypad')
  BY <1>1, <1>2, <1>3 DEF ReplayInv, TypeInv, ClosingOK, PadOK, Opened, Passing, Stepping
<1>6. ASSUME RunsOK(replay, past)
      PROVE  RunsOK(replay', past')
  <2>1. ASSUME NEW p \in 1 .. n - 1
        PROVE  /\ p \in 1 .. n /\ p # n /\ replay'.runs[p] = replay.runs[p]
               /\ Follows(replay.runs[p].seen, replay.steps)
               /\ Len(replay.runs[p].seen) = Len(replay.steps)
    <3>1. p \in 1 .. n /\ p # n
      BY <1>1
    <3> QED
      BY <1>2, <1>3, <1>6, <3>1 DEF RunsOK
  <2>2. replay'.at \notin Passing
    BY <1>3 DEF Passing, Stepping
  <2>3. Len(replay'.runs) = n - 1
    BY <1>2, <1>3
  <2>4. \A p, q \in 1 .. n - 1 : Agree(replay'.runs[p].seen, replay'.runs[q].seen)
    BY <1>6, <2>1 DEF RunsOK
  <2> QED
    BY <1>3, <2>1, <2>2, <2>3, <2>4 DEF RunsOK
<1>7. StillOK(replay, running) => StillOK(replay', running')
  BY <1>3 DEF StillOK, Opened, Passing, Stepping
<1> QED
  BY <1>3, <1>4, <1>5, <1>6, <1>7 DEF ReplayInv, TypeInv, Own, MachineTypes, Undisturbed

\* The end of the window.
LEMMA ClosedKeeps ==
  ASSUME ReplayInv, Own, MachineTypes, joypad' = joypad,
         replay.at \in {"restore", "resume"},
         NEW how \in Closing \ {"open"}, replay' = Closed(how),
         how = "paused" => replay.entry = "paused",
         how \in {"resumed", "stuck"} => replay.entry = "running",
         ~running /\ how = "resumed" => running',
         ~running /\ how \in {"skipped", "paused"} => ~running'
  PROVE  ReplayInv'
<1>1. replay \in CallRecord
  BY DEF ReplayInv, TypeInv
<1>2. /\ replay' \in CallRecord /\ replay'.closed = how
      /\ replay'.at = (IF Len(replay.runs) = replay.passes THEN "verdict" ELSE "failed")
      /\ replay'.runs = replay.runs /\ replay'.steps = replay.steps /\ replay'.step = replay.step
      /\ replay'.passes = replay.passes /\ replay'.entry = replay.entry
  BY <1>1 DEF CallRecord, ReplayPhase, Closed, Closing
<1>3. PlaceOK(replay') /\ ClosingOK(replay')
  BY <1>2 DEF ReplayInv, TypeInv, PlaceOK, ClosingOK, Stepping, Passing, Waiting, Opened
<1>4. PadOK(replay', joypad')
  BY <1>2 DEF ReplayInv, PadOK
<1>5. RunsOK(replay, past) => RunsOK(replay', past')
  BY <1>2 DEF RunsOK, Passing, Stepping
<1>6. StillOK(replay, running) => StillOK(replay', running')
  BY <1>2 DEF StillOK, Opened, Passing, Stepping
<1> QED
  BY <1>2, <1>3, <1>4, <1>5, <1>6 DEF ReplayInv, TypeInv, Own, MachineTypes, Undisturbed

LEMMA UnchangedTypes ==
  ASSUME ReplayInv, UNCHANGED replayMachine
  PROVE  MachineTypes
BY DEF ReplayInv, TypeInv, MachineTypes, replayMachine

LEMMA HaltTypes ==
  ASSUME ReplayInv, Halt \/ Load \/ Resume
  PROVE  MachineTypes /\ joypad' = joypad
<1>1. <<>> \in Frameset
  BY EmptySeq DEF Frameset
<1> QED
  BY <1>1 DEF ReplayInv, TypeInv, MachineTypes, Halt, Load, Resume

-----------------------------------------------------------------------------
(* The window opens.                                                        *)

LEMMA OpenKeeps ==
  ASSUME ReplayInv, OpenWindow
  PROVE  ReplayInv'
<1>1. PICK steps \in StepLists, strict \in BOOLEAN, passes \in {2, 3}, entry \in FoundState :
        /\ replay' = [NoCall EXCEPT !.at = IF entry = "paused" THEN "save" ELSE "pause",
                                    !.steps = steps, !.strict = strict,
                                    !.passes = passes, !.entry = entry]
        /\ IF entry = (IF running THEN "running" ELSE "paused")
           THEN UNCHANGED <<upsets, touched>>
           ELSE Upset /\ touched' = (entry # "unknown")
  BY ZenonT(60) DEF OpenWindow, EnterReplay, FoundState
<1>2. /\ replay.at = "idle" /\ lock' = "replay" /\ UNCHANGED <<replayMachine, admitted, intruded>>
  BY DEF OpenWindow, EnterReplay
<1>3. /\ replay' \in CallRecord /\ replay'.at = (IF entry = "paused" THEN "save" ELSE "pause")
      /\ replay'.steps = steps /\ replay'.passes = passes /\ replay'.entry = entry
      /\ replay'.runs = <<>> /\ replay'.step = 1 /\ replay'.closed = "open"
  <2>1. <<>> \in Seq(PassRecord) /\ <<>> \in Seq(Pressable)
    BY EmptySeq
  <2>2. NoCall = [at |-> "idle", steps |-> <<>>, strict |-> FALSE, passes |-> 2, entry |-> "unknown",
                  runs |-> <<>>, step |-> 1, todo |-> <<>>, closed |-> "open"]
    BY DEF NoCall
  <2> QED
    BY <1>1, <2>1, <2>2 DEF CallRecord, ReplayPhase, Closing, FoundState
<1>4. Len(replay'.runs) = 0
  BY <1>3
<1>5. PlaceOK(replay') /\ ClosingOK(replay')
  BY <1>3, <1>4, ListTypes DEF PlaceOK, ClosingOK, Stepping, Passing, Waiting, Opened
<1>6. PadOK(replay', joypad')
  BY <1>2, <1>3 DEF ReplayInv, PadOK, replayMachine
<1>7. RunsOK(replay', past')
  BY <1>3, <1>4 DEF RunsOK, Passing, Stepping
<1>8. ~touched' => StillOK(replay', running')
  <2>1. ASSUME entry = "paused", ~touched'
        PROVE  ~running'
    BY <1>1, <1>2, <2>1 DEF replayMachine
  <2> QED
    BY <1>3, <2>1 DEF StillOK, Opened, Passing, Stepping
<1>9. touched' \in BOOLEAN
  BY <1>1 DEF ReplayInv, TypeInv
<1> QED
  BY <1>2, <1>3, <1>5, <1>6, <1>7, <1>8, <1>9 DEF ReplayInv, TypeInv, Undisturbed, replayMachine

LEMMA PauseKeeps ==
  ASSUME ReplayInv, PauseFirst
  PROVE  ReplayInv'
<1>1. replay.at = "pause" /\ Own
      /\ \/ Halt /\ replay' = [replay EXCEPT !.at = "save"]
         \/ (Halt \/ UNCHANGED replayMachine) /\ replay' = RefusedReplay
  BY DEF PauseFirst, Command, Own
<1>2. MachineTypes
  BY <1>1, HaltTypes, UnchangedTypes
<1>3. CASE replay' = RefusedReplay
  BY <1>1, <1>2, <1>3, RefusedKeeps
<1>4. CASE Halt /\ replay' = [replay EXCEPT !.at = "save"]
  <2>1. replay \in CallRecord
    BY DEF ReplayInv, TypeInv
  <2>2. /\ replay' \in CallRecord /\ replay'.at = "save" /\ replay'.runs = replay.runs
        /\ replay'.steps = replay.steps /\ replay'.step = replay.step /\ replay'.todo = replay.todo
        /\ replay'.passes = replay.passes /\ replay'.entry = replay.entry
        /\ replay'.closed = replay.closed
    BY <1>4, <2>1 DEF CallRecord, ReplayPhase
  <2>3. PlaceOK(replay') /\ ClosingOK(replay')
    BY <1>1, <2>2 DEF ReplayInv, TypeInv, PlaceOK, ClosingOK, Stepping, Passing, Waiting, Opened
  <2>4. PadOK(replay', joypad') /\ ~running'
    BY <1>1, <1>4, <2>2 DEF ReplayInv, PadOK, Halt
  <2>5. RunsOK(replay, past) => RunsOK(replay', past')
    BY <1>1, <2>2 DEF RunsOK, Passing, Stepping
  <2>6. StillOK(replay', running')
    BY <2>2, <2>4 DEF StillOK
  <2> QED
    BY <1>1, <1>2, <2>2, <2>3, <2>4, <2>5, <2>6
    DEF ReplayInv, TypeInv, Own, MachineTypes, Undisturbed
<1> QED
  BY <1>1, <1>3, <1>4

LEMMA SaveKeeps ==
  ASSUME ReplayInv, SaveInitial
  PROVE  ReplayInv'
<1>1. /\ replay.at = "save" /\ Own /\ UNCHANGED <<running, joypad, counter>>
      /\ \/ replay' = [replay EXCEPT !.at = "load"] /\ past' \in {past, <<>>}
         \/ replay' = RefusedReplay /\ past' = past
  BY DEF SaveInitial, Own
<1>2. MachineTypes
  <2>1. <<>> \in Frameset
    BY EmptySeq DEF Frameset
  <2> QED
    BY <1>1, <2>1 DEF ReplayInv, TypeInv, MachineTypes
<1>3. CASE replay' = RefusedReplay
  BY <1>1, <1>2, <1>3, RefusedKeeps
<1>4. CASE replay' = [replay EXCEPT !.at = "load"]
  <2>1. replay \in CallRecord
    BY DEF ReplayInv, TypeInv
  <2>2. /\ replay' \in CallRecord /\ replay'.at = "load" /\ replay'.runs = replay.runs
        /\ replay'.steps = replay.steps /\ replay'.step = replay.step /\ replay'.todo = replay.todo
        /\ replay'.passes = replay.passes /\ replay'.entry = replay.entry
        /\ replay'.closed = replay.closed
    BY <1>4, <2>1 DEF CallRecord, ReplayPhase
  <2>3. PlaceOK(replay') /\ ClosingOK(replay')
    BY <1>1, <2>2 DEF ReplayInv, TypeInv, PlaceOK, ClosingOK, Stepping, Passing, Waiting, Opened
  <2>4. PadOK(replay', joypad')
    BY <1>1, <2>2 DEF ReplayInv, PadOK
  <2>5. RunsOK(replay, past) => RunsOK(replay', past')
    BY <1>1, <2>2 DEF RunsOK, Passing, Stepping
  <2>6. StillOK(replay, running) => StillOK(replay', running')
    BY <1>1, <2>2 DEF StillOK, Opened
  <2> QED
    BY <1>1, <1>2, <2>2, <2>3, <2>4, <2>5, <2>6
    DEF ReplayInv, TypeInv, Own, MachineTypes, Undisturbed
<1> QED
  BY <1>1, <1>3, <1>4

-----------------------------------------------------------------------------
(* A pass begins.                                                           *)

LEMMA PassTypes ==
  ASSUME NEW confirmed \in BOOLEAN
  PROVE  Pass(confirmed) \in PassRecord /\ Pass(confirmed).seen = <<>>
<1>1. <<>> \in Seq(Count) /\ <<>> \in Seq(Reading) /\ <<>> \in Seq(Frameset)
  BY EmptySeq
<1> QED
  BY <1>1 DEF Pass, PassRecord, Count, Reading

LEMMA BegunKeeps ==
  ASSUME ReplayInv, Own, MachineTypes, joypad' = joypad,
         replay.at \in {"load", "settle"},
         NEW confirmed \in BOOLEAN, replay' = Begun(confirmed),
         ~running => ~running', RunsOK(replay, past) => past' = <<>>
  PROVE  ReplayInv'
<1> DEFINE n == Len(replay.runs)
           runs == Append(replay.runs, Pass(confirmed))
<1>1. replay \in CallRecord /\ replay.runs \in Seq(PassRecord) /\ n \in Nat
      /\ replay.passes \in Nat /\ n < replay.passes /\ replay.steps \in StepLists
  BY LenProperties DEF ReplayInv, TypeInv, PlaceOK, CallRecord, Waiting
<1>2. /\ runs \in Seq(PassRecord) /\ Len(runs) = n + 1 /\ runs[n + 1] = Pass(confirmed)
      /\ \A i \in 1 .. n : runs[i] = replay.runs[i]
  BY <1>1, PassTypes, AppendProperties
<1> HIDE DEF runs
<1>3. /\ replay' \in CallRecord /\ replay'.at = "baseline" /\ replay'.runs = runs
      /\ replay'.steps = replay.steps /\ replay'.step = 1
      /\ replay'.passes = replay.passes /\ replay'.entry = replay.entry
      /\ replay'.closed = replay.closed
  BY <1>1, <1>2 DEF CallRecord, ReplayPhase, Begun, runs
<1>4. PlaceOK(replay') /\ ClosingOK(replay')
  BY <1>1, <1>2, <1>3, ListTypes
  DEF ReplayInv, TypeInv, PlaceOK, ClosingOK, Stepping, Passing, Waiting, Opened
<1>5. PadOK(replay', joypad')
  BY <1>3 DEF ReplayInv, PadOK
<1>6. ASSUME RunsOK(replay, past)
      PROVE  RunsOK(replay', past')
  <2>1. runs[n + 1].seen = <<>> /\ Len(runs[n + 1].seen) = 0 /\ Follows(runs[n + 1].seen, replay.steps)
    BY <1>1, <1>2, PassTypes, ListTypes DEF Follows
  <2>2. ASSUME NEW p \in 1 .. n
        PROVE  /\ Follows(runs[p].seen, replay.steps)
               /\ Len(runs[p].seen) = Len(replay.steps)
               /\ Agree(runs[p].seen, runs[n + 1].seen) /\ Agree(runs[n + 1].seen, runs[p].seen)
               /\ \A q \in 1 .. n : Agree(runs[p].seen, runs[q].seen)
    <3>1. Follows(replay.runs[p].seen, replay.steps) /\ Len(replay.runs[p].seen) = Len(replay.steps)
          /\ \A q \in 1 .. n : Agree(replay.runs[p].seen, replay.runs[q].seen)
      BY <1>1, <1>6 DEF RunsOK, Passing, Stepping
    <3>2. Agree(runs[p].seen, runs[n + 1].seen) /\ Agree(runs[n + 1].seen, runs[p].seen)
      <4>1. Len(runs[p].seen) \in Nat
        BY <1>1, <1>2, <3>1, ListTypes
      <4> QED
        BY <2>1, <4>1 DEF Agree
    <3> QED
      BY <1>2, <3>1, <3>2
  <2>3. Agree(runs[n + 1].seen, runs[n + 1].seen)
    BY <2>1 DEF Agree
  <2>4. \A p \in 1 .. n + 1 : p = n + 1 \/ p \in 1 .. n
    BY <1>1
  <2>5. \A p, q \in 1 .. n + 1 : Agree(runs[p].seen, runs[q].seen)
    BY <2>2, <2>3, <2>4
  <2>6. Reached(replay') = 0 /\ replay'.at \in Passing /\ replay'.at # "settle"
    BY <1>3 DEF Reached, Passing
  <2>7. \A p \in 1 .. n + 1 : p \in 1 .. n => p # n + 1
    BY <1>1
  <2>8. ASSUME NEW p \in 1 .. n + 1
        PROVE  /\ Follows(runs[p].seen, replay.steps)
               /\ Len(runs[p].seen) = IF p = n + 1 THEN 0 ELSE Len(replay.steps)
    BY <2>1, <2>2, <2>4, <2>7
  <2>9. past' = Before(runs[n + 1].seen, Len(runs[n + 1].seen) + 1)
    BY <1>6, <2>1 DEF Before
  <2> QED
    BY <1>2, <1>3, <2>5, <2>6, <2>8, <2>9 DEF RunsOK
<1>7. StillOK(replay, running) => StillOK(replay', running')
  BY <1>3 DEF StillOK, Opened, Passing
<1> QED
  BY <1>3, <1>4, <1>5, <1>6, <1>7 DEF ReplayInv, TypeInv, Own, MachineTypes, Undisturbed

LEMMA RestoreKeeps ==
  ASSUME ReplayInv, Restore
  PROVE  ReplayInv'
<1>1. replay.at = "load" /\ Own
      /\ \/ Load /\ replay' = (IF running THEN [replay EXCEPT !.at = "settle"] ELSE Begun(TRUE))
         \/ Load /\ replay' = [replay EXCEPT !.at = "settle"]
         \/ (Load \/ UNCHANGED replayMachine) /\ replay' = RefusedReplay
  BY DEF Restore, Command, Unechoed, Own
<1>2. MachineTypes
  BY <1>1, HaltTypes, UnchangedTypes
<1>3. CASE replay' = RefusedReplay
  BY <1>1, <1>2, <1>3, RefusedKeeps
<1>4. CASE Load /\ replay' = Begun(TRUE)
  BY <1>1, <1>2, <1>4, BegunKeeps DEF Load
<1>5. CASE Load /\ replay' = [replay EXCEPT !.at = "settle"]
  <2>1. replay \in CallRecord
    BY DEF ReplayInv, TypeInv
  <2>2. /\ replay' \in CallRecord /\ replay'.at = "settle" /\ replay'.runs = replay.runs
        /\ replay'.steps = replay.steps /\ replay'.step = replay.step /\ replay'.todo = replay.todo
        /\ replay'.passes = replay.passes /\ replay'.entry = replay.entry
        /\ replay'.closed = replay.closed
    BY <1>5, <2>1 DEF CallRecord, ReplayPhase
  <2>3. PlaceOK(replay') /\ ClosingOK(replay')
    BY <1>1, <2>2 DEF ReplayInv, TypeInv, PlaceOK, ClosingOK, Stepping, Passing, Waiting, Opened
  <2>4. PadOK(replay', joypad')
    BY <1>1, <1>5, <2>2 DEF ReplayInv, PadOK, Load
  <2>5. RunsOK(replay, past) => RunsOK(replay', past')
    BY <1>1, <1>5, <2>2 DEF RunsOK, Passing, Stepping, Load
  <2>6. StillOK(replay, running) => StillOK(replay', running')
    BY <1>1, <1>5, <2>2 DEF StillOK, Opened, Load
  <2> QED
    BY <1>1, <1>2, <2>2, <2>3, <2>4, <2>5, <2>6
    DEF ReplayInv, TypeInv, Own, MachineTypes, Undisturbed
<1> QED
  BY <1>1, <1>3, <1>4, <1>5

LEMMA SettleKeeps ==
  ASSUME ReplayInv, PauseRestored
  PROVE  ReplayInv'
<1>1. replay.at = "settle" /\ Own
      /\ \/ Halt /\ replay' = Begun(TRUE)
         \/ Halt /\ replay' = Begun(FALSE)
         \/ (Halt \/ UNCHANGED replayMachine) /\ replay' = RefusedReplay
  BY DEF PauseRestored, Command, Unechoed, Own
<1>2. MachineTypes
  BY <1>1, HaltTypes, UnchangedTypes
<1>3. CASE replay' = RefusedReplay
  BY <1>1, <1>2, <1>3, RefusedKeeps
<1>4. CASE Halt /\ \E confirmed \in BOOLEAN : replay' = Begun(confirmed)
  <2>1. RunsOK(replay, past) => past' = <<>>
    BY <1>1, <1>4 DEF RunsOK, Halt
  <2>2. joypad' = joypad /\ (~running => ~running')
    BY <1>4 DEF Halt
  <2> QED
    BY <1>1, <1>2, <1>4, <2>1, <2>2, BegunKeeps
<1> QED
  BY <1>1, <1>3, <1>4

-----------------------------------------------------------------------------
(* A pass goes on.                                                          *)

SameCall(call) ==
  /\ call.steps = replay.steps /\ call.passes = replay.passes
  /\ call.entry = replay.entry /\ call.closed = replay.closed

\* No pass has seen anything new.
SameSeen(runs) ==
  /\ Len(runs) = Len(replay.runs)
  /\ \A p \in 1 .. Len(replay.runs) : runs[p].seen = replay.runs[p].seen

LEMMA PassKeeps ==
  ASSUME ReplayInv, Own, MachineTypes, UNCHANGED <<running, past>>,
         replay.at \in Passing, replay' \in CallRecord, SameCall(replay'), SameSeen(replay'.runs),
         PlaceOK(replay'), PadOK(replay', joypad'),
         replay'.at \in Passing \cup {"load", "restore"},
         Reached(replay) = IF replay'.at \in Passing THEN Reached(replay') ELSE Len(replay.steps)
  PROVE  ReplayInv'
<1>1. ClosingOK(replay')
  BY DEF ReplayInv, TypeInv, ClosingOK, Passing, Stepping, Opened, SameCall
<1>2. ASSUME RunsOK(replay, past)
      PROVE  RunsOK(replay', past')
  <2>1. ASSUME NEW p \in 1 .. Len(replay.runs)
        PROVE  /\ Follows(replay'.runs[p].seen, replay'.steps)
               /\ Len(replay'.runs[p].seen) = IF replay'.at \in Passing /\ p = Len(replay.runs)
                                              THEN Reached(replay') ELSE Len(replay'.steps)
    <3>1. /\ Follows(replay.runs[p].seen, replay.steps)
          /\ Len(replay.runs[p].seen) = IF p = Len(replay.runs)
                                        THEN Reached(replay) ELSE Len(replay.steps)
      BY <1>2 DEF RunsOK
    <3>2. replay'.runs[p].seen = replay.runs[p].seen /\ replay'.steps = replay.steps
      BY DEF SameSeen, SameCall
    <3> QED
      BY <3>1, <3>2
  <2>2. \A p, q \in 1 .. Len(replay.runs) : Agree(replay'.runs[p].seen, replay'.runs[q].seen)
    BY <1>2 DEF RunsOK, SameSeen
  <2>3. replay'.at \in Passing =>
          LET seen == replay'.runs[Len(replay'.runs)].seen IN past' = Before(seen, Len(seen) + 1)
    <3>1. Len(replay.runs) \in 1 .. Len(replay.runs)
      <4>1. Len(replay.runs) \in Nat /\ Len(replay.runs) >= 1
        BY LenProperties DEF ReplayInv, TypeInv, PlaceOK, CallRecord
      <4> QED
        BY <4>1
    <3>2. /\ Len(replay'.runs) = Len(replay.runs)
          /\ replay'.runs[Len(replay.runs)].seen = replay.runs[Len(replay.runs)].seen
      BY <3>1 DEF SameSeen
    <3> QED
      BY <1>2, <3>2 DEF RunsOK
  <2>4. replay'.at # "settle" /\ Len(replay'.runs) = Len(replay.runs)
    BY DEF Passing, Stepping, SameSeen
  <2> QED
    BY <2>1, <2>2, <2>3, <2>4 DEF RunsOK
<1>3. StillOK(replay, running) => StillOK(replay', running')
  BY DEF StillOK, Opened, Passing, Stepping
<1> QED
  BY <1>1, <1>2, <1>3 DEF ReplayInv, TypeInv, Own, MachineTypes, Undisturbed

LEMMA CurrentTypes ==
  ASSUME ReplayInv, replay.at \in Passing
  PROVE  /\ Len(replay.runs) \in Nat /\ Len(replay.runs) \in 1 .. Len(replay.runs)
         /\ Current = replay.runs[Len(replay.runs)] /\ Current \in PassRecord
         /\ replay.steps \in StepLists /\ Len(replay.steps) \in Nat /\ replay.step \in Nat
         /\ replay \in CallRecord /\ replay.passes \in Nat /\ Len(replay.runs) <= replay.passes
         /\ replay.step \in 1 .. Len(replay.steps) + 1
<1>1. Len(replay.runs) \in Nat /\ Len(replay.runs) >= 1
  BY LenProperties DEF ReplayInv, TypeInv, PlaceOK, CallRecord
<1>2. Len(replay.runs) \in 1 .. Len(replay.runs)
  BY <1>1
<1>3. replay.runs \in Seq(PassRecord)
  BY DEF ReplayInv, TypeInv, CallRecord
<1>4. replay.runs[Len(replay.runs)] \in PassRecord
  BY <1>2, <1>3, ElementOfSeq
<1>5. replay.steps \in StepLists
  BY DEF ReplayInv, TypeInv, PlaceOK, Passing, Stepping, Waiting
<1> QED
  BY <1>1, <1>2, <1>4, <1>5, ListTypes DEF Current, Last, ReplayInv, TypeInv, PlaceOK, CallRecord

LEMMA RecordedTypes ==
  ASSUME ReplayInv, replay.at \in Passing, NEW made \in PassRecord
  PROVE  /\ Recorded(made) \in Seq(PassRecord) /\ Len(Recorded(made)) = Len(replay.runs)
         /\ Recorded(made)[Len(replay.runs)] = made
         /\ \A p \in 1 .. Len(replay.runs) : p # Len(replay.runs) => Recorded(made)[p] = replay.runs[p]
         /\ made.seen = Current.seen => SameSeen(Recorded(made))
<1>1. replay.runs \in Seq(PassRecord)
  BY DEF ReplayInv, TypeInv, CallRecord
<1>2. /\ Recorded(made) \in Seq(PassRecord) /\ Len(Recorded(made)) = Len(replay.runs)
      /\ \A p \in 1 .. Len(replay.runs) :
           Recorded(made)[p] = IF p = Len(replay.runs) THEN made ELSE replay.runs[p]
  BY <1>1, CurrentTypes, ExceptSeq DEF Recorded
<1> QED
  BY <1>2, CurrentTypes DEF SameSeen

LEMMA StepAtTypes ==
  ASSUME NEW call \in CallRecord, call.steps \in StepLists, NEW i \in 1 .. Len(call.steps) + 1
  PROVE  /\ StepAt(call, i) \in CallRecord /\ StepAt(call, i).step = i
         /\ StepAt(call, i).steps = call.steps /\ StepAt(call, i).passes = call.passes
         /\ StepAt(call, i).entry = call.entry /\ StepAt(call, i).closed = call.closed
         /\ StepAt(call, i).runs = call.runs
         /\ \/ i = Len(call.steps) + 1 /\ StepAt(call, i).at = "final"
            \/ /\ i \in 1 .. Len(call.steps) /\ call.steps[i].buttons = <<>>
               /\ StepAt(call, i).at = "advance"
            \/ /\ i \in 1 .. Len(call.steps) /\ call.steps[i].buttons # <<>>
               /\ StepAt(call, i).at = "press" /\ StepAt(call, i).todo = call.steps[i].buttons
<1>1. Len(call.steps) \in Nat
  BY ListTypes
<1>2. CASE i > Len(call.steps)
  <2>1. StepAt(call, i) = [call EXCEPT !.at = "final", !.step = i]
    BY <1>2 DEF StepAt
  <2>2. i = Len(call.steps) + 1 /\ i \in Nat
    BY <1>1, <1>2
  <2>3. /\ StepAt(call, i) \in CallRecord /\ StepAt(call, i).at = "final"
        /\ StepAt(call, i).step = i
    BY <2>1, <2>2 DEF CallRecord, ReplayPhase
  <2> QED
    BY <2>1, <2>2, <2>3 DEF CallRecord
<1>3. CASE ~(i > Len(call.steps))
  <2>1. i \in 1 .. Len(call.steps) /\ i \in Nat
    BY <1>1, <1>3
  <2>2. StepAt(call, i) = [call EXCEPT !.at = IF call.steps[i].buttons = <<>> THEN "advance" ELSE "press",
                                       !.step = i, !.todo = call.steps[i].buttons]
    BY <1>3 DEF StepAt
  <2>3. call.steps[i].buttons \in Seq(Pressable)
    BY <2>1, ListTypes
  <2> QED
    BY <2>1, <2>2, <2>3 DEF CallRecord, ReplayPhase
<1> QED
  BY <1>2, <1>3

\* The next step of a pass that has seen the ones before it, with no button down.
LEMMA StepAtKeeps ==
  ASSUME ReplayInv, Own, MachineTypes, UNCHANGED <<running, past>>, joypad' = {},
         replay.at \in Passing, NEW call \in CallRecord, SameCall(call), SameSeen(call.runs),
         NEW i \in 1 .. Len(replay.steps) + 1, Reached(replay) = i - 1,
         replay' = StepAt(call, i)
  PROVE  ReplayInv'
<1>1. call.steps = replay.steps /\ replay.steps \in StepLists /\ Len(replay.steps) \in Nat
  BY CurrentTypes DEF SameCall
<1>2. /\ replay' \in CallRecord /\ replay'.step = i
      /\ replay'.steps = replay.steps /\ replay'.passes = call.passes
      /\ replay'.entry = call.entry /\ replay'.closed = call.closed
      /\ replay'.runs = call.runs
      /\ \/ i = Len(replay.steps) + 1 /\ replay'.at = "final"
         \/ /\ i \in 1 .. Len(replay.steps) /\ replay.steps[i].buttons = <<>> /\ replay'.at = "advance"
         \/ /\ i \in 1 .. Len(replay.steps) /\ replay.steps[i].buttons # <<>>
            /\ replay'.at = "press" /\ replay'.todo = replay.steps[i].buttons
  BY <1>1, StepAtTypes
<1>3. SameCall(replay') /\ SameSeen(replay'.runs)
  BY <1>2 DEF SameCall, SameSeen
<1>4. PlaceOK(replay')
  BY <1>1, <1>2, <1>3, CurrentTypes DEF PlaceOK, SameSeen, SameCall, Passing, Stepping, Waiting
<1>5. PadOK(replay', joypad')
  <2>1. ToSet(<<>>) = {}
    BY EmptySeq, ToSetTypes
  <2> QED
    BY <1>2, <2>1 DEF PadOK, Buttons
<1>6. replay'.at \in Passing /\ Reached(replay') = i - 1
  BY <1>1, <1>2 DEF Reached, Passing, Stepping
<1> QED
  BY <1>2, <1>3, <1>4, <1>5, <1>6, PassKeeps

-----------------------------------------------------------------------------
(* The steps of a pass.                                                     *)

LEMMA BaselineKeeps ==
  ASSUME ReplayInv, Baseline
  PROVE  ReplayInv'
<1>1. PICK token \in {counter, Missing}, registers \in {past, Missing} :
        replay' = StepAt([replay EXCEPT
                            !.runs = Recorded([Current EXCEPT !.baseline = token,
                                                              !.fingerprint = registers])], 1)
  BY DEF Baseline
<1>2. replay.at = "baseline" /\ replay.at \in Passing /\ Own /\ UNCHANGED replayMachine
  BY DEF Baseline, Own, Passing
<1> DEFINE made == [Current EXCEPT !.baseline = token, !.fingerprint = registers]
           call == [replay EXCEPT !.runs = Recorded(made)]
<1>3. made \in PassRecord /\ made.seen = Current.seen
  <2>1. token \in Count /\ registers \in Reading
    BY DEF ReplayInv, TypeInv, Count, Reading
  <2> QED
    BY <1>2, <2>1, CurrentTypes DEF PassRecord
<1>4. Recorded(made) \in Seq(PassRecord) /\ SameSeen(Recorded(made))
  BY <1>2, <1>3, RecordedTypes
<1>5. call \in CallRecord /\ SameCall(call) /\ call.runs = Recorded(made)
  BY <1>2, <1>4, CurrentTypes DEF CallRecord, SameCall
<1>6. MachineTypes /\ UNCHANGED <<running, past>> /\ joypad' = {}
  BY <1>2, UnchangedTypes DEF ReplayInv, PadOK, replayMachine
<1>7. 1 \in 1 .. Len(replay.steps) + 1 /\ Reached(replay) = 1 - 1
  BY <1>2, CurrentTypes DEF Reached
<1>8. replay' = StepAt(call, 1)
  BY <1>1
<1> HIDE DEF call
<1> QED
  BY <1>2, <1>4, <1>5, <1>6, <1>7, <1>8, StepAtKeeps

LEMMA PadTypes ==
  ASSUME ReplayInv, NEW button \in Pressable, Down(button) \/ Up(button)
  PROVE  MachineTypes /\ UNCHANGED <<running, past>>
BY DEF ReplayInv, TypeInv, MachineTypes, Down, Up

LEMMA TodoTypes ==
  ASSUME ReplayInv, replay.at \in {"press", "release"}
  PROVE  /\ replay.todo \in Seq(Pressable) /\ Head(replay.todo) \in Pressable
         /\ Tail(replay.todo) \in Seq(Pressable)
         /\ ToSet(replay.todo) = {Head(replay.todo)} \cup ToSet(Tail(replay.todo))
         /\ Len(replay.todo) > 1 <=> Tail(replay.todo) # <<>>
         /\ Tail(replay.todo) = <<>> => ToSet(Tail(replay.todo)) = {}
<1>1. replay.todo \in Seq(Pressable) /\ replay.todo # <<>>
  BY DEF ReplayInv, TypeInv, CallRecord, PlaceOK
<1>2. Tail(replay.todo) \in Seq(Pressable)
  BY <1>1, ToSetTypes
<1> QED
  BY <1>1, <1>2, ToSetTypes

LEMMA PressKeeps ==
  ASSUME ReplayInv, PressButton
  PROVE  ReplayInv'
<1> DEFINE button == Head(replay.todo)
           next == IF Len(replay.todo) > 1 THEN [replay EXCEPT !.todo = Tail(@)]
                   ELSE [replay EXCEPT !.at = "advance"]
<1>1. replay.at = "press" /\ Own
      /\ \/ Down(button) /\ replay' = next
         \/ (Down(button) \/ UNCHANGED replayMachine) /\ replay' = Aborted
  BY DEF PressButton, Command, Own
<1>2. MachineTypes /\ UNCHANGED <<running, past>>
  BY <1>1, TodoTypes, PadTypes, UnchangedTypes DEF replayMachine
<1>3. CASE replay' = Aborted
  BY <1>1, <1>2, <1>3, AbortKeeps
<1>4. CASE Down(button) /\ replay' = next
  <2>1. replay.at \in Passing /\ replay \in CallRecord
    BY <1>1, CurrentTypes DEF Passing, Stepping, ReplayInv, TypeInv
  <2>2. /\ replay' \in CallRecord /\ SameCall(replay') /\ SameSeen(replay'.runs)
        /\ replay'.runs = replay.runs /\ replay'.step = replay.step
        /\ replay'.at = (IF Len(replay.todo) > 1 THEN "press" ELSE "advance")
        /\ Len(replay.todo) > 1 => replay'.todo = Tail(replay.todo)
    BY <1>1, <1>4, <2>1, TodoTypes DEF CallRecord, ReplayPhase, SameCall, SameSeen
  <2>3. PlaceOK(replay')
    BY <1>1, <2>2, TodoTypes
    DEF ReplayInv, TypeInv, PlaceOK, SameCall, Passing, Stepping, Waiting
  <2>4. PadOK(replay', joypad')
    <3>1. joypad' = joypad \cup {button} /\ joypad \cup ToSet(replay.todo) = Buttons(replay)
      BY <1>1, <1>4 DEF Down, ReplayInv, PadOK
    <3>2. Buttons(replay') = Buttons(replay)
      BY <2>2 DEF Buttons, SameCall
    <3> QED
      BY <2>2, <3>1, <3>2, TodoTypes, <1>1 DEF PadOK
  <2>5. replay'.at \in Passing /\ Reached(replay') = Reached(replay)
    BY <1>1, <2>2 DEF Reached, Passing, Stepping
  <2> QED
    BY <1>1, <1>2, <2>1, <2>2, <2>3, <2>4, <2>5, PassKeeps
<1> QED
  BY <1>1, <1>3, <1>4

LEMMA SampleKeeps ==
  ASSUME ReplayInv, Sample
  PROVE  ReplayInv'
<1> DEFINE made(registers) == [Current EXCEPT !.samples = Append(@, registers)]
           sampled(registers) == [replay EXCEPT !.runs = Recorded(made(registers))]
<1>1. /\ replay.at = "sample" /\ replay.at \in Passing /\ Own /\ UNCHANGED replayMachine
      /\ \E registers \in {past, Missing} :
           replay' = IF replay.steps[replay.step].buttons = <<>>
                     THEN StepAt(sampled(registers), replay.step + 1)
                     ELSE [sampled(registers) EXCEPT !.at = "release",
                                                     !.todo = replay.steps[replay.step].buttons]
  BY DEF Sample, Own, Passing, Stepping
<1>2. PICK registers \in {past, Missing} :
        replay' = IF replay.steps[replay.step].buttons = <<>>
                  THEN StepAt(sampled(registers), replay.step + 1)
                  ELSE [sampled(registers) EXCEPT !.at = "release",
                                                  !.todo = replay.steps[replay.step].buttons]
  BY <1>1
<1> DEFINE call == sampled(registers)
<1>3. made(registers) \in PassRecord /\ made(registers).seen = Current.seen
  <2>1. registers \in Reading
    BY DEF ReplayInv, TypeInv, Reading
  <2>2. Current \in PassRecord /\ Current.samples \in Seq(Reading)
    BY <1>1, CurrentTypes DEF PassRecord
  <2>3. Append(Current.samples, registers) \in Seq(Reading)
    BY <2>1, <2>2, AppendProperties
  <2> QED
    BY <2>2, <2>3 DEF PassRecord
<1>4. Recorded(made(registers)) \in Seq(PassRecord) /\ SameSeen(Recorded(made(registers)))
  BY <1>1, <1>3, RecordedTypes
<1>5. /\ call \in CallRecord /\ SameCall(call) /\ call.runs = Recorded(made(registers))
      /\ call.step = replay.step
  BY <1>1, <1>4, CurrentTypes DEF CallRecord, SameCall
<1>6. MachineTypes /\ UNCHANGED <<running, past, joypad>>
  BY <1>1, UnchangedTypes DEF replayMachine
<1>7. /\ replay.step \in 1 .. Len(replay.steps) /\ replay.step \in Nat
      /\ replay.step + 1 \in 1 .. Len(replay.steps) + 1
      /\ Reached(replay) = replay.step /\ replay.step = (replay.step + 1) - 1
  BY <1>1, CurrentTypes DEF Reached, ReplayInv, TypeInv, PlaceOK, Stepping
<1>8. joypad = Buttons(replay)
  BY <1>1 DEF ReplayInv, PadOK
<1> DEFINE buttons == replay.steps[replay.step].buttons
<1>9. buttons \in Seq(Pressable)
  BY <1>1, <1>7, CurrentTypes, ListTypes
<1> HIDE DEF call
<1>10. CASE buttons = <<>>
  <2>1. joypad' = {}
    <3>1. ToSet(buttons) = {}
      <4> HIDE DEF buttons
      <4> QED
        BY <1>9, <1>10, ToSetTypes
    <3> QED
      BY <1>6, <1>8, <3>1 DEF Buttons
  <2>2. replay' = StepAt(call, replay.step + 1)
    BY <1>2, <1>10 DEF call
  <2> QED
    BY <1>1, <1>4, <1>5, <1>6, <1>7, <2>1, <2>2, StepAtKeeps
<1>11. CASE buttons # <<>>
  <2>1. replay' = [call EXCEPT !.at = "release", !.todo = buttons]
    BY <1>2, <1>11 DEF call
  <2>2. /\ replay' \in CallRecord /\ SameCall(replay') /\ replay'.runs = call.runs
        /\ replay'.at = "release" /\ replay'.todo = buttons /\ replay'.step = replay.step
    <3> HIDE DEF buttons
    <3> QED
      BY <1>5, <1>9, <2>1 DEF CallRecord, ReplayPhase, SameCall
  <2>6. SameSeen(replay'.runs) /\ Len(replay'.runs) = Len(replay.runs)
    BY <1>4, <1>5, <2>2 DEF SameSeen
  <2>3. PlaceOK(replay')
    BY <1>1, <1>7, <1>11, <2>2, <2>6, CurrentTypes
    DEF PlaceOK, SameCall, Passing, Stepping, Waiting
  <2>4. PadOK(replay', joypad')
    BY <1>6, <1>8, <2>2 DEF PadOK, Buttons
  <2>5. replay'.at \in Passing /\ Reached(replay') = Reached(replay)
    BY <1>7, <2>2 DEF Reached, Passing, Stepping
  <2> QED
    BY <1>1, <1>6, <2>2, <2>3, <2>4, <2>5, <2>6, PassKeeps
<1> QED
  BY <1>10, <1>11

LEMMA ReleaseKeeps ==
  ASSUME ReplayInv, ReleaseButton
  PROVE  ReplayInv'
<1> DEFINE button == Head(replay.todo)
<1>1. /\ replay.at = "release" /\ replay.at \in Passing /\ Own
      /\ \/ /\ Up(button)
            /\ replay' = IF Len(replay.todo) > 1 THEN [replay EXCEPT !.todo = Tail(@)]
                         ELSE StepAt(replay, replay.step + 1)
         \/ (Up(button) \/ UNCHANGED replayMachine) /\ replay' = Aborted
  BY DEF ReleaseButton, Command, Own, Passing, Stepping
<1>2. MachineTypes /\ UNCHANGED <<running, past>>
  BY <1>1, TodoTypes, PadTypes, UnchangedTypes DEF replayMachine
<1>3. /\ replay.step \in 1 .. Len(replay.steps) /\ replay.step \in Nat
      /\ replay.step + 1 \in 1 .. Len(replay.steps) + 1
      /\ Reached(replay) = replay.step /\ replay.step = (replay.step + 1) - 1
  BY <1>1, CurrentTypes DEF Reached, ReplayInv, TypeInv, PlaceOK, Stepping
<1>4. joypad \subseteq ToSet(replay.todo) /\ replay \in CallRecord
  BY <1>1 DEF ReplayInv, PadOK, TypeInv
<1>5. CASE replay' = Aborted
  BY <1>1, <1>2, <1>5, AbortKeeps
<1>6. CASE Up(button) /\ Len(replay.todo) > 1 /\ replay' = [replay EXCEPT !.todo = Tail(@)]
  <2>1. /\ replay' \in CallRecord /\ SameCall(replay') /\ SameSeen(replay'.runs)
        /\ replay'.runs = replay.runs /\ replay'.step = replay.step
        /\ replay'.at = "release" /\ replay'.todo = Tail(replay.todo)
    BY <1>1, <1>4, <1>6, TodoTypes DEF CallRecord, SameCall, SameSeen
  <2>2. PlaceOK(replay')
    BY <1>1, <1>6, <2>1, TodoTypes
    DEF ReplayInv, TypeInv, PlaceOK, SameCall, Passing, Stepping, Waiting
  <2>3. PadOK(replay', joypad')
    BY <1>1, <1>4, <1>6, <2>1, TodoTypes DEF PadOK, Up
  <2>4. replay'.at \in Passing /\ Reached(replay') = Reached(replay)
    BY <1>1, <2>1 DEF Reached, Passing, Stepping
  <2> QED
    BY <1>1, <1>2, <2>1, <2>2, <2>3, <2>4, PassKeeps
<1>7. CASE Up(button) /\ ~(Len(replay.todo) > 1) /\ replay' = StepAt(replay, replay.step + 1)
  <2>1. joypad' = {}
    BY <1>1, <1>4, <1>7, TodoTypes DEF Up
  <2>2. SameCall(replay) /\ SameSeen(replay.runs)
    BY DEF SameCall, SameSeen
  <2> QED
    BY <1>1, <1>2, <1>3, <1>4, <1>7, <2>1, <2>2, StepAtKeeps
<1> QED
  BY <1>1, <1>5, <1>6, <1>7

LEMMA FinalKeeps ==
  ASSUME ReplayInv, FinalRegisters
  PROVE  ReplayInv'
<1>1. PICK registers \in {past, Missing} :
        replay' = [replay EXCEPT !.runs = Recorded([Current EXCEPT !.final = registers]),
                                 !.at = IF Len(replay.runs) < replay.passes THEN "load" ELSE "restore"]
  BY DEF FinalRegisters
<1>2. replay.at = "final" /\ replay.at \in Passing /\ Own /\ UNCHANGED replayMachine
  BY DEF FinalRegisters, Own, Passing
<1> DEFINE made == [Current EXCEPT !.final = registers]
<1>3. made \in PassRecord /\ made.seen = Current.seen
  <2>1. registers \in Reading
    BY DEF ReplayInv, TypeInv, Reading
  <2> QED
    BY <1>2, <2>1, CurrentTypes DEF PassRecord
<1>4. Recorded(made) \in Seq(PassRecord) /\ SameSeen(Recorded(made))
  BY <1>2, <1>3, RecordedTypes
<1>5. /\ replay' \in CallRecord /\ SameCall(replay') /\ replay'.runs = Recorded(made)
      /\ replay'.step = replay.step
      /\ replay'.at = (IF Len(replay.runs) < replay.passes THEN "load" ELSE "restore")
  BY <1>1, <1>2, <1>4, CurrentTypes DEF CallRecord, ReplayPhase, SameCall
<1>6. SameSeen(replay'.runs) /\ Len(replay'.runs) = Len(replay.runs)
  BY <1>4, <1>5 DEF SameSeen
<1>7. MachineTypes /\ UNCHANGED <<running, past>> /\ joypad' = {}
  BY <1>2, UnchangedTypes DEF ReplayInv, PadOK, replayMachine
<1>8. PlaceOK(replay')
  BY <1>2, <1>5, <1>6, CurrentTypes DEF PlaceOK, SameCall, Passing, Stepping, Waiting
<1>9. PadOK(replay', joypad')
  BY <1>5, <1>7 DEF PadOK
<1>10. replay'.at \notin Passing /\ Reached(replay) = Len(replay.steps)
  BY <1>2, <1>5 DEF Reached, Passing, Stepping
<1> QED
  BY <1>2, <1>5, <1>6, <1>7, <1>8, <1>9, <1>10, PassKeeps

LEMMA AdvanceKeeps ==
  ASSUME ReplayInv, AdvanceFrames
  PROVE  ReplayInv'
<1> DEFINE step == replay.steps[replay.step]
           n == step.frames
           k == Len(replay.runs)
           made(token) == [Current EXCEPT !.advanced = @ + n, !.tokens = Append(@, token),
                                         !.seen = Append(@, past')]
           advanced(token) == [replay EXCEPT !.at = "sample", !.runs = Recorded(made(token))]
<1>1. /\ replay.at = "advance" /\ Own
      /\ \/ Frames(n) /\ replay' = advanced(counter + n)
         \/ Frames(n) /\ replay' = advanced(Missing)
         \/ (Frames(n) \/ UNCHANGED replayMachine) /\ replay' = Aborted
  BY DEF AdvanceFrames, Command, Unechoed, Own
<1>2. /\ replay.at \in Passing /\ replay.step \in 1 .. Len(replay.steps)
      /\ n \in Nat /\ step.buttons \in Seq(Pressable) /\ joypad = ToSet(step.buttons)
  BY <1>1, CurrentTypes, ListTypes
  DEF Passing, Stepping, ReplayInv, TypeInv, PlaceOK, PadOK, Buttons
<1>3. ASSUME Frames(n)
      PROVE  /\ MachineTypes /\ ~running' /\ joypad' = joypad
             /\ past' = past \o StepFrames(step) /\ past' \in Frameset
  <2>1. past' = past \o StepFrames(step) /\ joypad' = joypad /\ running' = FALSE
        /\ counter' = counter + n
    BY <1>2, <1>3 DEF Frames, StepFrames
  <2>2. StepFrames(step) \in Frameset
    <3>1. ToSet(step.buttons) \in Frame
      BY <1>2, ToSetTypes DEF Frame
    <3>2. StepFrames(step) \in [1 .. n -> Frame]
      BY <3>1 DEF StepFrames
    <3> QED
      BY <1>2, <3>2, FunctionIsSeq DEF Frameset
  <2>3. past' \in Frameset
    BY <2>1, <2>2, ConcatProperties DEF ReplayInv, TypeInv, Frameset
  <2>4. joypad \subseteq Pressable /\ counter \in Nat /\ counter + n \in Nat
    BY <1>2 DEF ReplayInv, TypeInv
  <2> HIDE DEF n, step
  <2> QED
    BY <2>1, <2>3, <2>4 DEF MachineTypes
<1>4. CASE replay' = Aborted
  <2>1. MachineTypes /\ (~running => ~running')
    BY <1>1, <1>3, UnchangedTypes DEF replayMachine
  <2> QED
    BY <1>1, <1>4, <2>1, AbortKeeps
<1>5. ASSUME Frames(n), NEW token \in Count, replay' = advanced(token)
      PROVE  ReplayInv'
  <2>1. /\ k \in Nat /\ k \in 1 .. k /\ Current = replay.runs[k] /\ Current \in PassRecord
        /\ replay.steps \in StepLists /\ Len(replay.steps) \in Nat /\ replay \in CallRecord
    BY <1>2, CurrentTypes
  <2>2. made(token) \in PassRecord /\ made(token).seen = Append(Current.seen, past')
    <3>1. Append(Current.tokens, token) \in Seq(Count)
      BY <1>5, <2>1, AppendProperties DEF PassRecord
    <3>2. Append(Current.seen, past') \in Seq(Frameset)
      BY <1>3, <1>5, <2>1, AppendProperties DEF PassRecord
    <3>3. Current.advanced + n \in Nat
      BY <1>2, <2>1, SMTT(40) DEF PassRecord
    <3> HIDE DEF n
    <3> QED
      BY <2>1, <3>1, <3>2, <3>3 DEF PassRecord
  <2> DEFINE next == made(token)
  <2> HIDE DEF next
  <2>3. /\ Recorded(next) \in Seq(PassRecord) /\ Len(Recorded(next)) = k
        /\ Recorded(next)[k] = next
        /\ \A p \in 1 .. k : p # k => Recorded(next)[p] = replay.runs[p]
    BY <1>2, <2>2, RecordedTypes DEF next
  <2>4. /\ replay' \in CallRecord /\ SameCall(replay') /\ replay'.runs = Recorded(next)
        /\ replay'.at = "sample" /\ replay'.step = replay.step
    <3>1. replay' = [replay EXCEPT !.at = "sample", !.runs = Recorded(next)]
      BY <1>5 DEF next
    <3> QED
      BY <2>1, <2>3, <3>1 DEF CallRecord, ReplayPhase, SameCall
  <2>5. PlaceOK(replay') /\ ClosingOK(replay')
    <3>1. Len(replay'.runs) = k /\ k >= 1 /\ k <= replay'.passes
      BY <1>2, <2>1, <2>3, <2>4, CurrentTypes DEF SameCall
    <3>2. replay'.step \in 1 .. Len(replay'.steps) /\ replay'.step \in 1 .. Len(replay'.steps) + 1
      BY <1>2, <2>1, <2>4 DEF SameCall
    <3>3. PlaceOK(replay')
      BY <2>1, <2>4, <3>1, <3>2 DEF PlaceOK, SameCall, Passing, Stepping, Waiting
    <3> QED
      BY <1>1, <2>4, <3>3 DEF ReplayInv, TypeInv, ClosingOK, SameCall, Passing, Stepping, Opened
  <2>6. PadOK(replay', joypad')
    BY <1>2, <1>3, <1>5, <2>4 DEF PadOK, Buttons, SameCall
  <2>7. ASSUME RunsOK(replay, past)
        PROVE  RunsOK(replay', past')
    <3> DEFINE seen == Current.seen
    <3>1. /\ seen \in Seq(Frameset) /\ Follows(seen, replay.steps)
          /\ Len(seen) = replay.step - 1 /\ past = Before(seen, Len(seen) + 1)
      <4>1. Reached(replay) = replay.step - 1
        BY <1>1 DEF Reached
      <4> QED
        BY <1>2, <2>1, <2>7, <4>1 DEF RunsOK, PassRecord
    <3>2. /\ Len(seen) < Len(replay.steps) /\ Len(seen) + 1 = replay.step
          /\ Len(seen) + 2 = replay.step + 1
      BY <1>2, <2>1, <3>1
    <3>3. past' = Before(seen, Len(seen) + 1) \o StepFrames(replay.steps[Len(seen) + 1])
      BY <1>3, <1>5, <3>1, <3>2
    <3>4. /\ Len(next.seen) = replay.step /\ Follows(next.seen, replay.steps)
          /\ Before(next.seen, replay.step + 1) = past'
      <4> HIDE DEF seen
      <4>1. /\ Len(Append(seen, past')) = Len(seen) + 1
            /\ Follows(Append(seen, past'), replay.steps)
            /\ Before(Append(seen, past'), Len(seen) + 2) = past'
        BY <2>1, <3>1, <3>2, <3>3, SeenGrows
      <4> QED
        BY <2>2, <3>2, <4>1 DEF next, seen
    <3>5. ASSUME NEW p \in 1 .. k, p # k
          PROVE  /\ Follows(replay.runs[p].seen, replay.steps)
                 /\ Len(replay.runs[p].seen) = Len(replay.steps)
                 /\ Agree(next.seen, replay.runs[p].seen) /\ Agree(replay.runs[p].seen, next.seen)
      <4>1. /\ Follows(replay.runs[p].seen, replay.steps)
            /\ Len(replay.runs[p].seen) = Len(replay.steps)
            /\ Agree(seen, replay.runs[p].seen)
        BY <2>1, <2>7, <3>5 DEF RunsOK
      <4>2. replay.runs[p].seen \in Seq(Frameset)
        <5>1. replay.runs[p] \in PassRecord
          BY <2>1, <3>5, ElementOfSeq DEF CallRecord
        <5> QED
          BY <5>1 DEF PassRecord
      <4>3. next.seen = Append(seen, past')
        BY <2>2 DEF next
      <4> HIDE DEF seen
      <4> QED
        BY <2>1, <3>1, <3>2, <3>3, <4>1, <4>2, <4>3, SeenAgree
    <3>6. Agree(next.seen, next.seen)
      BY DEF Agree
    <3>7. Reached(replay') = replay.step /\ replay'.at \in Passing /\ replay'.at # "settle"
          /\ replay'.steps = replay.steps
      BY <2>4 DEF Reached, Passing, Stepping, SameCall
    <3>8. ASSUME NEW p \in 1 .. k
          PROVE  /\ Follows(replay'.runs[p].seen, replay.steps)
                 /\ Len(replay'.runs[p].seen) = IF p = k THEN replay.step ELSE Len(replay.steps)
      BY <2>3, <2>4, <3>4, <3>5
    <3>9. ASSUME NEW p \in 1 .. k, NEW q \in 1 .. k
          PROVE  Agree(replay'.runs[p].seen, replay'.runs[q].seen)
      <4>1. CASE p = k
        BY <2>3, <2>4, <3>5, <3>6, <4>1
      <4>2. CASE p # k /\ q = k
        BY <2>3, <2>4, <3>5, <4>2
      <4>3. CASE p # k /\ q # k
        BY <2>3, <2>4, <2>7, <4>3 DEF RunsOK
      <4> QED
        BY <4>1, <4>2, <4>3
    <3>10. past' = Before(replay'.runs[k].seen, Len(replay'.runs[k].seen) + 1)
      BY <2>1, <2>3, <2>4, <3>4
    <3> QED
      BY <2>3, <2>4, <3>7, <3>8, <3>9, <3>10 DEF RunsOK
  <2>8. StillOK(replay', running')
    BY <1>3, <1>5, <2>4 DEF StillOK
  <2> QED
    BY <1>1, <1>3, <1>5, <2>4, <2>5, <2>6, <2>7, <2>8
    DEF ReplayInv, TypeInv, Own, MachineTypes, Undisturbed
<1>6. counter + n \in Count /\ Missing \in Count
  BY <1>2 DEF ReplayInv, TypeInv, Count
<1> QED
  BY <1>1, <1>4, <1>5, <1>6

-----------------------------------------------------------------------------
(* The window closes.                                                       *)

LEMMA CloseRestoreKeeps ==
  ASSUME ReplayInv, CloseRestore
  PROVE  ReplayInv'
<1>1. /\ replay.at = "restore" /\ Own
      /\ \/ Load /\ replay.entry = "unknown" /\ replay' = Closed("skipped")
         \/ Load /\ replay.entry = "paused" /\ replay' = Closed("paused")
         \/ Load /\ replay.entry = "running" /\ replay' = [replay EXCEPT !.at = "resume"]
         \/ (Load \/ UNCHANGED replayMachine) /\ replay' = Closed("unrestored")
  BY DEF CloseRestore, Command, Own, ReplayInv, TypeInv, CallRecord, FoundState
<1>2. MachineTypes /\ joypad' = joypad /\ (~running => ~running')
  BY <1>1, HaltTypes, UnchangedTypes DEF Load, replayMachine
<1>3. ASSUME NEW how \in {"skipped", "paused", "unrestored"}, replay' = Closed(how),
             how = "paused" => replay.entry = "paused"
      PROVE  ReplayInv'
  BY <1>1, <1>2, <1>3, ClosedKeeps DEF Closing
<1>4. CASE Load /\ replay.entry = "running" /\ replay' = [replay EXCEPT !.at = "resume"]
  <2>1. replay \in CallRecord
    BY DEF ReplayInv, TypeInv
  <2>2. /\ replay' \in CallRecord /\ replay'.at = "resume" /\ replay'.runs = replay.runs
        /\ replay'.steps = replay.steps /\ replay'.step = replay.step /\ replay'.todo = replay.todo
        /\ replay'.passes = replay.passes /\ replay'.entry = replay.entry
        /\ replay'.closed = replay.closed
    BY <1>4, <2>1 DEF CallRecord, ReplayPhase
  <2>3. PlaceOK(replay') /\ ClosingOK(replay')
    BY <1>1, <1>4, <2>2
    DEF ReplayInv, TypeInv, PlaceOK, ClosingOK, Stepping, Passing, Waiting, Opened
  <2>4. PadOK(replay', joypad')
    BY <1>1, <1>2, <2>2 DEF ReplayInv, PadOK
  <2>5. RunsOK(replay, past) => RunsOK(replay', past')
    BY <1>1, <2>2 DEF RunsOK, Passing, Stepping
  <2>6. StillOK(replay, running) => StillOK(replay', running')
    BY <1>1, <1>2, <2>2 DEF StillOK, Opened
  <2> QED
    BY <1>1, <1>2, <2>2, <2>3, <2>4, <2>5, <2>6
    DEF ReplayInv, TypeInv, Own, MachineTypes, Undisturbed
<1> QED
  BY <1>1, <1>3, <1>4

LEMMA CloseResumeKeeps ==
  ASSUME ReplayInv, CloseResume
  PROVE  ReplayInv'
<1>1. /\ replay.at = "resume" /\ Own
      /\ \/ Resume /\ replay' = Closed("resumed")
         \/ (Resume \/ UNCHANGED replayMachine) /\ replay' = Closed("stuck")
  BY DEF CloseResume, Command, Own
<1>2. MachineTypes /\ joypad' = joypad
  BY <1>1, HaltTypes, UnchangedTypes DEF replayMachine
<1>3. replay.entry = "running"
  BY <1>1 DEF ReplayInv, TypeInv, ClosingOK
<1> QED
  BY <1>1, <1>2, <1>3, ClosedKeeps DEF Closing, Resume

LEMMA FinishKeeps ==
  ASSUME ReplayInv, Finish
  PROVE  ReplayInv'
<1>1. /\ replay' = [NoCall EXCEPT !.at = "over"] /\ UNCHANGED <<replayMachine, admitted, touched, intruded>>
      /\ lock' \in {"free", "replay", "foreign"}
  BY DEF Finish, ReplayInv, TypeInv
<1>2. /\ replay' \in CallRecord /\ replay'.at = "over" /\ replay'.closed = "open"
      /\ replay'.steps = <<>> /\ replay'.runs = <<>> /\ replay'.step = 1 /\ replay'.passes = 2
  <2>1. <<>> \in Seq(PassRecord) /\ <<>> \in Seq(Pressable)
    BY EmptySeq
  <2>2. NoCall = [at |-> "idle", steps |-> <<>>, strict |-> FALSE, passes |-> 2, entry |-> "unknown",
                  runs |-> <<>>, step |-> 1, todo |-> <<>>, closed |-> "open"]
    BY DEF NoCall
  <2> QED
    BY <1>1, <2>1, <2>2 DEF CallRecord, ReplayPhase, Closing, FoundState
<1>3. Len(replay'.runs) = 0 /\ Len(replay'.steps) = 0
  BY <1>2
<1>4. PlaceOK(replay') /\ ClosingOK(replay') /\ PadOK(replay', joypad')
  BY <1>2, <1>3 DEF PlaceOK, ClosingOK, PadOK, Stepping, Passing, Waiting, Opened
<1>5. RunsOK(replay', past') /\ StillOK(replay', running')
  BY <1>2, <1>3 DEF RunsOK, StillOK, Stepping, Passing, Opened
<1> QED
  BY <1>1, <1>2, <1>4, <1>5 DEF ReplayInv, TypeInv, replayMachine

-----------------------------------------------------------------------------
(* Everybody else.                                                          *)

\* What others do to the machine shows in the history, or does not reach the passes.
LEMMA OthersKeep ==
  ASSUME ReplayInv, Lapse \/ ForeignLock \/ ForeignAdmitted \/ ForeignLands \/ Toggle \/ RunFree
  PROVE  ReplayInv'
<1>1. /\ replay' = replay /\ joypad' = joypad /\ past' \in {past, Append(past, Foreign), Append(past, joypad)}
      /\ running' \in BOOLEAN /\ counter' \in Nat /\ touched' \in BOOLEAN /\ intruded' \in BOOLEAN
      /\ lock' \in {"free", "replay", "foreign"} /\ admitted' \in BOOLEAN
  <2>0. /\ running \in BOOLEAN /\ counter \in Nat /\ touched \in BOOLEAN /\ intruded \in BOOLEAN
        /\ lock \in {"free", "replay", "foreign"} /\ admitted \in BOOLEAN
    BY DEF ReplayInv, TypeInv
  <2>1. CASE Lapse \/ ForeignLock \/ ForeignAdmitted
    BY <2>0, <2>1 DEF Lapse, ForeignLock, ForeignAdmitted, replayMachine
  <2>2. CASE ForeignLands
    <3>1. intruded' \in BOOLEAN
      BY <2>2 DEF ForeignLands
    <3> QED
      BY <2>0, <2>2, <3>1 DEF ForeignLands
  <2>3. CASE Toggle
    <3>1. touched' \in BOOLEAN /\ running' \in BOOLEAN
      BY <2>0, <2>3 DEF Toggle
    <3> QED
      BY <2>0, <2>3, <3>1 DEF Toggle
  <2>4. CASE RunFree
    BY <2>0, <2>4 DEF RunFree
  <2> QED
    BY <2>1, <2>2, <2>3, <2>4
<1>2. past' \in Frameset
  <2>1. past \in Seq(Frame) /\ Foreign \in Frame /\ joypad \in Frame
    BY DEF ReplayInv, TypeInv, Frame, Frameset
  <2> QED
    BY <1>1, <2>1, AppendProperties DEF Frameset
<1>3. ASSUME Undisturbed'
      PROVE  /\ Undisturbed
             /\ \/ UNCHANGED <<past, running>>
                \/ replay.at \in Waiting
                \/ running /\ running' = running
  BY <1>3 DEF Lapse, ForeignLock, ForeignAdmitted, ForeignLands, Toggle, RunFree, Undisturbed,
              replayMachine, Waiting, Upset, ReplayInv, TypeInv
<1>4. ASSUME Undisturbed', RunsOK(replay, past), StillOK(replay, running)
      PROVE  RunsOK(replay', past') /\ StillOK(replay', running')
  <2>1. CASE UNCHANGED <<past, running>>
    BY <1>1, <1>4, <2>1
  <2>2. CASE replay.at \in Waiting
    BY <1>1, <1>4, <2>2 DEF RunsOK, StillOK, Waiting, Passing, Stepping, Opened
  <2>3. CASE running /\ running' = running
    BY <1>1, <1>4, <2>3 DEF RunsOK, StillOK, Passing, Stepping, Opened
  <2> QED
    BY <1>3, <1>4, <2>1, <2>2, <2>3
<1> QED
  BY <1>1, <1>2, <1>3, <1>4 DEF ReplayInv, TypeInv

LEMMA ReplayInvStep ==
  ASSUME ReplayInv, [ReplayNext]_replayVars
  PROVE  ReplayInv'
<1>1. CASE UNCHANGED replayVars
  BY <1>1 DEF ReplayInv, TypeInv, Undisturbed, replayVars
<1>2. CASE ReplayStep
  BY <1>2, OpenKeeps, PauseKeeps, SaveKeeps, RestoreKeeps, SettleKeeps, BaselineKeeps, PressKeeps,
     AdvanceKeeps, SampleKeeps, ReleaseKeeps, FinalKeeps, CloseRestoreKeeps, CloseResumeKeeps,
     FinishKeeps DEF ReplayStep
<1>3. CASE Lapse \/ ForeignLock \/ ForeignAdmitted \/ ForeignLands \/ Toggle \/ RunFree
  BY <1>3, OthersKeep
<1> QED
  BY <1>1, <1>2, <1>3 DEF ReplayNext

LEMMA ReplayInvStart ==
  ASSUME ReplayInit
  PROVE  ReplayInv
<1>1. <<>> \in Seq(PassRecord) /\ <<>> \in Seq(Pressable) /\ <<>> \in Seq(Frame)
  BY EmptySeq
<1>2. /\ running \in BOOLEAN /\ joypad = {} /\ past = <<>> /\ counter = 0 /\ lock = "free"
      /\ admitted = FALSE /\ touched = FALSE /\ intruded = FALSE
      /\ replay = [at |-> "idle", steps |-> <<>>, strict |-> FALSE, passes |-> 2, entry |-> "unknown",
                   runs |-> <<>>, step |-> 1, todo |-> <<>>, closed |-> "open"]
  BY DEF ReplayInit, ReplayStart, NoCall
<1>3. replay \in CallRecord
  BY <1>1, <1>2 DEF CallRecord, ReplayPhase, Closing, FoundState
<1>4. Len(replay.runs) = 0 /\ Len(replay.steps) = 0
  BY <1>2
<1>5. PlaceOK(replay) /\ ClosingOK(replay) /\ PadOK(replay, joypad)
  BY <1>2, <1>4 DEF PlaceOK, ClosingOK, PadOK, Stepping, Passing, Waiting, Opened
<1>6. RunsOK(replay, past) /\ StillOK(replay, running)
  BY <1>2, <1>4 DEF RunsOK, StillOK, Stepping, Passing, Opened
<1> QED
  BY <1>1, <1>2, <1>3, <1>5, <1>6 DEF ReplayInv, TypeInv, Frameset

LEMMA ReplayInductive == ReplaySpec => []ReplayInv
<1>1. ReplayInit => ReplayInv
  BY ReplayInvStart
<1>2. ReplayInv /\ [ReplayNext]_replayVars => ReplayInv'
  BY ReplayInvStep
<1> QED
  BY <1>1, <1>2, PTL DEF ReplaySpec

-----------------------------------------------------------------------------

\* A replay is at a place of its step list and among its passes, and the machine's
\* variables have their types (tools_replay.go:386-612).
THEOREM ReplayIsTyped == ReplaySpec => []ReplayTypeOK
<1>1. ReplayInv => ReplayTypeOK
  BY DEF ReplayInv, TypeInv, ReplayTypeOK, CallRecord, PlaceOK, Closing, FoundState
<1> QED
  BY <1>1, ReplayInductive, PTL

\* A deterministic verdict means that the compared passes saw the same frames, unless the
\* user acted or a foreign mutation landed: the machine stands still from the restore on but
\* for the frames of the call, so that each pass sees the frames of its steps
\* (tools_replay.go:430-447, 802-925).
THEOREM VerdictsAreSound == ReplaySpec => []VerdictSound
<1>1. ASSUME ReplayInv, replay.at = "verdict", Undisturbed
      PROVE  replay.runs[replay.passes - 1].seen = replay.runs[replay.passes].seen
  <2> DEFINE k == replay.passes
  <2>1. RunsOK(replay, past) /\ k \in {2, 3} /\ Len(replay.runs) = k /\ replay.at \notin Passing
    BY <1>1 DEF ReplayInv, TypeInv, PlaceOK, CallRecord, Passing, Stepping
  <2>2. k - 1 \in 1 .. Len(replay.runs) /\ k \in 1 .. Len(replay.runs)
    BY <2>1
  <2>3. replay.runs[k - 1].seen \in Seq(Frameset) /\ replay.runs[k].seen \in Seq(Frameset)
    <3>1. replay.runs \in Seq(PassRecord)
      BY <1>1 DEF ReplayInv, TypeInv, CallRecord
    <3>2. replay.runs[k - 1] \in PassRecord /\ replay.runs[k] \in PassRecord
      BY <2>2, <3>1, ElementOfSeq
    <3> QED
      BY <3>2 DEF PassRecord
  <2>4. /\ Len(replay.runs[k - 1].seen) = Len(replay.steps)
        /\ Len(replay.runs[k].seen) = Len(replay.steps)
        /\ Agree(replay.runs[k - 1].seen, replay.runs[k].seen)
    BY <2>1, <2>2 DEF RunsOK
  <2> HIDE DEF k
  <2>5. \A i \in 1 .. Len(replay.runs[k - 1].seen) :
          replay.runs[k - 1].seen[i] = replay.runs[k].seen[i]
    <3>1. Len(replay.runs[k - 1].seen) \in Nat
      BY <2>3, LenProperties
    <3> QED
      BY <2>4, <3>1 DEF Agree
  <2>6. replay.runs[k - 1].seen = replay.runs[k].seen
    BY <2>3, <2>4, <2>5, SeqEqual
  <2> QED
    BY <2>6 DEF k
<1>2. ReplayInv => VerdictSound
  BY <1>1 DEF VerdictSound, Undisturbed
<1> QED
  BY <1>2, ReplayInductive, PTL

\* The target is left in the run state it had before the call, or paused where the call
\* does not know it, with no button of a step down, and the call says so
\* (tools_replay.go:1272-1310).
THEOREM TargetLeftAsFound == ReplaySpec => []LeftAsFound
<1>1. ReplayInv => LeftAsFound
  <2> SUFFICES ASSUME ReplayInv, replay.closed \in {"skipped", "paused", "resumed"}, Undisturbed,
                      replay.at \in {"verdict", "failed"}
               PROVE  /\ running <=> replay.closed = "resumed"
                      /\ replay.closed # "skipped" => (running <=> replay.entry = "running")
                      /\ replay.at = "verdict" => joypad = {}
    BY DEF LeftAsFound, Undisturbed
  <2>1. running <=> replay.closed = "resumed"
    BY DEF ReplayInv, StillOK, TypeInv
  <2>2. replay.closed # "skipped" => (running <=> replay.entry = "running")
    BY <2>1 DEF ReplayInv, TypeInv, ClosingOK
  <2>3. replay.at = "verdict" => joypad = {}
    BY DEF ReplayInv, TypeInv, PlaceOK, PadOK
  <2> QED
    BY <2>1, <2>2, <2>3
<1> QED
  BY <1>1, ReplayInductive, PTL

----------------------------------------------------------------------------

(***************************************************************************)
(* The experiment. Calls of a beginning of the script's messages.          *)
(***************************************************************************)
CallPlaces(s, q) == {i \in 1 .. q : s[i].kind = "call"}

Ids(calls) == [i \in DOMAIN calls |-> calls[i].id]

\* The calls among the first q messages.
Said(s, q) == Calls(SubSeq(s, 1, q))

LEMMA MessageKinds ==
  ASSUME NEW m \in Message
  PROVE  m # Eof /\ m # Broken /\ (m.kind \in {"call", "artifact"} => m.id \in MessageId)
<1>1. CASE m \in [kind : {"call", "artifact"}, id : MessageId]
  BY <1>1 DEF Eof, Broken
<1>2. CASE m = [kind |-> "complete", id |-> "none"]
  BY <1>2 DEF Eof, Broken
<1>3. CASE m = [kind |-> "other", id |-> "none"]
  BY <1>3 DEF Eof, Broken
<1> QED BY <1>1, <1>2, <1>3 DEF Message

LEMMA SaidByPlaces ==
  ASSUME NEW s \in Seq(Message), NEW q \in 0 .. Len(s)
  PROVE  /\ SubSeq(s, 1, q) \in Seq(Message) /\ Len(SubSeq(s, 1, q)) = q
         /\ CallPlaces(s, q) \subseteq DOMAIN s
         /\ PlacedAt(s, CallPlaces(s, q)) \in Seq(Message)
         /\ \A n \in 1 .. Len(PlacedAt(s, CallPlaces(s, q))) : PlacedAt(s, CallPlaces(s, q))[n].kind = "call"
         /\ Said(s, q) = Ids(PlacedAt(s, CallPlaces(s, q)))
<1> DEFINE u == SubSeq(s, 1, q)
           P == CallPlaces(s, q)
<1>1. Len(s) \in Nat /\ DOMAIN s = 1 .. Len(s) /\ \A i \in 1 .. Len(s) : s[i] \in Message
  BY LenProperties, ElementOfSeq
<1>2. u \in Seq(Message) /\ Len(u) = q /\ DOMAIN u = 1 .. q /\ \A i \in 1 .. q : u[i] = s[i]
  <2>1. \A i \in 1 .. q : s[i] \in Message BY <1>1
  <2>2. u \in Seq(Message) /\ Len(u) = q /\ \A i \in 1 .. q : u[i] = s[(1 + i) - 1]
    BY <2>1, SubSeqProperties
  <2>3. \A i \in 1 .. q : (1 + i) - 1 = i OBVIOUS
  <2>4. DOMAIN u = 1 .. q BY <2>2, LenProperties
  <2> QED BY <2>2, <2>3, <2>4
<1>3. P \subseteq DOMAIN s /\ P \subseteq DOMAIN u BY <1>1, <1>2 DEF CallPlaces
<1>4. {i \in DOMAIN u : u[i].kind = "call"} = P BY <1>2 DEF CallPlaces
<1>5. \A i \in P : u[i] = s[i] BY <1>2, <1>3
<1> HIDE DEF u, P
<1>6. PlacedAt(u, P) = PlacedAt(s, P) BY <1>2, <1>3, <1>5, AtAgrees
<1>7. Calls(u) = Ids(PlacedAt(u, P)) BY <1>4 DEF Calls, Selected, Ids
<1>8. /\ PlacedAt(s, P) \in Seq(Message) /\ Len(PlacedAt(s, P)) = Cardinality(P)
      /\ \A n \in 1 .. Cardinality(P) : PlacedAt(s, P)[n] = s[Ascend(P)[n]] /\ Ascend(P)[n] \in P
  BY <1>3, AtFacts
<1>9. \A i \in P : s[i].kind = "call" BY DEF P, CallPlaces
<1> QED BY <1>2, <1>3, <1>6, <1>7, <1>8, <1>9 DEF Said, u, P

LEMMA IdsJoin ==
  ASSUME NEW c \in Seq(Message), NEW d \in Seq(Message)
  PROVE  /\ Ids(c) \in Seq({m.id : m \in Message}) /\ Len(Ids(c)) = Len(c)
         /\ Ids(c \o d) = Ids(c) \o Ids(d)
<1> DEFINE I == {m.id : m \in Message}
<1>1. \A e \in Seq(Message) : Ids(e) \in Seq(I) /\ Len(Ids(e)) = Len(e)
                              /\ \A i \in 1 .. Len(e) : Ids(e)[i] = e[i].id
  <2> SUFFICES ASSUME NEW e \in Seq(Message)
               PROVE  Ids(e) \in Seq(I) /\ Len(Ids(e)) = Len(e)
                      /\ \A i \in 1 .. Len(e) : Ids(e)[i] = e[i].id
    OBVIOUS
  <2>1. Len(e) \in Nat /\ DOMAIN e = 1 .. Len(e) /\ \A i \in 1 .. Len(e) : e[i] \in Message
    BY LenProperties, ElementOfSeq
  <2>2. Ids(e) = [i \in 1 .. Len(e) |-> e[i].id] BY <2>1 DEF Ids
  <2>3. \A i \in 1 .. Len(e) : e[i].id \in I BY <2>1
  <2> HIDE DEF I
  <2>4. Ids(e) \in [1 .. Len(e) -> I] BY <2>2, <2>3
  <2> QED BY <2>1, <2>2, <2>4, IsASeq
<1> HIDE DEF I
<1>2. c \o d \in Seq(Message) /\ Len(c) \in Nat /\ Len(d) \in Nat /\ Len(c \o d) = Len(c) + Len(d)
      /\ \A i \in 1 .. Len(c) + Len(d) : (c \o d)[i] = IF i <= Len(c) THEN c[i] ELSE d[i - Len(c)]
  BY ConcatProperties, LenProperties
<1>3. /\ Ids(c) \o Ids(d) \in Seq(I) /\ Len(Ids(c) \o Ids(d)) = Len(c) + Len(d)
      /\ \A i \in 1 .. Len(c) + Len(d) : (Ids(c) \o Ids(d))[i]
                                       = IF i <= Len(c) THEN Ids(c)[i] ELSE Ids(d)[i - Len(c)]
  BY <1>1, <1>2, ConcatLists
<1>4. Ids(c \o d) \in Seq(I) /\ Len(Ids(c \o d)) = Len(c) + Len(d) BY <1>1, <1>2
<1>5. ASSUME NEW i \in 1 .. Len(c) + Len(d) PROVE Ids(c \o d)[i] = (Ids(c) \o Ids(d))[i]
  <2>1. Ids(c \o d)[i] = (c \o d)[i].id BY <1>1, <1>2
  <2>2. CASE i <= Len(c)
    <3>1. i \in 1 .. Len(c) BY <1>2, <2>2
    <3> QED BY <1>1, <1>2, <1>3, <2>1, <2>2, <3>1
  <2>3. CASE ~(i <= Len(c))
    <3>1. i - Len(c) \in 1 .. Len(d) BY <1>2, <2>3
    <3> QED BY <1>1, <1>2, <1>3, <2>1, <2>3, <3>1
  <2> QED BY <2>2, <2>3
<1>6. Ids(c \o d) = Ids(c) \o Ids(d) BY <1>3, <1>4, <1>5, SeqEqual
<1> QED BY <1>1, <1>6 DEF I

\* One more message is one more call, or none.
LEMMA SaidGrows ==
  ASSUME NEW s \in Seq(Message), NEW q \in Nat, q + 1 <= Len(s)
  PROVE  Said(s, q + 1) = IF s[q + 1].kind = "call" THEN Append(Said(s, q), s[q + 1].id)
                          ELSE Said(s, q)
<1> DEFINE P == CallPlaces(s, q)
           c == PlacedAt(s, P)
           m == s[q + 1]
<1>1. Len(s) \in Nat /\ DOMAIN s = 1 .. Len(s) /\ q + 1 \in DOMAIN s /\ m \in Message
  BY LenProperties, ElementOfSeq
<1>2. q \in 0 .. Len(s) /\ q + 1 \in 0 .. Len(s) BY <1>1
<1>3. c \in Seq(Message) /\ P \subseteq DOMAIN s /\ Said(s, q) = Ids(c) BY <1>2, SaidByPlaces
<1>4. Said(s, q + 1) = Ids(PlacedAt(s, CallPlaces(s, q + 1))) BY <1>2, SaidByPlaces
<1>5. CASE m.kind = "call"
  <2>1. CallPlaces(s, q + 1) = P \cup {q + 1} BY <1>2, <1>5 DEF CallPlaces
  <2>2. P \cup {q + 1} \subseteq DOMAIN s /\ \A p \in P, r \in {q + 1} : p < r
    BY <1>1, <1>3 DEF CallPlaces
  <2> HIDE DEF P
  <2>3. PlacedAt(s, P \cup {q + 1}) = PlacedAt(s, P) \o PlacedAt(s, {q + 1}) BY <2>2, AtJoins
  <2>4. PlacedAt(s, {q + 1}) = <<m>> BY <1>1, AtOnePlace
  <2>5. <<m>> \in Seq(Message) BY <1>1
  <2>6. Ids(c \o <<m>>) = Ids(c) \o Ids(<<m>>) BY <1>3, <2>5, IdsJoin
  <2>7. Ids(<<m>>) = <<m.id>> BY DEF Ids
  <2>8. Said(s, q + 1) = Ids(c) \o <<m.id>> BY <1>4, <2>1, <2>3, <2>4, <2>6, <2>7
  <2>9. Ids(c) \in Seq({x.id : x \in Message}) BY <1>3, IdsJoin
  <2>10. m.id \in {x.id : x \in Message} BY <1>1
  <2> HIDE DEF c, m
  <2>11. Ids(c) \o <<m.id>> = Append(Ids(c), m.id) BY <2>9, <2>10, AppendIsConcat
  <2> QED BY <1>3, <1>5, <2>8, <2>11 DEF m
<1>6. CASE m.kind # "call"
  <2>1. CallPlaces(s, q + 1) = P BY <1>2, <1>6 DEF CallPlaces
  <2> QED BY <1>3, <1>4, <1>6, <2>1
<1> QED BY <1>5, <1>6

\* What was said first is a beginning of all that was said.
LEMMA SaidIsPrefix ==
  ASSUME NEW s \in Seq(Message), NEW q \in 0 .. Len(s)
  PROVE  IsPrefix(Said(s, q), Calls(s))
<1> DEFINE n == Len(s)
           P == CallPlaces(s, q)
           Q == CallPlaces(s, n) \ P
           I == {x.id : x \in Message}
<1>1. n \in Nat /\ DOMAIN s = 1 .. n BY LenProperties
<1>2. SubSeq(s, 1, n) = s BY SubSeqFull
<1>3. PlacedAt(s, P) \in Seq(Message) /\ Said(s, q) = Ids(PlacedAt(s, P)) BY SaidByPlaces
<1>4. n \in 0 .. Len(s) BY <1>1
<1>5. Said(s, n) = Ids(PlacedAt(s, CallPlaces(s, n))) /\ CallPlaces(s, n) \subseteq DOMAIN s
  BY <1>4, SaidByPlaces
<1>6. CallPlaces(s, n) = P \cup Q /\ P \cup Q \subseteq DOMAIN s /\ \A p \in P, r \in Q : p < r
  <2>1. P \subseteq CallPlaces(s, n) BY <1>1 DEF CallPlaces
  <2>2. ASSUME NEW p \in P, NEW r \in Q PROVE p < r
    <3>1. p \in 1 .. q /\ r \in 1 .. n /\ r \notin 1 .. q BY DEF CallPlaces
    <3> QED BY <1>1, <3>1
  <2> QED BY <1>5, <2>1, <2>2
<1> HIDE DEF P, Q, I
<1>7. PlacedAt(s, P \cup Q) = PlacedAt(s, P) \o PlacedAt(s, Q) BY <1>6, AtJoins
<1>8. PlacedAt(s, Q) \in Seq(Message) BY <1>6, AtFacts
<1>9. /\ Ids(PlacedAt(s, P)) \in Seq(I) /\ Ids(PlacedAt(s, Q)) \in Seq(I)
      /\ Ids(PlacedAt(s, P) \o PlacedAt(s, Q)) = Ids(PlacedAt(s, P)) \o Ids(PlacedAt(s, Q))
  BY <1>3, <1>8, IdsJoin DEF I
<1>10. Calls(s) = Ids(PlacedAt(s, P)) \o Ids(PlacedAt(s, Q)) BY <1>2, <1>5, <1>6, <1>7, <1>9 DEF Said
<1> DEFINE a == Ids(PlacedAt(s, P))
           b == Ids(PlacedAt(s, Q))
<1>11. a \in Seq(I) /\ b \in Seq(I) /\ Said(s, q) = a /\ Calls(s) = a \o b
  BY <1>3, <1>9, <1>10
<1> HIDE DEF a, b
<1>12. Len(a) \in Nat /\ Len(b) \in Nat /\ Len(a \o b) = Len(a) + Len(b)
  BY <1>11, LenProperties, ConcatProperties
<1>13. SubSeq(a, 1, Len(a)) = a BY <1>11, SubSeqFull
<1>14. SubSeq(a \o b, 1, Len(a)) = a BY <1>11, <1>12, <1>13, SubSeqOfConcat1
<1> QED BY <1>11, <1>12, <1>13, <1>14 DEF IsPrefix

LEMMA SaidStays ==
  ASSUME NEW s \in Seq(Message), NEW m \in Message, NEW q \in 0 .. Len(s)
  PROVE  Said(Append(s, m), q) = Said(s, q)
<1> DEFINE u == Append(s, m)
<1>1. u \in Seq(Message) /\ Len(u) = Len(s) + 1 /\ \A i \in 1 .. Len(s) : u[i] = s[i]
  BY AppendProperties
<1>2. Len(s) \in Nat BY LenProperties
<1>3. q \in 0 .. Len(u) BY <1>1, <1>2
<1> HIDE DEF u
<1>4. Said(s, q) = Ids(PlacedAt(s, CallPlaces(s, q))) /\ CallPlaces(s, q) \subseteq DOMAIN s
  BY SaidByPlaces
<1>5. Said(u, q) = Ids(PlacedAt(u, CallPlaces(u, q))) BY <1>1, <1>3, SaidByPlaces
<1>6. \A i \in 1 .. q : u[i] = s[i] BY <1>1, <1>2
<1>7. CallPlaces(u, q) = CallPlaces(s, q) BY <1>6 DEF CallPlaces
<1>8. \A i \in CallPlaces(s, q) : u[i] = s[i] BY <1>6 DEF CallPlaces
<1>9. PlacedAt(s, CallPlaces(s, q)) = PlacedAt(u, CallPlaces(s, q)) BY <1>1, <1>4, <1>8, AtAgrees
<1> QED BY <1>4, <1>5, <1>7, <1>9 DEF u

(***************************************************************************)
(* The invariant of a run. p of the messages have been handled; the        *)
(* channel and the reader's hand hold the next ones, and then at most the  *)
(* end of the output.                                                      *)
(***************************************************************************)
Event == Message \cup {Eof, Broken}

RunCodes == {"none", "python_start_failed", "python_exited", "duplicate_message_id", "too_many",
          "artifact_refused", "output_line_too_long", "protocol_violation", "too_many_messages",
          "timeout", "step_failed", "fixture_invalid"}

RunType ==
  [at : Places, kind : {"python", "json"}, steps : Seq(MessageId), published : Nat,
   seen : SUBSET MessageId, messages : Nat, call : MessageId \cup {"none"},
   status : {"none", "completed", "failed"}, code : RunCodes]

ExperimentTypes ==
  /\ sent \in Seq(Message) /\ taken \in 0 .. Len(sent)
  /\ script \in {"alive", "silent", "exited"} /\ stdout \in {"open", "shut"}
  /\ reader \in {"reading", "done"} /\ waiter \in {"waiting", "answered", "received"}
  /\ expired \in BOOLEAN /\ killed \in BOOLEAN
  /\ held \in Seq(Event) /\ Len(held) <= 1
  /\ lines \in Seq(Event) /\ Len(lines) <= LineRoom
  /\ run \in RunType /\ executed \in Seq(MessageId)

\* Where the script is still listened to.
Attending == {"greeting", "loop", "executing", "replying"}

TheEnd == {Eof, Broken}

Ending == reader = "done" \/ (held # <<>> /\ held[1] \in TheEnd)

Piped(p, s, t, pipe, ended) ==
  /\ p \in 0 .. t /\ pipe \in Seq(Event)
  /\ Len(pipe) = t - p \/ (Len(pipe) = (t - p) + 1 /\ pipe[Len(pipe)] \in TheEnd /\ ended)
  /\ \A i \in 1 .. t - p : pipe[i] = s[p + i]

\* What a script's run has done, when p messages have been handled.
Told(p, s, r) ==
  /\ r.at \in Attending \ {"executing"} => Said(s, p) = r.steps
  /\ r.at = "executing" => Said(s, p) = Append(r.steps, r.call)
  /\ r.status = "completed" => p > 0 /\ s[p].kind = "complete" /\ Said(s, p) = r.steps
  /\ \E q \in 0 .. p : Said(s, q) = r.steps

Heard(s, t, pipe, ended, r) ==
  \E p \in Nat : Piped(p, s, t, pipe, ended) /\ (r.kind = "python" => Told(p, s, r))

\* The steps so far, and what may come next.
RunSound(r, done) ==
  /\ r.steps = done /\ Len(r.steps) <= MaxSteps
  /\ r.messages <= MaxMessages + 1
  /\ r.at \in Attending => r.messages <= MaxMessages
  /\ r.at \in Attending => r.status = "none"
  /\ r.at = "fixture" => r.kind = "json"
  /\ r.kind = "json" => r.at \in {"fixture", "over"}
  /\ r.at = "executing" => /\ Len(r.steps) < MaxSteps
                           /\ r.call \in r.seen /\ r.call \notin ToSet(r.steps)
  /\ r.kind = "python" => /\ ToSet(r.steps) \subseteq r.seen
                          /\ Cardinality(ToSet(r.steps)) = Len(r.steps)

ExperimentInv ==
  /\ ExperimentTypes
  /\ Heard(sent, taken, lines \o held, Ending, run)
  /\ RunSound(run, executed)
  /\ run.at = "idle" => sent = <<>> /\ taken = 0 /\ run = NoRun
  /\ run.at \in {"idle", "greeting"} \/ reader = "done" => held = <<>>

LEMMA ExperimentInitially == ExperimentInit => ExperimentInv
<1> SUFFICES ASSUME ExperimentInit PROVE ExperimentInv OBVIOUS
<1> USE DEF ExperimentInit, ExperimentStart
<1>0. <<>> \in Seq(MessageId) /\ <<>> \in Seq(Message) /\ <<>> \in Seq(Event) /\ Len(<<>>) = 0
  BY EmptySeq
<1>1. NoRun \in RunType BY <1>0 DEF NoRun, RunType, Places, RunCodes
<1>4. MaxMessages \in Nat /\ LineRoom \in Nat /\ MaxSteps \in Nat
  BY ExperimentAssumption DEF MaxMessages
<1>10. sent \in Seq(Message) /\ taken \in 0 .. Len(sent)
  <2>1. sent = <<>> /\ taken = 0 /\ 0 \in 0 .. 0 OBVIOUS
  <2> QED BY ONLY <2>1, <1>0
<1>11. held \in Seq(Event) /\ Len(held) <= 1 /\ lines \in Seq(Event) /\ Len(lines) <= LineRoom
  BY <1>0, <1>4
<1>12. run \in RunType BY <1>1
<1>13. executed \in Seq(MessageId) BY <1>0
<1>2. ExperimentTypes BY <1>10, <1>11, <1>12, <1>13 DEF ExperimentTypes
<1>3. ToSet(<<>>) = {} /\ Cardinality({}) = 0 BY FS_EmptySet DEF ToSet
<1>14. /\ run.at = "idle" /\ run.kind = "python" /\ run.steps = <<>> /\ run.messages = 0
       /\ run.status = "none" /\ run.seen = {} /\ executed = <<>>
  BY DEF NoRun
<1>5. RunSound(run, executed)
  <2>1. Len(run.steps) = 0 /\ ToSet(run.steps) = {} /\ Cardinality(ToSet(run.steps)) = 0
    BY <1>0, <1>3, <1>14
  <2>2. run.steps = executed /\ Len(run.steps) <= MaxSteps /\ run.messages <= MaxMessages + 1
    BY <1>4, <1>14, <2>1
  <2>3. /\ run.at \notin Attending /\ run.at # "executing" /\ run.at # "fixture"
        /\ run.kind # "json" /\ run.status = "none"
    BY <1>14 DEF Attending
  <2>4. ToSet(run.steps) \subseteq run.seen /\ Cardinality(ToSet(run.steps)) = Len(run.steps)
    BY <1>14, <2>1
  <2> QED BY ONLY <2>2, <2>3, <2>4 DEF RunSound
<1>6. Said(<<>>, 0) = <<>>
  <2>1. SubSeq(<<>>, 1, 0) = <<>> BY SubSeqEmpty
  <2>2. {i \in DOMAIN <<>> : <<>>[i].kind = "call"} = {} OBVIOUS
  <2>3. PlacedAt(<<>>, {i \in DOMAIN <<>> : <<>>[i].kind = "call"}) = <<>> BY <2>2, AtNoPlace
  <2>4. Calls(<<>>) = [i \in DOMAIN <<>> |-> <<>>[i].id] BY <2>3 DEF Calls, Selected
  <2>5. Calls(<<>>) = <<>> BY <2>4
  <2> QED BY <2>1, <2>5 DEF Said
<1>7. Piped(0, sent, taken, lines \o held, Ending)
  <2>1. lines \o held = <<>> BY <1>0
  <2> QED BY <1>0, <2>1 DEF Piped
<1>8. Told(0, sent, run) BY <1>0, <1>6 DEF Told, NoRun
<1>9. Heard(sent, taken, lines \o held, Ending, run) BY <1>7, <1>8 DEF Heard
<1> QED BY <1>2, <1>5, <1>9 DEF ExperimentInv

(***************************************************************************)
(* What the steps preserve: the pipe, and what a run has done.             *)
(***************************************************************************)
LEMMA PipeTail ==
  ASSUME NEW s, NEW t \in Nat, NEW p \in Nat, NEW pipe, NEW ended,
         Piped(p, s, t, pipe, ended), pipe # <<>>
  PROVE  \/ Head(pipe) = s[p + 1] /\ p < t /\ Piped(p + 1, s, t, Tail(pipe), ended)
         \/ Head(pipe) \in TheEnd /\ Piped(p, s, t, Tail(pipe), ended)
<1> DEFINE n == t - p
           rest == Tail(pipe)
<1>1. /\ p \in 0 .. t /\ pipe \in Seq(Event) /\ n \in Nat
      /\ Len(pipe) = n \/ (Len(pipe) = n + 1 /\ pipe[Len(pipe)] \in TheEnd /\ ended)
      /\ \A i \in 1 .. n : pipe[i] = s[p + i]
  BY DEF Piped
<1>2. Len(pipe) \in Nat \ {0} /\ Head(pipe) = pipe[1] BY <1>1, EmptySeq
<1>3. /\ rest \in Seq(Event) /\ Len(rest) = Len(pipe) - 1
      /\ \A i \in 1 .. Len(rest) : rest[i] = pipe[i + 1]
  BY <1>1, HeadTailProperties
<1> HIDE DEF rest
<1>4. CASE n = 0
  <2>0. Len(pipe) # n BY <1>2, <1>4
  <2>3. Len(pipe) = n + 1 /\ pipe[Len(pipe)] \in TheEnd BY <1>1, <2>0
  <2>4. Len(pipe) = 1 BY <1>4, <2>3
  <2>1. Len(pipe) = 1 /\ pipe[1] \in TheEnd BY <2>3, <2>4
  <2>2. Len(rest) = n /\ \A i \in 1 .. n : rest[i] = s[p + i] BY <1>3, <1>4, <2>1
  <2> QED BY <1>1, <1>2, <1>3, <2>1, <2>2 DEF Piped, rest
<1>5. CASE n > 0
  <2>1. p < t /\ p + 1 \in 0 .. t /\ pipe[1] = s[p + 1] BY <1>1, <1>5
  <2>2. t - (p + 1) = n - 1 /\ n - 1 \in Nat BY <1>1, <1>5
  <2>3. Len(rest) = n - 1 \/ (Len(rest) = (n - 1) + 1 /\ rest[Len(rest)] \in TheEnd /\ ended)
    <3>1. CASE Len(pipe) = n BY <1>3, <3>1
    <3>2. CASE Len(pipe) = n + 1 /\ pipe[Len(pipe)] \in TheEnd /\ ended
      <4>1. Len(rest) = n /\ n \in 1 .. Len(rest) /\ n + 1 = Len(pipe)
        BY <1>1, <1>3, <1>5, <3>2
      <4>2. rest[n] = pipe[n + 1] BY <1>3, <4>1
      <4> QED BY <1>1, <3>2, <4>1, <4>2
    <3> QED BY <1>1, <3>1, <3>2
  <2>4. ASSUME NEW i \in 1 .. n - 1 PROVE rest[i] = s[(p + 1) + i]
    <3>1. i + 1 \in 1 .. n /\ i \in 1 .. Len(rest) /\ p + (i + 1) = (p + 1) + i
      BY <1>1, <1>3, <2>2
    <3> QED BY <1>1, <1>3, <3>1
  <2>5. Piped(p + 1, s, t, rest, ended) BY <1>3, <2>1, <2>2, <2>3, <2>4 DEF Piped
  <2> QED BY <1>2, <2>1, <2>5 DEF rest
<1> QED BY <1>1, <1>4, <1>5

\* A step that ends the attention for the script keeps what was told.
LEMMA Retreat ==
  ASSUME NEW s, NEW p \in Nat, NEW r \in RunType, NEW q \in RunType, NEW done,
         RunSound(r, done), r.kind = "python" => Told(p, s, r),
         q.kind = r.kind, q.steps = r.steps, r.seen \subseteq q.seen,
         q.messages <= MaxMessages + 1, q.at \notin Attending \cup {"fixture"},
         r.kind = "json" => q.at = "over", q.status \in {"failed", r.status}
  PROVE  RunSound(q, done) /\ (q.kind = "python" => Told(p, s, q))
<1>1. RunSound(q, done) BY DEF RunSound, Attending
<1>2. ASSUME q.kind = "python" PROVE Told(p, s, q)
  BY <1>2 DEF Told, Attending
<1> QED BY <1>1, <1>2

LEMMA SameWords ==
  ASSUME NEW s \in Seq(Message), NEW m \in Message, NEW p \in 0 .. Len(s), NEW r, Told(p, s, r)
  PROVE  Told(p, Append(s, m), r)
<1> DEFINE u == Append(s, m)
<1>1. Len(s) \in Nat /\ \A i \in 1 .. Len(s) : u[i] = s[i] BY LenProperties, AppendProperties
<1>2. \A q \in 0 .. p : Said(u, q) = Said(s, q)
  <2> SUFFICES ASSUME NEW q \in 0 .. p PROVE Said(u, q) = Said(s, q) OBVIOUS
  <2>1. q \in 0 .. Len(s) BY <1>1
  <2> QED BY <2>1, SaidStays
<1>3. p \in 0 .. p /\ (p > 0 => u[p] = s[p]) BY <1>1
<1> HIDE DEF u
<1>4. Told(p, u, r) BY <1>2, <1>3 DEF Told
<1> QED BY <1>4 DEF u

LEMMA PipeStays ==
  ASSUME NEW s \in Seq(Message), NEW m \in Message, NEW t \in 0 .. Len(s), NEW p \in Nat,
         NEW pipe, NEW ended, Piped(p, s, t, pipe, ended)
  PROVE  Piped(p, Append(s, m), t, pipe, ended)
<1> DEFINE u == Append(s, m)
<1>1. Len(s) \in Nat /\ \A i \in 1 .. Len(s) : u[i] = s[i] BY LenProperties, AppendProperties
<1>2. p \in 0 .. t BY DEF Piped
<1>3. \A i \in 1 .. t - p : p + i \in 1 .. Len(s) BY <1>1, <1>2
<1>4. \A i \in 1 .. t - p : u[p + i] = s[p + i] BY <1>1, <1>3
<1> HIDE DEF u
<1>5. Piped(p, u, t, pipe, ended) BY <1>4 DEF Piped
<1> QED BY <1>5 DEF u

\* The reader puts an event after the others.
LEMMA PipeGrows ==
  ASSUME NEW s \in Seq(Message), NEW t \in Nat, NEW p \in Nat, NEW pipe, NEW e \in Event,
         Piped(p, s, t, pipe, FALSE)
  PROVE  /\ e \in TheEnd => Piped(p, s, t, Append(pipe, e), TRUE)
         /\ \A ended : t < Len(s) /\ e = s[t + 1] => Piped(p, s, t + 1, Append(pipe, e), ended)
<1> DEFINE n == t - p
           longer == Append(pipe, e)
<1>1. /\ p \in 0 .. t /\ n \in Nat /\ pipe \in Seq(Event) /\ Len(pipe) = n
      /\ \A i \in 1 .. n : pipe[i] = s[p + i]
  BY DEF Piped
<1>2. /\ longer \in Seq(Event) /\ Len(longer) = n + 1 /\ longer[n + 1] = e
      /\ \A i \in 1 .. n : longer[i] = pipe[i]
  <2>1. /\ longer \in Seq(Event) /\ Len(longer) = Len(pipe) + 1
        /\ longer[Len(pipe) + 1] = e /\ \A i \in 1 .. Len(pipe) : longer[i] = pipe[i]
    BY <1>1, AppendProperties
  <2> QED BY ONLY <1>1, <2>1
<1> HIDE DEF longer
<1>3. \A i \in 1 .. n : longer[i] = s[p + i] BY <1>1, <1>2
<1>4. ASSUME e \in TheEnd PROVE Piped(p, s, t, longer, TRUE)
  <2>1. Len(longer) = (t - p) + 1 /\ longer[Len(longer)] \in TheEnd BY <1>2, <1>4
  <2> QED BY <1>1, <1>2, <1>3, <2>1 DEF Piped
<1>5. ASSUME NEW ended, t < Len(s), e = s[t + 1] PROVE Piped(p, s, t + 1, longer, ended)
  <2>1. p \in 0 .. t + 1 /\ (t + 1) - p = n + 1 /\ p + (n + 1) = t + 1 BY <1>1
  <2>2. ASSUME NEW i \in 1 .. n + 1 PROVE longer[i] = s[p + i]
    <3>1. CASE i \in 1 .. n BY <1>3, <3>1
    <3>2. CASE i = n + 1 BY <1>2, <1>5, <2>1, <3>2
    <3> QED BY <1>1, <3>1, <3>2
  <2> QED BY <1>2, <2>1, <2>2 DEF Piped
<1> QED BY <1>4, <1>5 DEF longer

\* The child, its goroutines and the deadline leave the run as it is.
LEMMA SameRun ==
  ASSUME ExperimentInv, ExperimentTypes', run' = run, executed' = executed,
         \A p \in Nat : Piped(p, sent, taken, lines \o held, Ending)
                         => Piped(p, sent', taken', lines' \o held', Ending'),
         sent' = sent \/ (\E m \in Message : sent' = Append(sent, m)),
         run.at = "idle" => sent' = sent /\ taken' = taken,
         run.at \in {"idle", "greeting"} \/ reader' = "done" => held' = <<>>
  PROVE  ExperimentInv'
<1>1. PICK p \in Nat : /\ Piped(p, sent, taken, lines \o held, Ending)
                       /\ run.kind = "python" => Told(p, sent, run)
  BY DEF ExperimentInv, Heard
<1>2. p \in 0 .. Len(sent) /\ sent \in Seq(Message)
  <2>1. p \in 0 .. taken BY <1>1 DEF Piped
  <2>2. sent \in Seq(Message) /\ taken \in 0 .. Len(sent) BY DEF ExperimentInv, ExperimentTypes
  <2>3. Len(sent) \in Nat BY <2>2, LenProperties
  <2> QED BY ONLY <2>1, <2>2, <2>3
<1>3. run.kind = "python" => Told(p, sent', run) BY <1>1, <1>2, SameWords
<1>4. Heard(sent', taken', lines' \o held', Ending', run') BY <1>1, <1>3 DEF Heard
<1>5. RunSound(run', executed') BY DEF ExperimentInv
<1>6. run'.at = "idle" => sent' = <<>> /\ taken' = 0 /\ run' = NoRun BY DEF ExperimentInv
<1> QED BY <1>4, <1>5, <1>6 DEF ExperimentInv

LEMMA WriteStep == ASSUME ExperimentInv, NEW m \in Message, Write(m) PROVE ExperimentInv'
<1> USE DEF Write, readerVars
<1>1. sent \in Seq(Message) /\ taken \in 0 .. Len(sent) BY DEF ExperimentInv, ExperimentTypes
<1>2. sent' \in Seq(Message) /\ taken' \in 0 .. Len(sent')
  <2>1. Len(sent) \in Nat /\ sent' \in Seq(Message) /\ Len(sent') = Len(sent) + 1
    BY <1>1, LenProperties, AppendProperties
  <2> QED BY <1>1, <2>1
<1>3. ExperimentTypes' BY <1>2 DEF ExperimentInv, ExperimentTypes
<1>4. \A p \in Nat : Piped(p, sent, taken, lines \o held, Ending)
                      => Piped(p, sent', taken', lines' \o held', Ending')
  BY <1>1, PipeStays DEF Ending
<1>5. run.at \in {"idle", "greeting"} \/ reader' = "done" => held' = <<>> BY DEF ExperimentInv
<1> QED BY <1>3, <1>4, <1>5, SameRun

LEMMA ChildStep ==
  ASSUME ExperimentInv, CloseOutput \/ Terminate \/ Await \/ Expire \/ Kill
  PROVE  ExperimentInv'
<1> USE DEF CloseOutput, Terminate, Await, Expire, Kill, Steady, childVars, readerVars
<1>1. UNCHANGED <<sent, readerVars, lines, run, executed>> OBVIOUS
<1>2. ExperimentTypes' BY DEF ExperimentInv, ExperimentTypes
<1>3. \A p \in Nat : Piped(p, sent, taken, lines \o held, Ending)
                      => Piped(p, sent', taken', lines' \o held', Ending')
  BY <1>1 DEF Ending
<1>4. run.at \in {"idle", "greeting"} \/ reader' = "done" => held' = <<>>
  BY <1>1 DEF ExperimentInv
<1> QED BY <1>1, <1>2, <1>3, <1>4, SameRun

LEMMA HandLists ==
  ASSUME ExperimentInv
  PROVE  /\ lines \in Seq(Event) /\ held \in Seq(Event) /\ Len(held) <= 1
         /\ sent \in Seq(Message) /\ taken \in 0 .. Len(sent) /\ Len(sent) \in Nat
         /\ lines \o <<>> = lines /\ \A e \in Event : lines \o <<e>> = Append(lines, e)
<1>1. /\ lines \in Seq(Event) /\ held \in Seq(Event) /\ Len(held) <= 1
      /\ sent \in Seq(Message) /\ taken \in 0 .. Len(sent)
  BY DEF ExperimentInv, ExperimentTypes
<1>2. Len(sent) \in Nat BY <1>1, LenProperties
<1>3. lines \o <<>> = lines BY <1>1, ConcatEmptySeq
<1>4. \A e \in Event : lines \o <<e>> = Append(lines, e) BY <1>1, AppendIsConcat
<1> QED BY <1>1, <1>2, <1>3, <1>4

LEMMA NextLineStep == ASSUME ExperimentInv, NextLine PROVE ExperimentInv'
<1> USE DEF NextLine, childVars
<1>1. /\ lines \in Seq(Event) /\ sent \in Seq(Message) /\ taken \in 0 .. Len(sent)
      /\ Len(sent) \in Nat /\ lines \o held = lines
      /\ \A e \in Event : lines \o <<e>> = Append(lines, e)
  BY HandLists
<1>2. ~Ending BY DEF Ending
<1>3. \/ held' = <<sent[taken + 1]>> /\ taken' = taken + 1 /\ taken < Len(sent)
      \/ held' \in {<<Eof>>, <<Broken>>} /\ taken' = taken
  OBVIOUS
<1>4. PICK e \in Event :
         /\ held' = <<e>>
         /\ \/ e = sent[taken + 1] /\ taken' = taken + 1 /\ taken < Len(sent)
            \/ e \in TheEnd /\ taken' = taken
  <2>1. CASE held' = <<sent[taken + 1]>> /\ taken' = taken + 1 /\ taken < Len(sent)
    <3>1. taken + 1 \in 1 .. Len(sent) BY <1>1, <2>1
    <3>2. sent[taken + 1] \in Message BY <1>1, <3>1, ElementOfSeq
    <3>3. sent[taken + 1] \in Event BY <3>2 DEF Event
    <3> QED BY ONLY <2>1, <3>3
  <2>2. CASE held' \in {<<Eof>>, <<Broken>>} /\ taken' = taken BY <2>2 DEF TheEnd, Event
  <2> QED BY <1>3, <2>1, <2>2
<1>5. <<e>> \in Seq(Event) /\ Len(<<e>>) = 1 /\ <<e>>[1] = e /\ <<e>> # <<>> OBVIOUS
<1>6. taken' \in 0 .. Len(sent) BY <1>1, <1>4
<1>7. ExperimentTypes' BY <1>4, <1>5, <1>6 DEF ExperimentInv, ExperimentTypes
<1>8. ASSUME NEW p \in Nat, Piped(p, sent, taken, lines \o held, Ending)
      PROVE  Piped(p, sent', taken', lines' \o held', Ending')
  <2>1. Piped(p, sent, taken, lines, FALSE) BY <1>1, <1>2, <1>8 DEF Piped
  <2>2. taken \in Nat /\ lines' \o held' = Append(lines, e) /\ sent' = sent BY <1>1, <1>4
  <2>3. CASE e = sent[taken + 1] /\ taken' = taken + 1 /\ taken < Len(sent)
    BY <1>1, <2>1, <2>2, <2>3, PipeGrows
  <2>4. CASE e \in TheEnd /\ taken' = taken
    <3>1. Piped(p, sent, taken, Append(lines, e), TRUE) BY <1>1, <2>1, <2>2, <2>4, PipeGrows
    <3>2. Ending' BY <1>4, <1>5, <2>4 DEF Ending
    <3> QED BY <2>2, <2>4, <3>1, <3>2 DEF Piped
  <2> QED BY <1>4, <2>3, <2>4
<1>9. run.at \notin {"idle", "greeting"} /\ reader' # "done" OBVIOUS
<1> QED BY <1>7, <1>8, <1>9, SameRun

LEMMA SendLineStep == ASSUME ExperimentInv, SendLine PROVE ExperimentInv'
<1> USE DEF SendLine, childVars
<1>1. /\ lines \in Seq(Event) /\ held \in Seq(Event) /\ Len(held) <= 1 /\ held # <<>>
      /\ lines' = lines \o held /\ held' = <<>>
  BY HandLists
<1>2. Len(held) = 1 /\ Len(lines) \in Nat
  <2>1. Len(held) \in Nat \ {0} BY <1>1, EmptySeq
  <2>2. Len(lines) \in Nat BY <1>1, LenProperties
  <2>3. Len(held) <= 1 BY <1>1
  <2> QED BY ONLY <2>1, <2>2, <2>3
<1>3. /\ lines' \in Seq(Event) /\ Len(lines') = Len(lines) + 1
      /\ <<>> \in Seq(Event) /\ Len(<<>>) = 0
  BY <1>1, <1>2, ConcatProperties, EmptySeq
<1>4. Len(lines') <= LineRoom
  <2>1. LineRoom \in Nat /\ Len(lines) < LineRoom BY ExperimentAssumption
  <2> QED BY ONLY <1>2, <1>3, <2>1
<1>5. reader' \in {"reading", "done"} OBVIOUS
<1>6. held' \in Seq(Event) /\ Len(held') <= 1 BY <1>1, <1>3
<1>7. ExperimentTypes' BY <1>3, <1>4, <1>5, <1>6 DEF ExperimentInv, ExperimentTypes
<1>8. lines' \o held' = lines \o held BY <1>1, <1>3, ConcatEmptySeq
<1>9. Ending => Ending' BY <1>1 DEF Ending, TheEnd, ExperimentInv
<1>10. \A p \in Nat : Piped(p, sent, taken, lines \o held, Ending)
                       => Piped(p, sent', taken', lines' \o held', Ending')
  BY <1>8, <1>9 DEF Piped
<1> QED BY <1>1, <1>7, <1>10, SameRun

\* What the runner does beside the pipe.
LEMMA RunMoves ==
  ASSUME ExperimentInv, ExperimentTypes', UNCHANGED <<sent, taken, lines, held>>,
         Ending => Ending', RunSound(run', executed'), run'.at # "idle",
         run'.at = "greeting" \/ reader' = "done" => held = <<>>,
         \A p \in Nat : p <= taken /\ (run.kind = "python" => Told(p, sent, run))
                        => (run'.kind = "python" => Told(p, sent, run'))
  PROVE  ExperimentInv'
<1>1. PICK p \in Nat : /\ Piped(p, sent, taken, lines \o held, Ending)
                       /\ run.kind = "python" => Told(p, sent, run)
  BY DEF ExperimentInv, Heard
<1>2. Piped(p, sent, taken, lines \o held, Ending') BY <1>1 DEF Piped
<1>3. taken \in Nat
  <2>1. sent \in Seq(Message) /\ taken \in 0 .. Len(sent) BY DEF ExperimentInv, ExperimentTypes
  <2>2. Len(sent) \in Nat BY <2>1, LenProperties
  <2> QED BY <2>1, <2>2
<1>4. p <= taken BY <1>1, <1>3 DEF Piped
<1>5. run'.kind = "python" => Told(p, sent, run') BY <1>1, <1>4
<1>6. Heard(sent', taken', lines' \o held', Ending', run') BY <1>2, <1>5 DEF Heard
<1> QED BY <1>6 DEF ExperimentInv

\* The steps after which nothing more is taken from the script.
LEMMA RunRetreats ==
  ASSUME ExperimentInv, ExperimentTypes', UNCHANGED <<sent, taken, lines, held, executed>>,
         Ending => Ending', reader' = "done" => held = <<>>,
         run'.kind = run.kind, run'.steps = run.steps, run'.seen = run.seen,
         run'.messages = run.messages, run'.at \notin Attending \cup {"fixture", "idle"},
         run.kind = "json" => run'.at = "over", run'.status \in {"failed", run.status}
  PROVE  ExperimentInv'
<1>1. run \in RunType /\ run' \in RunType /\ RunSound(run, executed)
  BY DEF ExperimentInv, ExperimentTypes
<1>2. run'.messages <= MaxMessages + 1 /\ run.seen \subseteq run'.seen BY <1>1 DEF RunSound
<1>3. RunSound(run', executed') /\
      \A p \in Nat : (run.kind = "python" => Told(p, sent, run))
                     => (run'.kind = "python" => Told(p, sent, run'))
  <2>1. ASSUME NEW p \in Nat, run.kind = "python" => Told(p, sent, run)
        PROVE  RunSound(run', executed') /\ (run'.kind = "python" => Told(p, sent, run'))
    BY <1>1, <1>2, <2>1, Retreat
  <2>2. PICK p \in Nat : run.kind = "python" => Told(p, sent, run) BY DEF ExperimentInv, Heard
  <2> QED BY <2>1, <2>2
<1>4. run'.at # "idle" /\ run'.at # "greeting" BY DEF Attending
<1> QED BY <1>3, <1>4, RunMoves

LEMMA StartScriptStep == ASSUME ExperimentInv, StartScript PROVE ExperimentInv'
<1> USE DEF StartScript
<1>1. /\ run = NoRun /\ taken = 0 /\ held = <<>> /\ executed' = executed /\ RunSound(run, executed)
      /\ UNCHANGED <<sent, taken, lines, held>>
  BY DEF ExperimentInv
<1>2. \/ run' = [NoRun EXCEPT !.at = "greeting"] \/ run' = [NoRun EXCEPT !.at = "fixture", !.kind = "json"]
      \/ run' = [NoRun EXCEPT !.at = "over", !.status = "failed", !.code = "python_start_failed"]
  OBVIOUS
<1>3. run \in RunType BY DEF ExperimentInv, ExperimentTypes
<1>4. NoRun \in RunType BY <1>1, <1>3
<1>5. run' \in RunType
  <2>1. CASE run' = [NoRun EXCEPT !.at = "greeting"] BY <1>4, <2>1 DEF RunType, Places
  <2>2. CASE run' = [NoRun EXCEPT !.at = "fixture", !.kind = "json"]
    BY <1>4, <2>2 DEF RunType, Places
  <2>3. CASE run' = [NoRun EXCEPT !.at = "over", !.status = "failed", !.code = "python_start_failed"]
    BY <1>4, <2>3 DEF RunType, Places, RunCodes
  <2> QED BY <1>2, <2>1, <2>2, <2>3
<1>6. ExperimentTypes' BY <1>1, <1>5 DEF ExperimentInv, ExperimentTypes
<1>7. /\ run.kind = "python" /\ run.steps = <<>> /\ run.messages = 0 /\ run.seen = {}
      /\ run.status = "none"
  BY <1>1 DEF NoRun
<1>8. /\ run'.steps = run.steps /\ run'.messages = run.messages /\ run'.seen = run.seen
      /\ \/ run'.at = "greeting" /\ run'.status = run.status /\ run'.kind = "python"
         \/ run'.at = "fixture" /\ run'.status = run.status /\ run'.kind = "json"
         \/ run'.at = "over" /\ run'.status = "failed" /\ run'.kind = "python"
  BY <1>1, <1>2, <1>4 DEF RunType, NoRun
<1>9. MaxMessages \in Nat /\ 0 <= MaxMessages BY ExperimentAssumption DEF MaxMessages
<1>10. RunSound(run', executed')
  BY <1>1, <1>7, <1>8, <1>9 DEF RunSound, Attending
<1>11. ASSUME NEW p \in Nat, p <= taken, Told(p, sent, run), run'.kind = "python"
       PROVE  Told(p, sent, run')
  <2>1. p = 0 BY <1>1, <1>11
  <2>2. \E q \in 0 .. p : Said(sent, q) = run.steps BY <1>11 DEF Told
  <2>3. Said(sent, p) = run.steps BY <2>1, <2>2
  <2> QED BY <1>7, <1>8, <2>2, <2>3 DEF Told, Attending
<1>12. Ending => Ending' BY <1>1 DEF Ending
<1>13. run'.at # "idle" BY <1>8
<1> QED BY <1>1, <1>6, <1>7, <1>10, <1>11, <1>12, <1>13, RunMoves

LEMMA RunShape ==
  ASSUME ExperimentInv
  PROVE  /\ run \in RunType /\ run.at \in Places /\ RunSound(run, executed)
         /\ run.kind = "json" => run.at \in {"fixture", "over"}
         /\ reader = "done" => held = <<>>
         /\ run.at \in {"idle", "greeting"} => held = <<>>
BY DEF ExperimentInv, ExperimentTypes, RunType, RunSound

LEMMA GreetStep == ASSUME ExperimentInv, Greet PROVE ExperimentInv'
<1> USE DEF Greet, childVars
<1>1. run \in RunType /\ run.at = "greeting" /\ run.kind = "python" /\ held = <<>>
      /\ RunSound(run, executed)
  <2>1. run.kind \in {"python", "json"} BY RunShape DEF RunType
  <2> QED BY <2>1, RunShape
<1>2. UNCHANGED <<sent, taken, lines, held, executed>> OBVIOUS
<1>3. Ending => Ending' BY <1>1 DEF Ending
<1>4. CASE run' = [run EXCEPT !.at = "loop"] /\ UNCHANGED <<reader, waiter>>
  <2>1. run' \in RunType /\ run'.at = "loop" /\ run'.kind = run.kind /\ run'.steps = run.steps
        /\ run'.seen = run.seen /\ run'.messages = run.messages /\ run'.status = run.status
    BY <1>1, <1>4 DEF RunType, Places
  <2>2. ExperimentTypes' BY <1>2, <1>4, <2>1 DEF ExperimentInv, ExperimentTypes
  <2>3. RunSound(run', executed') BY <1>1, <1>2, <2>1 DEF RunSound, Attending
  <2>4. \A p \in Nat : Told(p, sent, run) => Told(p, sent, run')
    BY <1>1, <2>1 DEF Told, Attending
  <2> QED BY <1>1, <1>2, <1>3, <2>1, <2>2, <2>3, <2>4, RunMoves
<1>5. CASE run' = Ended("failed", "python_exited") /\ waiter' = "received" /\ reader' = "done"
  <2>1. run' \in RunType /\ run'.at = "over" /\ run'.kind = run.kind /\ run'.steps = run.steps
        /\ run'.seen = run.seen /\ run'.messages = run.messages /\ run'.status = "failed"
    BY <1>1, <1>5 DEF RunType, Places, Ended, RunCodes
  <2>2. ExperimentTypes' BY <1>2, <1>5, <2>1 DEF ExperimentInv, ExperimentTypes
  <2> QED BY <1>1, <1>2, <1>3, <2>1, <2>2, RunRetreats DEF Attending
<1> QED BY <1>4, <1>5

LEMMA LeavingSteps ==
  ASSUME ExperimentInv,
         TakeExit \/ TakeDeadline \/ Leave \/ Fatal \/ AfterEof \/ AfterComplete \/ Reap
  PROVE  ExperimentInv'
<1> USE DEF TakeExit, TakeDeadline, Leave, Fatal, AfterEof, AfterComplete, Reap, Steady, childVars,
            readerVars
<1>1. /\ run \in RunType /\ run.kind \in {"python", "json"}
      /\ run.at \in {"loop", "leaving", "fatal", "eof", "completing", "reaping"}
      /\ reader = "done" => held = <<>>
  BY RunShape DEF RunType
<1>2. run.kind = "python" BY <1>1, RunShape
<1>3. UNCHANGED <<sent, taken, lines, held, reader, script, expired, executed>> OBVIOUS
<1>4. \/ run' = Ended("failed", "python_exited")
      \/ run' = Abandon("timeout", "reaping") \/ run' = Abandon("python_exited", "reaping")
      \/ run' = [run EXCEPT !.at = "over"] \/ run' = [run EXCEPT !.at = "reaping"]
  OBVIOUS
<1>5. /\ run' \in RunType /\ run'.at \in {"over", "reaping"} /\ run'.kind = run.kind
      /\ run'.steps = run.steps /\ run'.seen = run.seen /\ run'.messages = run.messages
      /\ run'.status \in {"failed", run.status}
  <2>0. run \in RunType BY <1>1
  <2>4. {"over", "reaping"} \subseteq Places /\ {"python_exited", "timeout"} \subseteq RunCodes
    BY DEF Places, RunCodes
  <2>1. CASE run' = Ended("failed", "python_exited")
    <3>1. run' = [run EXCEPT !.status = "failed", !.code = "python_exited", !.at = "over"]
      BY <2>1 DEF Ended
    <3> QED BY ONLY <2>0, <2>4, <3>1 DEF RunType
  <2>2. CASE run' = Abandon("timeout", "reaping") \/ run' = Abandon("python_exited", "reaping")
    <3>1. PICK k \in {"timeout", "python_exited"} :
            run' = [run EXCEPT !.status = "failed", !.code = k, !.at = "reaping"]
      BY <2>2 DEF Abandon
    <3> QED BY ONLY <2>0, <2>4, <3>1 DEF RunType
  <2>3. CASE run' = [run EXCEPT !.at = "over"] \/ run' = [run EXCEPT !.at = "reaping"]
    BY <1>1, <2>3 DEF RunType, Places
  <2> QED BY <1>4, <2>1, <2>2, <2>3
<1>6. /\ waiter' \in {"waiting", "answered", "received"} /\ stdout' \in {"open", "shut"}
      /\ killed' \in BOOLEAN
  BY DEF ExperimentInv, ExperimentTypes
<1>7. ExperimentTypes' BY <1>3, <1>5, <1>6 DEF ExperimentInv, ExperimentTypes
<1>8. Ending => Ending' BY <1>3 DEF Ending
<1> QED BY <1>1, <1>2, <1>3, <1>5, <1>7, <1>8, RunRetreats DEF Attending

LEMMA ReplyStep == ASSUME ExperimentInv, Reply PROVE ExperimentInv'
<1> USE DEF Reply, Steady, childVars, readerVars
<1>1. /\ run \in RunType /\ run.kind = "python" /\ run.at = "replying"
      /\ RunSound(run, executed) /\ (reader = "done" => held = <<>>)
  <2>1. run.kind \in {"python", "json"} BY RunShape DEF RunType
  <2> QED BY <2>1, RunShape
<1>2. UNCHANGED <<sent, taken, lines, held, reader, executed>> OBVIOUS
<1>3. Ending => Ending' BY <1>2 DEF Ending
<1>4. CASE run' = [run EXCEPT !.at = "loop"]
  <2>1. run' \in RunType /\ run'.at = "loop" /\ run'.kind = run.kind /\ run'.steps = run.steps
        /\ run'.seen = run.seen /\ run'.messages = run.messages /\ run'.status = run.status
    BY <1>1, <1>4 DEF RunType, Places
  <2>2. ExperimentTypes' BY <1>2, <2>1 DEF ExperimentInv, ExperimentTypes
  <2>3. RunSound(run', executed') BY <1>1, <1>2, <2>1 DEF RunSound, Attending
  <2>4. \A p \in Nat : Told(p, sent, run) => Told(p, sent, run')
    BY <1>1, <2>1 DEF Told, Attending
  <2> QED BY <1>1, <1>2, <1>3, <2>1, <2>2, <2>3, <2>4, RunMoves
<1>5. CASE run' = Abandon("python_exited", "leaving")
  <2>1. run' \in RunType /\ run'.at = "leaving" /\ run'.kind = run.kind /\ run'.steps = run.steps
        /\ run'.seen = run.seen /\ run'.messages = run.messages /\ run'.status = "failed"
    BY <1>1, <1>5 DEF RunType, Places, Abandon, RunCodes
  <2>2. ExperimentTypes' BY <1>2, <2>1 DEF ExperimentInv, ExperimentTypes
  <2> QED BY <1>1, <1>2, <1>3, <2>1, <2>2, RunRetreats DEF Attending
<1> QED BY <1>4, <1>5

LEMMA OneMore ==
  ASSUME NEW S, NEW c \in Seq(S), NEW e \in S
  PROVE  /\ Append(c, e) \in Seq(S) /\ Len(Append(c, e)) = Len(c) + 1 /\ Len(c) \in Nat
         /\ ToSet(Append(c, e)) = ToSet(c) \cup {e}
         /\ e \notin ToSet(c) /\ Cardinality(ToSet(c)) = Len(c)
              => Cardinality(ToSet(Append(c, e))) = Len(c) + 1
<1> DEFINE d == Append(c, e)
<1>1. /\ d \in Seq(S) /\ Len(d) = Len(c) + 1 /\ Len(c) \in Nat
      /\ \A i \in 1 .. Len(c) : d[i] = c[i]
      /\ d[Len(c) + 1] = e
  BY AppendProperties, LenProperties
<1>2. ToSet(c) = {c[i] : i \in 1 .. Len(c)} /\ ToSet(d) = {d[i] : i \in 1 .. Len(d)}
  BY <1>1, LenProperties DEF ToSet
<1> HIDE DEF d
<1>3. ToSet(d) = ToSet(c) \cup {e}
  <2>1. 1 .. Len(d) = (1 .. Len(c)) \cup {Len(c) + 1} BY <1>1
  <2> QED BY <1>1, <1>2, <2>1
<1>4. IsFiniteSet(ToSet(c))
  <2>1. IsFiniteSet(1 .. Len(c))
    <3>1. 1 \in Int /\ Len(c) \in Int BY <1>1
    <3> QED BY <3>1, FS_Interval
  <2>2. c \in Surjection(1 .. Len(c), ToSet(c)) BY <1>2, LenProperties DEF Surjection
  <2> QED BY <2>1, <2>2, FS_Surjection
<1>5. e \notin ToSet(c) => Cardinality(ToSet(d)) = Cardinality(ToSet(c)) + 1
  BY <1>3, <1>4, FS_AddElement
<1> QED BY <1>1, <1>3, <1>5 DEF d

LEMMA ExecuteStep == ASSUME ExperimentInv, Execute PROVE ExperimentInv'
<1> USE DEF Execute, Steady, childVars, readerVars
<1>1. /\ run \in RunType /\ run.kind = "python" /\ run.at = "executing"
      /\ RunSound(run, executed) /\ (reader = "done" => held = <<>>)
  <2>1. run.kind \in {"python", "json"} BY RunShape DEF RunType
  <2> QED BY <2>1, RunShape
<1>2. /\ UNCHANGED <<sent, taken, lines, held, reader, script, stdout, expired, waiter>>
      /\ executed' = Append(executed, run.call)
  OBVIOUS
<1>3. /\ \/ run' = [run EXCEPT !.steps = Append(@, run.call), !.at = "replying"]
         \/ run' = [[run EXCEPT !.steps = Append(@, run.call), !.at = "replying"]
                      EXCEPT !.status = "failed", !.code = "timeout", !.at = "reaping"]
      /\ killed' \in {killed, TRUE}
  OBVIOUS
<1>4. /\ run.call \in run.seen /\ run.seen \subseteq MessageId /\ run.steps \in Seq(MessageId)
      /\ run.call \notin ToSet(run.steps) /\ Len(run.steps) < MaxSteps
      /\ ToSet(run.steps) \subseteq run.seen /\ Cardinality(ToSet(run.steps)) = Len(run.steps)
      /\ run.steps = executed /\ run.messages <= MaxMessages /\ run.status = "none"
  BY <1>1 DEF RunSound, RunType, Attending
<1>5. run.call \in MessageId BY <1>4
<1> DEFINE longer == Append(run.steps, run.call)
<1>6. /\ longer \in Seq(MessageId) /\ Len(longer) = Len(run.steps) + 1 /\ Len(run.steps) \in Nat
      /\ ToSet(longer) = ToSet(run.steps) \cup {run.call}
      /\ Cardinality(ToSet(longer)) = Len(run.steps) + 1
  BY <1>4, <1>5, OneMore
<1> HIDE DEF longer
<1>7. /\ run' \in RunType /\ run'.steps = longer /\ run'.kind = run.kind /\ run'.seen = run.seen
      /\ run'.messages = run.messages
      /\ \/ run'.at = "replying" /\ run'.status = run.status
         \/ run'.at = "reaping" /\ run'.status = "failed"
  <2>1. run \in RunType BY <1>1
  <2>2. CASE run' = [run EXCEPT !.steps = longer, !.at = "replying"]
    BY <1>6, <2>1, <2>2 DEF RunType, Places
  <2>3. CASE run' = [[run EXCEPT !.steps = longer, !.at = "replying"]
                       EXCEPT !.status = "failed", !.code = "timeout", !.at = "reaping"]
    BY <1>6, <2>1, <2>3 DEF RunType, Places, RunCodes
  <2>4. [run EXCEPT !.steps = Append(@, run.call), !.at = "replying"]
          = [run EXCEPT !.steps = longer, !.at = "replying"]
    BY <2>1 DEF RunType, longer
  <2> QED BY <1>3, <2>2, <2>3, <2>4
<1>8. executed' = longer BY <1>2, <1>4 DEF longer
<1>9. Len(longer) <= MaxSteps BY <1>4, <1>6, ExperimentAssumption
<1>10. MaxMessages \in Nat BY ExperimentAssumption DEF MaxMessages
<1>11. RunSound(run', executed')
  <2>1. run.messages \in Nat BY <1>1 DEF RunType
  <2>2. run'.messages <= MaxMessages /\ run'.messages <= MaxMessages + 1 BY <1>4, <1>7, <1>10, <2>1
  <2>3. /\ ToSet(run'.steps) \subseteq run'.seen
        /\ Cardinality(ToSet(run'.steps)) = Len(run'.steps)
    BY <1>4, <1>6, <1>7
  <2> QED BY <1>1, <1>4, <1>7, <1>8, <1>9, <2>2, <2>3 DEF RunSound, Attending
<1>12. ExperimentTypes'
  BY <1>2, <1>3, <1>6, <1>7, <1>8 DEF ExperimentInv, ExperimentTypes
<1>13. ASSUME NEW p \in Nat, Told(p, sent, run) PROVE Told(p, sent, run')
  <2>1. Said(sent, p) = longer BY <1>1, <1>13 DEF Told, longer
  <2>2. p \in 0 .. p OBVIOUS
  <2> QED BY <1>4, <1>7, <2>1, <2>2 DEF Told
<1>14. Ending => Ending' BY <1>2 DEF Ending
<1>15. run'.at # "idle" /\ run'.at # "greeting" /\ (reader' = "done" => held = <<>>)
  BY <1>1, <1>2, <1>7
<1> QED BY <1>1, <1>2, <1>7, <1>11, <1>12, <1>13, <1>14, <1>15, RunMoves

LEMMA FixtureSteps == ASSUME ExperimentInv, FixtureStep PROVE ExperimentInv'
<1>1. /\ run \in RunType /\ run.kind = "json" /\ run.at = "fixture" /\ run.steps = executed
      /\ RunSound(run, executed) /\ (reader = "done" => held = <<>>)
      /\ run.steps \in Seq(MessageId) /\ run.messages <= MaxMessages + 1
  <2>1. run.at = "fixture" BY DEF FixtureStep
  <2> QED BY <2>1, RunShape DEF RunSound, RunType
<1>2. UNCHANGED <<sent, taken, lines, held, reader, script, stdout, expired, waiter, killed>>
  BY DEF FixtureStep, Steady, childVars, readerVars
<1>3. Ending => Ending' BY <1>2 DEF Ending
<1>4. \/ /\ executed' = executed
         /\ run' = Ended("completed", "none") \/ run' = Ended("failed", "fixture_invalid")
      \/ /\ Len(run.steps) < MaxSteps
         /\ \E id \in MessageId, ok \in BOOLEAN :
              /\ executed' = Append(executed, id)
              /\ run' = IF ok THEN [run EXCEPT !.steps = Append(@, id)]
                        ELSE [run EXCEPT !.steps = Append(@, id), !.status = "failed", !.at = "over",
                                !.code = IF expired THEN "timeout" ELSE "step_failed"]
  BY Zenon DEF FixtureStep
<1>5. CASE /\ executed' = executed
           /\ run' = Ended("completed", "none") \/ run' = Ended("failed", "fixture_invalid")
  <2>1. run' \in RunType /\ run'.at = "over" /\ run'.kind = run.kind /\ run'.steps = run.steps
        /\ run'.messages = run.messages
    BY <1>1, <1>5 DEF Ended, RunType, Places, RunCodes
  <2>2. RunSound(run', executed') BY <1>1, <1>5, <2>1 DEF RunSound, Attending
  <2>3. ExperimentTypes' BY <1>2, <1>5, <2>1 DEF ExperimentInv, ExperimentTypes
  <2> QED BY <1>1, <1>2, <1>3, <2>1, <2>2, <2>3, RunMoves
<1>6. CASE /\ Len(run.steps) < MaxSteps
           /\ \E id \in MessageId, ok \in BOOLEAN :
                /\ executed' = Append(executed, id)
                /\ run' = IF ok THEN [run EXCEPT !.steps = Append(@, id)]
                          ELSE [run EXCEPT !.steps = Append(@, id), !.status = "failed", !.at = "over",
                                  !.code = IF expired THEN "timeout" ELSE "step_failed"]
  <2>1. PICK id \in MessageId :
          /\ executed' = Append(executed, id)
          /\ \/ run' = [run EXCEPT !.steps = Append(@, id)]
             \/ run' = [run EXCEPT !.steps = Append(@, id), !.status = "failed", !.at = "over",
                          !.code = "timeout"]
             \/ run' = [run EXCEPT !.steps = Append(@, id), !.status = "failed", !.at = "over",
                          !.code = "step_failed"]
    BY ONLY <1>6, Zenon
  <2>2. /\ Append(run.steps, id) \in Seq(MessageId) /\ Len(run.steps) \in Nat
        /\ Len(Append(run.steps, id)) = Len(run.steps) + 1
    BY ONLY <1>1, OneMore
  <2> DEFINE longer == Append(run.steps, id)
  <2>3. \/ run' = [run EXCEPT !.steps = longer]
        \/ run' = [run EXCEPT !.steps = longer, !.status = "failed", !.at = "over",
                     !.code = "timeout"]
        \/ run' = [run EXCEPT !.steps = longer, !.status = "failed", !.at = "over",
                     !.code = "step_failed"]
    BY <2>1
  <2>4. longer \in Seq(MessageId) BY <2>2
  <2> HIDE DEF longer
  <2>5. /\ run' \in RunType /\ run'.kind = "json" /\ run'.at \in {"fixture", "over"}
        /\ run'.steps = longer /\ run'.messages = run.messages
    BY ONLY <1>1, <2>3, <2>4 DEF RunType, Places, RunCodes
  <2>6. Len(run'.steps) <= MaxSteps BY <1>6, <2>2, <2>5, ExperimentAssumption DEF longer
  <2>7. run'.steps = executed' BY <1>1, <2>1, <2>5 DEF longer
  <2>8. RunSound(run', executed') BY <1>1, <2>5, <2>6, <2>7 DEF RunSound, Attending
  <2>9. ExperimentTypes' BY <1>2, <2>4, <2>5, <2>7 DEF ExperimentInv, ExperimentTypes
  <2> QED BY <1>1, <1>2, <1>3, <2>5, <2>8, <2>9, RunMoves
<1> QED BY <1>4, <1>5, <1>6

\* A message that is answered, or that completes the run, and what it makes of the run.
CallAnswered(r, m) ==
  \/ /\ m.kind = "call" /\ m.id \notin run.seen /\ Len(run.steps) < MaxSteps
     /\ r.at = "executing" /\ r.call = m.id /\ r.status = run.status
     /\ r.seen = run.seen \cup {m.id}
  \/ m.kind = "artifact" /\ r.at = "replying" /\ r.status = run.status /\ run.seen \subseteq r.seen
  \/ m.kind = "complete" /\ r.at = "completing" /\ r.status = "completed" /\ r.seen = run.seen

LEMMA TakenMessage ==
  ASSUME NEW m \in Message, NEW r, run \in RunType, run.at = "loop", RunSound(run, executed),
         r = Handle(m) \/ (m.kind = "artifact" /\ FreshArtifact(m) /\ run.messages < MaxMessages
            /\ r = Fatally([run EXCEPT !.messages = @ + 1, !.seen = @ \cup {m.id}], "artifact_refused"))
  PROVE  /\ r \in RunType /\ r.kind = run.kind /\ r.steps = run.steps /\ run.seen \subseteq r.seen
         /\ \/ CallAnswered(r, m) /\ r.messages <= MaxMessages
            \/ r.at = "fatal" /\ r.status = "failed" /\ r.messages <= MaxMessages + 1
<1>1. m # Eof /\ m # Broken /\ (m.kind \in {"call", "artifact"} => m.id \in MessageId)
  BY MessageKinds
<1>2. m.kind \in {"call", "artifact", "complete", "other"} BY DEF Message
<1>3. /\ MaxMessages \in Nat /\ run.messages \in Nat /\ run.messages <= MaxMessages
      /\ run.published \in Nat /\ run.seen \subseteq MessageId
  BY ExperimentAssumption DEF MaxMessages, RunSound, Attending, RunType
<1> DEFINE counted == [run EXCEPT !.messages = @ + 1]
<1>4. /\ counted \in RunType /\ counted.kind = run.kind /\ counted.steps = run.steps
      /\ counted.seen = run.seen /\ counted.messages = run.messages + 1
      /\ counted.status = run.status /\ counted.published = run.published
  BY <1>3 DEF RunType
<1> DEFINE refused == [run EXCEPT !.messages = @ + 1, !.seen = @ \cup {m.id}]
<1>5. m.kind = "artifact" =>
        /\ refused \in RunType /\ refused.kind = run.kind /\ refused.steps = run.steps
        /\ refused.seen = run.seen \cup {m.id} /\ refused.messages = run.messages + 1
  <2> DEFINE U == run.seen \cup {m.id}
             k == run.messages + 1
  <2> SUFFICES ASSUME m.kind = "artifact"
               PROVE  /\ refused \in RunType /\ refused.kind = run.kind
                      /\ refused.steps = run.steps /\ refused.seen = U /\ refused.messages = k
    OBVIOUS
  <2>1. U \in SUBSET MessageId /\ k \in Nat BY <1>1, <1>3
  <2>2. refused = [run EXCEPT !.messages = k, !.seen = U] BY DEF RunType
  <2> HIDE DEF U, k, refused
  <2> QED BY <2>1, <2>2 DEF RunType
<1>6. \A c \in RunType, k \in RunCodes :
        /\ Fatally(c, k) \in RunType /\ Fatally(c, k).kind = c.kind
        /\ Fatally(c, k).steps = c.steps /\ Fatally(c, k).seen = c.seen
        /\ Fatally(c, k).messages = c.messages /\ Fatally(c, k).at = "fatal"
        /\ Fatally(c, k).status = "failed"
  <2> SUFFICES ASSUME NEW c \in RunType, NEW k \in RunCodes
               PROVE  /\ Fatally(c, k) \in RunType /\ Fatally(c, k).kind = c.kind
                      /\ Fatally(c, k).steps = c.steps /\ Fatally(c, k).seen = c.seen
                      /\ Fatally(c, k).messages = c.messages /\ Fatally(c, k).at = "fatal"
                      /\ Fatally(c, k).status = "failed"
    OBVIOUS
  <2>1. "fatal" \in Places BY DEF Places
  <2>2. Fatally(c, k) = [c EXCEPT !.status = "failed", !.code = k, !.at = "fatal"]
    BY DEF Fatally
  <2> DEFINE f == [c EXCEPT !.status = "failed", !.code = k, !.at = "fatal"]
  <2>3. f \in RunType BY <2>1 DEF RunType
  <2>4. /\ f.kind = c.kind /\ f.steps = c.steps /\ f.seen = c.seen /\ f.messages = c.messages
        /\ f.at = "fatal" /\ f.status = "failed"
    BY DEF RunType
  <2> QED BY <2>2, <2>3, <2>4
<1>7. \A k \in {"artifact_refused", "protocol_violation", "too_many_messages", "too_many",
                    "duplicate_message_id"} : k \in RunCodes
  BY DEF RunCodes
<1>8. \/ r = Fatally(refused, "artifact_refused") /\ m.kind = "artifact"
      \/ r = Fatally(run, "protocol_violation")
      \/ r = Fatally(counted, "too_many_messages")
      \/ r = Serve(m, counted) /\ ~(counted.messages > MaxMessages)
  <2>1. CASE r = Handle(m)
    <3>1. CASE m.kind = "other" BY <1>1, <2>1, <3>1 DEF Handle
    <3>2. CASE m.kind # "other"
      <4>1. r = IF counted.messages > MaxMessages THEN Fatally(counted, "too_many_messages")
                ELSE Serve(m, counted)
        BY <1>1, <2>1, <3>2 DEF Handle
      <4> QED BY <4>1
    <3> QED BY <3>1, <3>2
  <2>2. CASE ~(r = Handle(m)) BY <2>2
  <2> QED BY <2>1, <2>2
<1> HIDE DEF counted, refused
<1>9. CASE r = Fatally(refused, "artifact_refused") /\ m.kind = "artifact"
  <2>1. refused \in RunType /\ "artifact_refused" \in RunCodes BY <1>5, <1>9, <1>7
  <2>2. /\ r \in RunType /\ r.kind = refused.kind /\ r.steps = refused.steps /\ r.seen = refused.seen
        /\ r.messages = refused.messages /\ r.at = "fatal" /\ r.status = "failed"
    BY ONLY <1>6, <1>9, <2>1
  <2> QED BY <1>3, <1>5, <1>9, <1>9, <2>2
<1>10. CASE r = Fatally(run, "protocol_violation")
  <2>1. run \in RunType /\ "protocol_violation" \in RunCodes BY <1>10, <1>7
  <2>2. /\ r \in RunType /\ r.kind = run.kind /\ r.steps = run.steps /\ r.seen = run.seen
        /\ r.messages = run.messages /\ r.at = "fatal" /\ r.status = "failed"
    BY ONLY <1>6, <1>10, <2>1
  <2> QED BY <1>3, <1>10, <1>10, <2>2
<1>11. CASE r = Fatally(counted, "too_many_messages")
  <2>1. counted \in RunType /\ "too_many_messages" \in RunCodes BY <1>4, <1>7
  <2>2. /\ r \in RunType /\ r.kind = counted.kind /\ r.steps = counted.steps /\ r.seen = counted.seen
        /\ r.messages = counted.messages /\ r.at = "fatal" /\ r.status = "failed"
    BY ONLY <1>6, <1>11, <2>1
  <2> QED BY <1>3, <1>4, <1>11, <2>2
<1>12. CASE r = Serve(m, counted) /\ ~(counted.messages > MaxMessages)
  <2>1. counted.messages <= MaxMessages BY <1>3, <1>4, <1>12
  <2>2. CASE m.kind = "call" /\ FreshCall(m)
    <3>1. r = [counted EXCEPT !.seen = @ \cup {m.id}, !.call = m.id, !.at = "executing"]
      BY <1>12, <2>2 DEF Serve
    <3>2. /\ r \in RunType /\ r.kind = counted.kind /\ r.steps = counted.steps
          /\ r.seen = counted.seen \cup {m.id} /\ r.messages = counted.messages
          /\ r.at = "executing" /\ r.call = m.id /\ r.status = counted.status
      BY <1>1, <1>4, <2>2, <3>1 DEF RunType, Places
    <3> QED BY <1>4, <2>1, <2>2, <3>2 DEF CallAnswered, FreshCall
  <2>3. CASE m.kind = "artifact" /\ FreshArtifact(m)
    <3>1. r = [counted EXCEPT !.seen = @ \cup {m.id}, !.published = @ + 1, !.at = "replying"]
      BY <1>12, <2>3 DEF Serve
    <3>2. /\ r \in RunType /\ r.kind = counted.kind /\ r.steps = counted.steps
          /\ r.seen = counted.seen \cup {m.id} /\ r.messages = counted.messages
          /\ r.at = "replying" /\ r.status = counted.status
      <4> DEFINE U == counted.seen \cup {m.id}
                 k == counted.published + 1
      <4>1. U \in SUBSET MessageId /\ k \in Nat BY <1>1, <1>3, <1>4, <2>3
      <4>2. r = [counted EXCEPT !.seen = U, !.published = k, !.at = "replying"]
        BY <1>4, <3>1 DEF RunType
      <4> HIDE DEF U, k
      <4>3. /\ r \in RunType /\ r.kind = counted.kind /\ r.steps = counted.steps
            /\ r.seen = U /\ r.messages = counted.messages
            /\ r.at = "replying" /\ r.status = counted.status
        BY <1>4, <4>1, <4>2 DEF RunType, Places
      <4> QED BY <4>3 DEF U
    <3> QED BY <1>4, <2>1, <2>3, <3>2 DEF CallAnswered
  <2>4. CASE m.kind = "complete"
    <3>1. r = [counted EXCEPT !.status = "completed", !.at = "completing"]
      BY <1>12, <2>4 DEF Serve
    <3>2. /\ r \in RunType /\ r.kind = counted.kind /\ r.steps = counted.steps
          /\ r.seen = counted.seen /\ r.messages = counted.messages
          /\ r.at = "completing" /\ r.status = "completed"
      BY <1>4, <3>1 DEF RunType, Places
    <3> QED BY <1>4, <2>1, <2>4, <3>2 DEF CallAnswered
  <2>5. CASE /\ ~(m.kind = "call" /\ FreshCall(m)) /\ ~(m.kind = "artifact" /\ FreshArtifact(m))
             /\ m.kind # "complete"
    <3>1. r = Fatally(counted, IF m.id \in run.seen THEN "duplicate_message_id" ELSE "too_many")
      BY <1>12, <2>5 DEF Serve
    <3>2. r = Fatally(counted, "duplicate_message_id") \/ r = Fatally(counted, "too_many")
      BY <3>1
    <3>3. /\ counted \in RunType
          /\ "duplicate_message_id" \in RunCodes /\ "too_many" \in RunCodes
      BY <1>4, <1>7
    <3>4. /\ r \in RunType /\ r.kind = counted.kind /\ r.steps = counted.steps
          /\ r.seen = counted.seen /\ r.messages = counted.messages /\ r.at = "fatal"
          /\ r.status = "failed"
      BY ONLY <1>6, <3>2, <3>3
    <3> QED BY <1>3, <1>4, <3>4
  <2> QED BY <2>2, <2>3, <2>4, <2>5
<1> QED BY <1>8, <1>9, <1>10, <1>11, <1>12

LEMMA TakenIsTold ==
  ASSUME NEW s \in Seq(Message), NEW p \in Nat, p + 1 <= Len(s), NEW r \in RunType,
         run \in RunType, run.at = "loop", run.kind = "python", RunSound(run, executed),
         Told(p, s, run), r.kind = run.kind, r.steps = run.steps, run.seen \subseteq r.seen,
         \/ CallAnswered(r, s[p + 1]) /\ r.messages <= MaxMessages
         \/ r.at = "fatal" /\ r.status = "failed" /\ r.messages <= MaxMessages + 1
  PROVE  RunSound(r, executed) /\ Told(p + 1, s, r)
<1> DEFINE m == s[p + 1]
<1>1. /\ run.steps = executed /\ Len(run.steps) <= MaxSteps /\ run.status = "none"
      /\ ToSet(run.steps) \subseteq run.seen /\ Cardinality(ToSet(run.steps)) = Len(run.steps)
  BY DEF RunSound, Attending
<1>2. Said(s, p) = run.steps BY DEF Told, Attending
<1>3. MaxMessages \in Nat /\ r.messages \in Nat BY ExperimentAssumption DEF MaxMessages, RunType
<1>4. r.messages <= MaxMessages + 1 BY <1>3
<1>5. m.kind # "call" => Said(s, p + 1) = run.steps BY <1>2, SaidGrows
<1>6. m.kind = "call" => Said(s, p + 1) = Append(run.steps, m.id) BY <1>2, SaidGrows
<1>7. p \in 0 .. p + 1 /\ p + 1 \in 0 .. p + 1 /\ p + 1 > 0 OBVIOUS
<1>8. \E q \in 0 .. p + 1 : Said(s, q) = run.steps BY <1>2, <1>7
<1> HIDE DEF m
<1>9. CASE CallAnswered(r, m) /\ r.messages <= MaxMessages /\ m.kind = "call"
  <2>1. /\ m.id \notin run.seen /\ Len(run.steps) < MaxSteps /\ r.at = "executing"
        /\ r.call = m.id /\ r.status = "none" /\ r.seen = run.seen \cup {m.id}
    BY <1>1, <1>9 DEF CallAnswered
  <2>2. RunSound(r, executed) BY <1>1, <1>4, <1>9, <2>1 DEF RunSound, Attending
  <2>3. Told(p + 1, s, r) BY <1>6, <1>8, <1>9, <2>1 DEF Told
  <2> QED BY <2>2, <2>3
<1>10. CASE CallAnswered(r, m) /\ r.messages <= MaxMessages /\ m.kind = "artifact"
  <2>1. r.at = "replying" /\ r.status = "none" BY <1>1, <1>10 DEF CallAnswered
  <2>2. RunSound(r, executed) BY <1>1, <1>4, <1>10, <2>1 DEF RunSound, Attending
  <2>3. Told(p + 1, s, r) BY <1>5, <1>8, <1>10, <2>1 DEF Told
  <2> QED BY <2>2, <2>3
<1>11. CASE CallAnswered(r, m) /\ r.messages <= MaxMessages /\ m.kind \notin {"call", "artifact"}
  <2>1. r.at = "completing" /\ r.status = "completed" /\ m.kind = "complete"
    BY <1>11 DEF CallAnswered
  <2>2. RunSound(r, executed) BY <1>1, <1>4, <1>11, <2>1 DEF RunSound, Attending
  <2>3. Told(p + 1, s, r) BY <1>5, <1>7, <1>8, <2>1 DEF Told, Attending, m
  <2> QED BY <2>2, <2>3
<1>12. CASE r.at = "fatal" /\ r.status = "failed"
  <2>1. RunSound(r, executed) BY <1>1, <1>4, <1>12 DEF RunSound, Attending
  <2>2. Told(p + 1, s, r) BY <1>8, <1>12 DEF Told, Attending
  <2> QED BY <2>1, <2>2
<1> QED BY <1>9, <1>10, <1>11, <1>12 DEF m

LEMMA TakeLineStep == ASSUME ExperimentInv, TakeLine PROVE ExperimentInv'
<1>1. /\ run \in RunType /\ run.kind = "python" /\ run.at = "loop"
      /\ RunSound(run, executed) /\ (reader = "done" => held = <<>>)
  <2>1. run.at = "loop" BY DEF TakeLine
  <2>2. run.kind \in {"python", "json"} BY RunShape DEF RunType
  <2> QED BY <2>1, <2>2, RunShape
<1>2. /\ UNCHANGED <<sent, taken, held, reader, script, stdout, expired, waiter, killed, executed>>
      /\ lines # <<>> /\ lines' = Tail(lines)
      /\ run' = Handle(Head(lines)) \/ Unstored(Head(lines))
  BY DEF TakeLine, Steady, childVars, readerVars
<1>3. /\ lines \in Seq(Event) /\ held \in Seq(Event) /\ sent \in Seq(Message)
      /\ taken \in 0 .. Len(sent) /\ Len(sent) \in Nat
  BY HandLists
<1> DEFINE pipe == lines \o held
           m == Head(lines)
<1>4. pipe # <<>> /\ Head(pipe) = m /\ Tail(pipe) = Tail(lines) \o held
  <2>1. Len(lines) \in Nat \ {0} /\ Len(held) \in Nat BY <1>2, <1>3, EmptySeq, LenProperties
  <2>2. /\ Tail(lines) \in Seq(Event) /\ Len(Tail(lines)) = Len(lines) - 1
        /\ \A i \in 1 .. Len(Tail(lines)) : Tail(lines)[i] = lines[i + 1]
    BY <1>2, <1>3, HeadTailProperties
  <2>3. /\ pipe \in Seq(Event) /\ Len(pipe) = Len(lines) + Len(held)
        /\ \A i \in 1 .. Len(lines) + Len(held) :
             pipe[i] = IF i <= Len(lines) THEN lines[i] ELSE held[i - Len(lines)]
    BY <1>3, ConcatProperties
  <2> DEFINE rest == Tail(lines) \o held
  <2>4. /\ rest \in Seq(Event) /\ Len(rest) = Len(Tail(lines)) + Len(held)
        /\ \A i \in 1 .. Len(Tail(lines)) + Len(held) :
             rest[i] = IF i <= Len(Tail(lines)) THEN Tail(lines)[i] ELSE held[i - Len(Tail(lines))]
    BY <1>3, <2>2, ConcatProperties
  <2> HIDE DEF rest, pipe
  <2>5. pipe # <<>> /\ Len(pipe) > 0 /\ pipe[1] = lines[1]
    <3>1. 1 \in 1 .. Len(lines) + Len(held) /\ 1 <= Len(lines) /\ Len(pipe) # 0 /\ Len(pipe) > 0
      BY <2>1, <2>3
    <3>2. Len(<<>>) = 0 BY <1>3, EmptySeq
    <3> QED BY <2>3, <3>1, <3>2
  <2>6. /\ Tail(pipe) \in Seq(Event) /\ Len(Tail(pipe)) = Len(pipe) - 1
        /\ \A i \in 1 .. Len(Tail(pipe)) : Tail(pipe)[i] = pipe[i + 1]
    BY <2>3, <2>5, HeadTailProperties
  <2>7. Len(Tail(pipe)) = Len(rest) BY <2>1, <2>2, <2>3, <2>4, <2>6
  <2>8. ASSUME NEW i \in 1 .. Len(rest) PROVE Tail(pipe)[i] = rest[i]
    <3>1. i \in 1 .. Len(Tail(lines)) + Len(held) /\ i + 1 \in 1 .. Len(lines) + Len(held)
          /\ i \in 1 .. Len(Tail(pipe))
      BY <2>1, <2>2, <2>4, <2>7
    <3>2. Tail(pipe)[i] = pipe[i + 1] BY <2>6, <3>1
    <3>3. CASE i <= Len(Tail(lines))
      <4>1. i + 1 <= Len(lines) /\ i \in 1 .. Len(Tail(lines)) BY <2>1, <2>2, <3>1, <3>3
      <4> QED BY <2>2, <2>3, <2>4, <3>1, <3>2, <3>3, <4>1
    <3>4. CASE ~(i <= Len(Tail(lines)))
      <4>1. ~(i + 1 <= Len(lines)) /\ (i + 1) - Len(lines) = i - Len(Tail(lines))
        BY <2>1, <2>2, <3>1, <3>4
      <4>2. pipe[i + 1] = held[(i + 1) - Len(lines)] BY <2>3, <3>1, <4>1
      <4>3. rest[i] = held[i - Len(Tail(lines))] BY <2>4, <3>1, <3>4
      <4> QED BY <3>2, <4>1, <4>2, <4>3
    <3> QED BY <3>3, <3>4
  <2>9. Tail(pipe) = rest BY <2>4, <2>6, <2>7, <2>8, SeqEqual
  <2>10. Head(pipe) = pipe[1] /\ m = lines[1] BY <1>2
  <2> QED BY <2>5, <2>9, <2>10 DEF rest
<1> HIDE DEF pipe, m
<1>5. PICK p \in Nat : Piped(p, sent, taken, pipe, Ending) /\ Told(p, sent, run)
  BY <1>1 DEF ExperimentInv, Heard, pipe
<1>6. Ending' = Ending BY <1>2 DEF Ending
<1>7. taken \in Nat /\ p <= taken BY <1>3, <1>5 DEF Piped
<1>8. lines' \in Seq(Event) /\ Len(lines') <= LineRoom
  <2>1. lines' \in Seq(Event) /\ Len(lines') = Len(lines) - 1 /\ Len(lines) \in Nat
    BY <1>2, <1>3, HeadTailProperties, LenProperties
  <2>2. Len(lines) <= LineRoom /\ LineRoom \in Nat
    BY ExperimentAssumption DEF ExperimentInv, ExperimentTypes
  <2> QED BY ONLY <2>1, <2>2
<1>9. lines' \o held' = Tail(pipe) BY <1>2, <1>4
<1>10. CASE Head(pipe) = sent[p + 1] /\ p < taken /\ Piped(p + 1, sent, taken, Tail(pipe), Ending)
  <2>1. p + 1 \in 1 .. Len(sent) /\ p + 1 <= Len(sent) /\ p + 1 \in Nat BY <1>3, <1>7, <1>10
  <2>2. m \in Message /\ m = sent[p + 1] BY <1>3, <1>4, <1>10, <2>1, ElementOfSeq
  <2>3. run' = Handle(m) \/ (m.kind = "artifact" /\ FreshArtifact(m) /\ run.messages < MaxMessages
            /\ run' = Fatally([run EXCEPT !.messages = @ + 1, !.seen = @ \cup {m.id}],
                              "artifact_refused"))
    <3>1. CASE run' = Handle(m) BY <3>1
    <3>2. CASE Unstored(m) BY <3>2 DEF Unstored
    <3> QED BY <1>2, <3>1, <3>2 DEF m
  <2>4. /\ run' \in RunType /\ run'.kind = run.kind /\ run'.steps = run.steps
        /\ run.seen \subseteq run'.seen
        /\ \/ CallAnswered(run', m) /\ run'.messages <= MaxMessages
           \/ run'.at = "fatal" /\ run'.status = "failed" /\ run'.messages <= MaxMessages + 1
    BY ONLY <1>1, <2>2, <2>3, TakenMessage, ExperimentAssumption
  <2>5. RunSound(run', executed) /\ Told(p + 1, sent, run')
    BY <1>1, <1>3, <1>5, <2>1, <2>2, <2>4, TakenIsTold
  <2>6. ExperimentTypes' BY <1>2, <1>8, <2>4 DEF ExperimentInv, ExperimentTypes
  <2>7. run'.at # "idle" /\ run'.at # "greeting" BY <2>4 DEF CallAnswered
  <2>8. Heard(sent', taken', lines' \o held', Ending', run')
    BY <1>2, <1>6, <1>9, <1>10, <2>1, <2>5 DEF Heard
  <2> QED BY <1>1, <1>2, <2>5, <2>6, <2>7, <2>8 DEF ExperimentInv
<1>11. CASE Head(pipe) \in TheEnd /\ Piped(p, sent, taken, Tail(pipe), Ending)
  <2>1. m = Eof \/ m = Broken BY <1>4, <1>11 DEF TheEnd
  <2>2. m.kind # "artifact" BY <2>1 DEF Eof, Broken
  <2>3. run' = Handle(m) BY <1>2, <2>2 DEF Unstored, m
  <2>4. run' = [run EXCEPT !.at = "eof"] \/ run' = Fatally(run, "output_line_too_long")
    BY <2>1, <2>3 DEF Handle, Eof, Broken
  <2>5. /\ run' \in RunType /\ run'.at \in {"eof", "fatal"} /\ run'.kind = run.kind
        /\ run'.steps = run.steps /\ run'.seen = run.seen /\ run'.messages = run.messages
        /\ run'.status \in {"failed", run.status}
    BY <1>1, <2>4 DEF RunType, Places, Fatally, RunCodes
  <2>6. run.messages <= MaxMessages + 1 /\ run'.messages <= MaxMessages + 1
    BY <1>1, <2>5 DEF RunSound
  <2>7. RunSound(run', executed) /\ (run'.kind = "python" => Told(p, sent, run'))
    BY <1>1, <1>5, <2>5, <2>6, Retreat DEF Attending
  <2>8. ExperimentTypes' BY <1>2, <1>8, <2>5 DEF ExperimentInv, ExperimentTypes
  <2>9. Heard(sent', taken', lines' \o held', Ending', run')
    BY <1>2, <1>6, <1>9, <1>11, <2>7 DEF Heard
  <2> QED BY <1>1, <1>2, <2>5, <2>7, <2>8, <2>9 DEF ExperimentInv
<1> QED BY <1>4, <1>5, <1>7, <1>10, <1>11, PipeTail

LEMMA ExperimentKeeps == ExperimentInv /\ [ExperimentNext]_experimentVars => ExperimentInv'
<1> SUFFICES ASSUME ExperimentInv, [ExperimentNext]_experimentVars PROVE ExperimentInv' OBVIOUS
<1>1. CASE UNCHANGED experimentVars
  BY <1>1 DEF experimentVars, ExperimentInv, ExperimentTypes, Ending
<1>2. CASE StartScript BY <1>2, StartScriptStep
<1>3. CASE Greet BY <1>3, GreetStep
<1>4. CASE TakeLine BY <1>4, TakeLineStep
<1>5. CASE TakeExit \/ TakeDeadline \/ Leave \/ Fatal \/ AfterEof \/ AfterComplete \/ Reap
  BY <1>5, LeavingSteps
<1>6. CASE Execute BY <1>6, ExecuteStep
<1>7. CASE Reply BY <1>7, ReplyStep
<1>8. CASE FixtureStep BY <1>8, FixtureSteps
<1>9. CASE CloseOutput \/ Terminate \/ Await \/ Expire \/ Kill BY <1>9, ChildStep
<1>10. CASE NextLine BY <1>10, NextLineStep
<1>11. CASE SendLine BY <1>11, SendLineStep
<1>12. CASE \E m \in Message : Write(m) BY <1>12, WriteStep
<1> QED BY <1>1, <1>2, <1>3, <1>4, <1>5, <1>6, <1>7, <1>8, <1>9, <1>10, <1>11, <1>12
        DEF ExperimentNext, RunnerStep

LEMMA ExperimentSettles == ExperimentInv => ManifestFaithful
<1> SUFFICES ASSUME ExperimentInv PROVE ManifestFaithful OBVIOUS
<1>1. PICK p \in Nat : /\ Piped(p, sent, taken, lines \o held, Ending)
                       /\ run.kind = "python" => Told(p, sent, run)
  BY DEF ExperimentInv, Heard
<1>2. sent \in Seq(Message) /\ taken \in 0 .. Len(sent) /\ Len(sent) \in Nat BY HandLists
<1>3. p \in 0 .. Len(sent) BY <1>1, <1>2 DEF Piped
<1>4. run.steps = executed /\ Len(run.steps) <= MaxSteps
      /\ (run.kind = "python" => Cardinality(ToSet(run.steps)) = Len(run.steps))
  BY DEF ExperimentInv, RunSound
<1>5. ASSUME run.kind = "python" PROVE IsPrefix(run.steps, Calls(sent))
  <2>1. PICK q \in 0 .. p : Said(sent, q) = run.steps BY <1>1, <1>5 DEF Told
  <2>2. q \in 0 .. Len(sent) BY <1>2, <1>3
  <2> QED BY <1>2, <2>1, <2>2, SaidIsPrefix
<1>6. ASSUME run.status = "completed", run.kind = "python"
      PROVE  \E i \in DOMAIN sent : /\ sent[i].kind = "complete"
                                    /\ Calls(SubSeq(sent, 1, i)) = run.steps
  <2>1. p > 0 /\ sent[p].kind = "complete" /\ Calls(SubSeq(sent, 1, p)) = run.steps
    BY <1>1, <1>6 DEF Told, Said
  <2>2. p \in DOMAIN sent BY <1>2, <1>3, <2>1, LenProperties
  <2> QED BY <2>1, <2>2
<1> QED BY <1>4, <1>5, <1>6 DEF ManifestFaithful

(***************************************************************************)
(* The manifest tells what was done (runner.go:412-460, 505-513): for any  *)
(* script, any caps and any room in the channel of lines.                  *)
(***************************************************************************)
THEOREM ManifestsAreFaithful == ExperimentSpec => []ManifestFaithful
<1>1. ExperimentInit => ExperimentInv BY ExperimentInitially
<1>2. ExperimentInv /\ [ExperimentNext]_experimentVars => ExperimentInv' BY ExperimentKeeps
<1>3. ExperimentInv => ManifestFaithful BY ExperimentSettles
<1> QED BY <1>1, <1>2, <1>3, PTL DEF ExperimentSpec

\* A run's places, its pipe and its bounds: the reader holds at most one line, and a run
\* stops at the first message beyond its cap (runner.go:240-300, 412-460).
THEOREM ExperimentsAreTyped == ExperimentSpec => []ExperimentTypeOK
<1>1. ExperimentInit => ExperimentInv BY ExperimentInitially
<1>2. ExperimentInv /\ [ExperimentNext]_experimentVars => ExperimentInv' BY ExperimentKeeps
<1>3. ExperimentInv => ExperimentTypeOK
  <2> SUFFICES ASSUME ExperimentInv PROVE ExperimentTypeOK OBVIOUS
  <2>1. ExperimentTypes /\ run.messages <= MaxMessages + 1 BY DEF ExperimentInv, RunSound
  <2>2. run.at \in Places /\ run.status \in {"none", "completed", "failed"} /\ run.seen \subseteq MessageId
    BY <2>1 DEF ExperimentTypes, RunType
  <2>3. \A i \in DOMAIN sent : sent[i] \in Message /\ taken \in 0 .. Len(sent)
    BY <2>1, ElementOfSeq, LenProperties DEF ExperimentTypes
  <2> QED BY <2>1, <2>2, <2>3 DEF ExperimentTypes, ExperimentTypeOK
<1> QED BY <1>1, <1>2, <1>3, PTL DEF ExperimentSpec

-----------------------------------------------------------------------------
\* The cells whose freeze would find an entry to replace or room for a new one.
Room == {cell \in Cell : HasRoom(cell)}

Inside(c) == doing[c].at \in {"native", "commit"}

\* A freeze names its range, and a sequence has a step under way.
SoundCall(call) ==
  /\ call.op = "freeze" => call.cell \in Cell /\ call.datum \in Datum
  /\ call.op = "sequence" => call.steps # <<>>

USE DEF SoundCall

HeldTypes ==
  /\ freezes \in Seq(Entry) /\ issued \in Nat /\ program \in Nat /\ revision \in Nat
  /\ ledger = Nothing \/ ledger \in [buttons : SUBSET Button, revision : Nat]
  /\ control \in Caller \cup {Nothing}
  /\ doing \in [Caller -> HoldCall]
  /\ \A c \in Caller : SoundCall(doing[c])

\* The room a memory_freeze has found is still there when it inserts its entry: it has
\* held the scheduler in between, and only its holder changes the set.
RoomKept ==
  \A c \in Caller : Inside(c) =>
    /\ scheduler = c
    /\ doing[c].op = "freeze" => doing[c].cell \in Room

FreezeInv == HeldTypes /\ RoomKept /\ FreezeSetSound

-----------------------------------------------------------------------------
(* What the steps of a call do to "doing".                                  *)

\* Only the call of c changes, and it stays well formed.
OneMoves(c) ==
  /\ doing' \in [Caller -> HoldCall]
  /\ \A u \in Caller \ {c} : doing'[u] = doing[u]
  /\ SoundCall(doing'[c])

LEMMA RestingTypes == Resting \in HoldCall /\ Resting.op = "idle" /\ Resting.at = "idle"
<1>1. <<>> \in Seq(Button)
  BY EmptySeq
<1> QED
  BY <1>1 DEF Resting, HoldCall

LEMMA ReturnMoves ==
  ASSUME HeldTypes, NEW c \in Caller, Return(c)
  PROVE  /\ OneMoves(c) /\ doing'[c] = Resting
         /\ control' \in Caller \cup {Nothing}
<1>1. doing' = [doing EXCEPT ![c] = Resting]
  BY DEF Return
<1>2. control' \in Caller \cup {Nothing}
  BY DEF Return, HeldTypes
<1> QED
  BY <1>1, <1>2, RestingTypes DEF HeldTypes, OneMoves

LEMMA FailMoves ==
  ASSUME HeldTypes, NEW c \in Caller, Fail(c)
  PROVE  /\ OneMoves(c) /\ doing'[c].at \in {"idle", "wait"}
         /\ control' \in Caller \cup {Nothing}
<1>1. CASE Return(c)
  BY <1>1, ReturnMoves, RestingTypes
<1>2. CASE /\ doing[c].op = "sequence"
           /\ doing' = [doing EXCEPT ![c].at = "wait", ![c].phase = "unwind"]
           /\ UNCHANGED control
  <2>1. /\ doing'[c] = [doing[c] EXCEPT !.at = "wait", !.phase = "unwind"]
        /\ \A u \in Caller \ {c} : doing'[u] = doing[u]
        /\ DOMAIN doing' = Caller
    BY <1>2 DEF HeldTypes
  <2>2. doing'[c] \in HoldCall /\ doing'[c].at = "wait" /\ doing'[c].op = "sequence"
    <3>1. doing[c] \in HoldCall
      BY DEF HeldTypes
    <3> QED
      BY <1>2, <2>1, <3>1 DEF HoldCall
  <2> QED
    BY <1>2, <2>1, <2>2 DEF HeldTypes, OneMoves
<1> QED
  BY <1>1, <1>2 DEF Fail, Unwind

-----------------------------------------------------------------------------
(* Induction.                                                               *)

\* A step that leaves the set and the scheduler alone, and lets no call in.
LEMMA QuietStep ==
  ASSUME FreezeInv, NEW c \in Caller, OneMoves(c), UNCHANGED <<freezes, issued>>,
         Inside(c)' => Inside(c) /\ doing'[c].op = doing[c].op /\ doing'[c].cell = doing[c].cell,
         UNCHANGED scheduler \/ (scheduler = c /\ ~Inside(c)'),
         control' \in Caller \cup {Nothing}, program' \in Nat, revision' \in Nat,
         ledger' = Nothing \/ ledger' \in [buttons : SUBSET Button, revision : Nat]
  PROVE  FreezeInv'
<1>1. HeldTypes'
  BY DEF FreezeInv, HeldTypes, OneMoves
<1>2. FreezeSetSound'
  BY DEF FreezeInv, FreezeSetSound
<1>3. Room' = Room
  BY DEF Room, HasRoom, FreezesAt
<1>4. RoomKept'
  BY <1>3 DEF FreezeInv, RoomKept, OneMoves, Inside
<1> QED
  BY <1>1, <1>2, <1>4 DEF FreezeInv

-----------------------------------------------------------------------------
(* The changes of the set.                                                  *)

LEMMA SetKeepsSound ==
  ASSUME HeldTypes, FreezeSetSound, NEW cell \in Room, NEW datum \in Datum,
         SetFreeze(cell, datum)
  PROVE  freezes' \in Seq(Entry) /\ issued' \in Nat /\ FreezeSetSound'
<1>1. /\ freezes \in Seq(Entry) /\ issued \in Nat /\ program \in Nat /\ MaxFreezes \in Nat
      /\ cell \in Cell /\ HasRoom(cell)
      /\ Len(freezes) \in Nat /\ DOMAIN freezes = 1..Len(freezes)
      /\ \A i \in 1..Len(freezes) : freezes[i] \in Entry
  BY HoldsAssumption, LenProperties, ElementOfSeq DEF HeldTypes, Room
<1>2. CASE FreezesAt(cell) # {}
  <2>1. PICK i \in DOMAIN freezes :
          freezes' = [freezes EXCEPT ![i] =
                        [freezes[i] EXCEPT !.datum = datum, !.program = program]]
    BY <1>2 DEF SetFreeze, FreezesAt
  <2> DEFINE entry == [freezes[i] EXCEPT !.datum = datum, !.program = program]
  <2>2. entry \in Entry /\ entry.cell = freezes[i].cell
    <3>1. freezes[i] \in Entry
      BY <1>1
    <3> QED
      BY <1>1, <3>1 DEF Entry
  <2> HIDE DEF entry
  <2>3. /\ freezes' \in Seq(Entry) /\ Len(freezes') = Len(freezes)
        /\ \A j \in 1..Len(freezes) : freezes'[j] = IF j = i THEN entry ELSE freezes[j]
    <3>1. freezes' = [freezes EXCEPT ![i] = entry]
      BY <2>1 DEF entry
    <3> QED
      BY <1>1, <2>2, <3>1, ExceptSeq
  <2>4. DOMAIN freezes' = 1..Len(freezes')
    BY <2>3, LenProperties
  <2>5. \A j \in 1..Len(freezes) : freezes'[j].cell = freezes[j].cell
    BY <2>2, <2>3
  <2> QED
    BY <1>1, <1>2, <2>3, <2>4, <2>5 DEF SetFreeze, FreezeSetSound
<1>3. CASE FreezesAt(cell) = {}
  <2> DEFINE entry == [id |-> issued + 1, cell |-> cell, datum |-> datum, program |-> program]
  <2>1. entry \in Entry /\ entry.cell = cell
    BY <1>1 DEF Entry
  <2>2. freezes' = Append(freezes, entry) /\ issued' = issued + 1 /\ Len(freezes) < MaxFreezes
    BY <1>1, <1>3 DEF SetFreeze, HasRoom
  <2> HIDE DEF entry
  <2>3. /\ freezes' \in Seq(Entry) /\ Len(freezes') = Len(freezes) + 1
        /\ \A j \in 1..Len(freezes) : freezes'[j] = freezes[j]
        /\ freezes'[Len(freezes) + 1] = entry
    BY <1>1, <2>1, <2>2, AppendProperties
  <2>4. DOMAIN freezes' = 1..Len(freezes')
    BY <2>3, LenProperties
  <2>5. \A j \in 1..Len(freezes) : freezes[j].cell # cell
    BY <1>1, <1>3 DEF FreezesAt
  <2>6. Len(freezes') <= MaxFreezes
    BY <1>1, <2>2, <2>3
  <2>7. ASSUME NEW i \in DOMAIN freezes', NEW j \in DOMAIN freezes', i # j
        PROVE  freezes'[i].cell # freezes'[j].cell
    <3>1. /\ i \in 1..Len(freezes) \/ i = Len(freezes) + 1
          /\ j \in 1..Len(freezes) \/ j = Len(freezes) + 1
      BY <1>1, <2>3, <2>4
    <3> QED
      BY <1>1, <2>1, <2>3, <2>5, <2>7, <3>1 DEF FreezeSetSound
  <2> QED
    BY <1>1, <2>2, <2>3, <2>6, <2>7 DEF FreezeSetSound
<1> QED
  BY <1>2, <1>3

LEMMA RemoveKeepsSound ==
  ASSUME HeldTypes, FreezeSetSound, NEW id, RemoveFreeze(id)
  PROVE  freezes' \in Seq(Entry) /\ FreezeSetSound'
<1>1. PICK i \in DOMAIN freezes : freezes' = RemoveAt(freezes, i)
  BY DEF RemoveFreeze
<1>2. /\ freezes \in Seq(Entry) /\ Len(freezes) \in Nat /\ DOMAIN freezes = 1..Len(freezes)
      /\ MaxFreezes \in Nat /\ Len(freezes) <= MaxFreezes
  BY HoldsAssumption, LenProperties, SMTT(40) DEF HeldTypes, FreezeSetSound
<1>3. /\ freezes' \in Seq(Entry) /\ Len(freezes') = Len(freezes) - 1
      /\ \A j \in 1..Len(freezes) - 1 :
           freezes'[j] = IF j < i THEN freezes[j] ELSE freezes[j + 1]
  BY <1>1, <1>2, RemoveAtProperties
<1>4. DOMAIN freezes' = 1..Len(freezes')
  BY <1>3, LenProperties
<1>5. ASSUME NEW j \in DOMAIN freezes', NEW k \in DOMAIN freezes', j # k
      PROVE  freezes'[j].cell # freezes'[k].cell
  <2> DEFINE here  == IF j < i THEN j ELSE j + 1
             there == IF k < i THEN k ELSE k + 1
  <2>1. here \in DOMAIN freezes /\ there \in DOMAIN freezes /\ here # there
    BY <1>2, <1>3, <1>4, <1>5
  <2>2. freezes'[j] = freezes[here] /\ freezes'[k] = freezes[there]
    BY <1>2, <1>3, <1>4
  <2> HIDE DEF here, there
  <2> QED
    BY <2>1, <2>2 DEF FreezeSetSound
<1> QED
  BY <1>2, <1>3, <1>5 DEF FreezeSetSound

LEMMA ClearKeepsSound ==
  ASSUME freezes' = <<>>
  PROVE  freezes' \in Seq(Entry) /\ FreezeSetSound'
<1>1. <<>> \in Seq(Entry) /\ Len(<<>>) = 0 /\ DOMAIN <<>> = {}
  BY EmptySeq
<1> QED
  BY <1>1, HoldsAssumption DEF FreezeSetSound

-----------------------------------------------------------------------------
(* The steps.                                                               *)

LEMMA RequestTypes ==
  ASSUME HeldTypes, NEW call \in Requests
  PROVE  /\ call \in HoldCall
         /\ SoundCall(call)
<1>1. Resting \in HoldCall
  BY RestingTypes
<1>2. CASE call \in FreezeRequests
  <2>1. PICK range \in Cell \X Datum :
          call = [Resting EXCEPT !.op = "freeze", !.cell = range[1], !.datum = range[2]]
    BY <1>2 DEF FreezeRequests
  <2>2. range[1] \in Cell /\ range[2] \in Datum
    OBVIOUS
  <2> QED
    BY <1>1, <2>1, <2>2 DEF HoldCall, Op
<1>3. CASE call \in UnfreezeRequests
  <2>1. PICK id \in 1..issued : call = [Resting EXCEPT !.op = "unfreeze", !.id = id]
    BY <1>3 DEF UnfreezeRequests
  <2>2. id \in Nat
    BY DEF HeldTypes
  <2> QED
    BY <1>1, <2>1, <2>2 DEF HoldCall, Op, Local
<1>4. CASE call \in PlainRequests
  <2>1. PICK op \in {"clear", "load", "hard", "soft"} : call = [Resting EXCEPT !.op = op]
    BY <1>4 DEF PlainRequests
  <2> QED
    BY <1>1, <2>1 DEF HoldCall, Op, Local, Loads
<1>5. CASE call \in InputRequests
  <2>1. PICK key \in Button \X BOOLEAN :
          call = [Resting EXCEPT !.op = "input", !.buttons = {key[1]}, !.down = key[2]]
    BY <1>5 DEF InputRequests
  <2>2. {key[1]} \in SUBSET Button /\ key[2] \in BOOLEAN
    OBVIOUS
  <2> QED
    BY <1>1, <2>1, <2>2 DEF HoldCall, Op, InputOp
<1>6. CASE call \in SequenceRequests
  <2>1. PICK plan \in Plan : call = [Resting EXCEPT !.op = "sequence", !.steps = plan]
    BY <1>6 DEF SequenceRequests
  <2> QED
    BY <1>1, <2>1, HoldsAssumption DEF HoldCall, Op, InputOp
<1> QED
  BY <1>2, <1>3, <1>4, <1>5, <1>6 DEF Requests

LEMMA BeginKeeps ==
  ASSUME FreezeInv, NEW c \in Caller, NEW call \in Requests, Begin(c, call)
  PROVE  FreezeInv'
<1>1. HeldTypes
  BY DEF FreezeInv
<1>2. doing' = [doing EXCEPT ![c] = [call EXCEPT !.at = "wait"]]
  BY DEF Begin
<1>3. call \in HoldCall /\ SoundCall(call)
  BY <1>1, RequestTypes
<1>4. /\ doing'[c] = [call EXCEPT !.at = "wait"]
      /\ doing' = [doing EXCEPT ![c] = doing'[c]]
  BY <1>1, <1>2 DEF HeldTypes
<1>5. /\ doing'[c] \in HoldCall /\ doing'[c].at = "wait"
      /\ doing'[c].op = call.op /\ doing'[c].cell = call.cell /\ doing'[c].datum = call.datum
      /\ doing'[c].steps = call.steps
  BY <1>3, <1>4 DEF HoldCall
<1>6. OneMoves(c) /\ ~Inside(c)'
  BY <1>1, <1>3, <1>4, <1>5 DEF HeldTypes, OneMoves, Inside
<1>7. /\ UNCHANGED <<freezes, issued, scheduler, program, revision, ledger>>
      /\ control' \in Caller \cup {Nothing}
  BY <1>1 DEF Begin, freezeVars, machineVars, HeldTypes
<1> QED
  BY <1>1, <1>6, <1>7, QuietStep DEF HeldTypes

LEMMA AdmitKeeps ==
  ASSUME FreezeInv, NEW c \in Caller, Admit(c)
  PROVE  FreezeInv'
<1>1. HeldTypes /\ RoomKept /\ FreezeSetSound /\ doing[c].at = "wait" /\ scheduler = Nothing
  BY DEF FreezeInv, Admit
<1>2. UNCHANGED <<freezes, issued, program, revision, ledger>>
  BY DEF Admit, freezeVars, machineVars
<1>3. CASE /\ Prepared(doing[c]) /\ scheduler' = c /\ UNCHANGED control
           /\ \E at \in {"native", "commit"} : doing' = [doing EXCEPT ![c].at = at]
  <2>1. PICK at \in {"native", "commit"} : doing' = [doing EXCEPT ![c].at = at]
    BY <1>3
  <2>2. doing[c] \in HoldCall
    BY <1>1 DEF HeldTypes
  <2>3. /\ doing'[c] = [doing[c] EXCEPT !.at = at]
        /\ doing' = [doing EXCEPT ![c] = doing'[c]]
    BY <1>1, <2>1 DEF HeldTypes
  <2>4. /\ doing'[c] \in HoldCall /\ doing'[c].op = doing[c].op
        /\ doing'[c].cell = doing[c].cell /\ doing'[c].datum = doing[c].datum
        /\ doing'[c].steps = doing[c].steps
    BY <2>2, <2>3 DEF HoldCall
  <2>5. HeldTypes'
    BY <1>1, <1>2, <1>3, <2>3, <2>4 DEF HeldTypes
  <2>6. Room' = Room
    BY <1>2 DEF Room, HasRoom, FreezesAt
  <2>7. doing[c].op = "freeze" => doing[c].cell \in Room
    BY <1>1, <1>3 DEF Prepared, HeldTypes, Room
  <2>8. \A u \in Caller : ~Inside(u)
    BY <1>1, HoldsAssumption DEF RoomKept
  <2>9. RoomKept'
    BY <1>1, <1>3, <2>3, <2>4, <2>6, <2>7, <2>8 DEF RoomKept, Inside, HeldTypes
  <2>10. FreezeSetSound'
    BY <1>1, <1>2 DEF FreezeSetSound
  <2> QED
    BY <2>5, <2>9, <2>10 DEF FreezeInv
<1>4. CASE Fail(c) /\ UNCHANGED scheduler
  <2>1. OneMoves(c) /\ doing'[c].at \in {"idle", "wait"} /\ control' \in Caller \cup {Nothing}
    BY <1>1, <1>4, FailMoves
  <2> QED
    BY <1>1, <1>2, <1>4, <2>1, QuietStep DEF HeldTypes, Inside
<1> QED
  BY <1>3, <1>4 DEF Admit

LEMMA AnsweredKeeps ==
  ASSUME FreezeInv, NEW c \in Caller, Answered(c)
  PROVE  FreezeInv'
<1>1. HeldTypes /\ doing[c].at = "native" /\ doing' = [doing EXCEPT ![c].at = "commit"]
  BY DEF FreezeInv, Answered
<1>2. doing[c] \in HoldCall
  BY <1>1 DEF HeldTypes
<1>3. doing'[c] = [doing[c] EXCEPT !.at = "commit"] /\ doing' = [doing EXCEPT ![c] = doing'[c]]
  BY <1>1 DEF HeldTypes
<1>4. /\ doing'[c] \in HoldCall /\ doing'[c].op = doing[c].op
      /\ doing'[c].cell = doing[c].cell /\ doing'[c].datum = doing[c].datum
      /\ doing'[c].steps = doing[c].steps
  BY <1>2, <1>3 DEF HoldCall
<1>5. OneMoves(c)
  BY <1>1, <1>3, <1>4 DEF HeldTypes, OneMoves
<1>6. Inside(c)
  BY <1>1 DEF Inside
<1>7. program' \in Nat
  BY <1>1 DEF Answered, Effect, HeldTypes
<1>8. UNCHANGED <<freezes, issued, scheduler, revision, ledger, control>>
  BY DEF Answered, freezeVars
<1> QED
  BY <1>1, <1>4, <1>5, <1>6, <1>7, <1>8, QuietStep DEF HeldTypes

LEMMA FailedKeeps ==
  ASSUME FreezeInv, NEW c \in Caller, Failed(c)
  PROVE  FreezeInv'
<1>1. HeldTypes /\ doing[c].at = "native" /\ Fail(c) /\ scheduler = c
  BY DEF FreezeInv, Failed, RoomKept, Inside
<1>2. OneMoves(c) /\ doing'[c].at \in {"idle", "wait"} /\ control' \in Caller \cup {Nothing}
  BY <1>1, FailMoves
<1>3. program' \in Nat
  BY <1>1 DEF Failed, Effect, HeldTypes, machineVars
<1>4. UNCHANGED <<freezes, issued, revision, ledger>>
  BY DEF Failed, freezeVars
<1> QED
  BY <1>1, <1>2, <1>3, <1>4, QuietStep DEF HeldTypes, Inside

LEMMA PhaseTypes ==
  ASSUME NEW call \in HoldCall, call.op = "sequence", call.steps # <<>>
  PROVE  /\ NextPhase(call) \in HoldCall /\ NextPhase(call).op = "sequence"
         /\ NextPhase(call).steps # <<>> /\ NextPhase(call).at \in {"wait", "after"}
<1>1. call.steps \in Seq(Button)
  BY DEF HoldCall
<1>2. Head(call.steps) \in Button /\ Len(call.steps) \in Nat
  BY <1>1, HeadTailProperties, LenProperties
<1>3. CASE call.phase = "press"
  <2>1. NextPhase(call) = [call EXCEPT !.at = "wait", !.phase = "advance",
                                       !.tried = call.tried \cup {Head(call.steps)}]
    BY <1>3 DEF NextPhase
  <2>2. call.tried \cup {Head(call.steps)} \in SUBSET Button
    BY <1>2 DEF HoldCall
  <2> QED
    BY <2>1, <2>2 DEF HoldCall
<1>4. CASE call.phase = "advance"
  <2>1. NextPhase(call) = [call EXCEPT !.at = "wait", !.phase = "release"]
    BY <1>4 DEF NextPhase
  <2> QED
    BY <2>1 DEF HoldCall
<1>5. CASE call.phase = "release" /\ Len(call.steps) > 1
  <2>1. NextPhase(call) = [call EXCEPT !.at = "wait", !.phase = "press", !.steps = Tail(call.steps)]
    BY <1>5 DEF NextPhase
  <2>2. Tail(call.steps) \in Seq(Button) /\ Tail(call.steps) # <<>>
    <3>1. Tail(call.steps) \in Seq(Button) /\ Len(Tail(call.steps)) = Len(call.steps) - 1
      BY <1>1, HeadTailProperties
    <3>2. Len(<<>>) = 0
      BY EmptySeq
    <3> QED
      BY <1>2, <1>5, <3>1, <3>2
  <2> QED
    BY <2>1, <2>2 DEF HoldCall
<1>6. CASE call.phase \notin {"press", "advance"} /\ ~(call.phase = "release" /\ Len(call.steps) > 1)
  <2>1. NextPhase(call) = [call EXCEPT !.at = "after"]
    BY <1>6 DEF NextPhase
  <2> QED
    BY <2>1 DEF HoldCall
<1> QED
  BY <1>3, <1>4, <1>5, <1>6

LEMMA CommitKeeps ==
  ASSUME FreezeInv, NEW c \in Caller, Commit(c)
  PROVE  FreezeInv'
<1>1. /\ HeldTypes /\ RoomKept /\ FreezeSetSound
      /\ doing[c].at = "commit" /\ scheduler' = Nothing /\ revision' = revision + 1
      /\ CommitResources(doing[c]) /\ UNCHANGED program
  BY DEF FreezeInv, Commit, machineVars
<1>2. /\ scheduler = c
      /\ doing[c].op = "freeze" => doing[c].cell \in Room /\ doing[c].datum \in Datum
  BY <1>1 DEF RoomKept, Inside, HeldTypes
<1>3. freezes' \in Seq(Entry) /\ issued' \in Nat /\ FreezeSetSound'
  <2>1. CASE doing[c].op = "freeze"
    <3>1. SetFreeze(doing[c].cell, doing[c].datum)
      BY <1>1, <2>1 DEF CommitResources, Loads
    <3> QED
      BY <1>1, <1>2, <2>1, <3>1, SetKeepsSound
  <2>2. CASE doing[c].op = "unfreeze"
    <3>1. RemoveFreeze(doing[c].id) /\ UNCHANGED issued
      BY <1>1, <2>2 DEF CommitResources, Loads
    <3> QED
      BY <1>1, <3>1, RemoveKeepsSound DEF HeldTypes
  <2>3. CASE doing[c].op \in {"clear", "soft"} \cup Loads
    <3>1. freezes' = <<>> /\ UNCHANGED issued
      BY <1>1, <2>3 DEF CommitResources, Loads
    <3> QED
      BY <1>1, <3>1, ClearKeepsSound DEF HeldTypes
  <2>4. CASE doing[c].op \notin {"freeze", "unfreeze", "clear", "soft"} \cup Loads
    <3>1. UNCHANGED <<freezes, issued>>
      BY <1>1, <2>4 DEF CommitResources, freezeVars
    <3> QED
      BY <1>1, <3>1 DEF HeldTypes, FreezeSetSound
  <2> QED
    BY <2>1, <2>2, <2>3, <2>4
<1>4. ledger' = Nothing \/ ledger' \in [buttons : SUBSET Button, revision : Nat]
  BY <1>1 DEF CommitResources, HeldTypes
<1>5. /\ OneMoves(c) /\ doing'[c].at \in {"idle", "wait", "after"}
      /\ control' \in Caller \cup {Nothing}
  <2>1. CASE Return(c)
    BY <1>1, <2>1, ReturnMoves, RestingTypes
  <2>2. CASE /\ doing[c].op = "sequence"
             /\ doing' = [doing EXCEPT ![c] = NextPhase(doing[c])] /\ UNCHANGED control
    <3>1. doing[c] \in HoldCall
      BY <1>1 DEF HeldTypes
    <3>2. doing'[c] = NextPhase(doing[c]) /\ doing' = [doing EXCEPT ![c] = doing'[c]]
      BY <1>1, <2>2 DEF HeldTypes
    <3>3. doing[c].op = "sequence" /\ doing[c].steps # <<>>
      BY <1>1, <2>2 DEF HeldTypes
    <3>4. /\ doing'[c] \in HoldCall /\ doing'[c].op = "sequence" /\ doing'[c].steps # <<>>
          /\ doing'[c].at \in {"wait", "after"}
      BY <3>1, <3>2, <3>3, PhaseTypes
    <3> QED
      BY <1>1, <2>2, <3>2, <3>4 DEF HeldTypes, OneMoves
  <2>3. CASE /\ doing[c].op \in {"input", "hard"}
             /\ doing' = [doing EXCEPT ![c].at = "after"] /\ UNCHANGED control
    <3>1. doing[c] \in HoldCall
      BY <1>1 DEF HeldTypes
    <3>2. doing'[c] = [doing[c] EXCEPT !.at = "after"] /\ doing' = [doing EXCEPT ![c] = doing'[c]]
      BY <1>1, <2>3 DEF HeldTypes
    <3>3. doing'[c] \in HoldCall /\ doing'[c].op \in {"input", "hard"} /\ doing'[c].at = "after"
      BY <2>3, <3>1, <3>2 DEF HoldCall
    <3> QED
      BY <1>1, <2>3, <3>2, <3>3 DEF HeldTypes, OneMoves
  <2> QED
    BY <2>1, <2>2, <2>3 DEF Commit
<1>6. HeldTypes'
  <2>1. /\ freezes' \in Seq(Entry) /\ issued' \in Nat /\ program' \in Nat /\ revision' \in Nat
        /\ ledger' = Nothing \/ ledger' \in [buttons : SUBSET Button, revision : Nat]
    BY <1>1, <1>3, <1>4 DEF HeldTypes
  <2>2. /\ control' \in Caller \cup {Nothing} /\ doing' \in [Caller -> HoldCall]
        /\ \A u \in Caller \ {c} : doing'[u] = doing[u]
        /\ SoundCall(doing'[c])
    BY <1>5 DEF OneMoves
  <2>3. \A u \in Caller : SoundCall(doing[u]) BY <1>1 DEF HeldTypes
  <2>4. ASSUME NEW u \in Caller PROVE SoundCall(doing'[u])
    <3>1. CASE u = c BY <2>2, <3>1
    <3>2. CASE u # c BY <2>2, <2>3, <3>2
    <3> QED BY <3>1, <3>2
  <2> QED BY <2>1, <2>2, <2>4 DEF HeldTypes
<1>7. RoomKept'
  <2>1. \A u \in Caller : ~Inside(u)'
    BY <1>1, <1>2, <1>5 DEF RoomKept, Inside, OneMoves
  <2> QED
    BY <2>1 DEF RoomKept, Inside
<1> QED
  BY <1>3, <1>6, <1>7 DEF FreezeInv

LEMMA LedgerKeeps ==
  ASSUME FreezeInv, NEW c \in Caller, ReadLedger(c) \/ Settle(c)
  PROVE  FreezeInv'
<1>1. HeldTypes
  BY DEF FreezeInv
<1>2. doing[c] \in HoldCall
  BY <1>1 DEF HeldTypes
<1>3. CASE ReadLedger(c)
  <2>1. doing' = [doing EXCEPT ![c].at = "record", ![c].held = Commanded, ![c].id = revision]
    BY <1>3 DEF ReadLedger
  <2>2. Commanded \in SUBSET Button /\ revision \in Nat
    BY <1>1 DEF Commanded, HeldTypes
  <2>3. /\ doing'[c] = [doing[c] EXCEPT !.at = "record", !.held = Commanded, !.id = revision]
        /\ doing' = [doing EXCEPT ![c] = doing'[c]]
    BY <1>1, <2>1 DEF HeldTypes
  <2>4. /\ doing'[c] \in HoldCall /\ doing'[c].at = "record" /\ doing'[c].op = doing[c].op
        /\ doing'[c].cell = doing[c].cell /\ doing'[c].datum = doing[c].datum
        /\ doing'[c].steps = doing[c].steps
    BY <1>2, <2>2, <2>3 DEF HoldCall
  <2>5. OneMoves(c)
    BY <1>1, <2>3, <2>4 DEF HeldTypes, OneMoves
  <2>6. UNCHANGED <<freezes, issued, program, ledger, revision, scheduler, control>>
    BY <1>3 DEF ReadLedger, freezeVars, machineVars
  <2> QED
    BY <1>1, <2>4, <2>5, <2>6, QuietStep DEF HeldTypes, Inside
<1>4. CASE Settle(c)
  <2>1. Return(c) /\ UNCHANGED <<freezes, issued, program, revision, scheduler>>
    BY <1>4 DEF Settle, freezeVars, machineVars
  <2>2. OneMoves(c) /\ doing'[c] = Resting /\ control' \in Caller \cup {Nothing}
    BY <1>1, <2>1, ReturnMoves
  <2>3. ledger' = Nothing \/ ledger' \in [buttons : SUBSET Button, revision : Nat]
    <3>1. /\ doing[c].held \in SUBSET Button /\ doing[c].buttons \in SUBSET Button
          /\ doing[c].id \in Nat
      BY <1>2 DEF HoldCall
    <3>2. Fold(doing[c].held, doing[c].buttons, doing[c].down) \in SUBSET Button
      BY <3>1 DEF Fold
    <3> QED
      BY <1>1, <1>4, <3>1, <3>2 DEF Settle, RecordInput, RecordSequence, ForgetInput, HeldTypes
  <2> QED
    BY <1>1, <2>1, <2>2, <2>3, RestingTypes, QuietStep DEF HeldTypes, Inside
<1> QED
  BY <1>3, <1>4

LEMMA ExpireKeeps ==
  ASSUME FreezeInv, ExpireControl
  PROVE  FreezeInv'
<1>1. HeldTypes /\ control \in Caller /\ control' = Nothing
      /\ doing' = [doing EXCEPT ![control].clean = FALSE]
  BY DEF FreezeInv, ExpireControl, HeldTypes
<1>2. PICK c \in Caller : c = control
  BY <1>1
<1>3. doing[c] \in HoldCall
  BY <1>1 DEF HeldTypes
<1>4. doing'[c] = [doing[c] EXCEPT !.clean = FALSE] /\ doing' = [doing EXCEPT ![c] = doing'[c]]
  BY <1>1, <1>2 DEF HeldTypes
<1>5. /\ doing'[c] \in HoldCall /\ doing'[c].op = doing[c].op /\ doing'[c].at = doing[c].at
      /\ doing'[c].cell = doing[c].cell /\ doing'[c].datum = doing[c].datum
      /\ doing'[c].steps = doing[c].steps
  BY <1>3, <1>4 DEF HoldCall
<1>6. OneMoves(c)
  BY <1>1, <1>4, <1>5 DEF HeldTypes, OneMoves
<1>7. UNCHANGED <<freezes, issued, program, ledger, revision, scheduler>>
  BY DEF ExpireControl, freezeVars, machineVars
<1> QED
  BY <1>1, <1>5, <1>6, <1>7, QuietStep DEF HeldTypes, Inside

\* The sweeper and the emulated program touch neither the set nor a call.
LEMMA RestKeeps ==
  ASSUME FreezeInv,
         UNCHANGED <<freezes, issued, program, ledger, revision, scheduler, control, doing>>
  PROVE  FreezeInv'
<1>1. HeldTypes' /\ FreezeSetSound'
  BY DEF FreezeInv, HeldTypes, FreezeSetSound
<1>2. Room' = Room
  BY DEF Room, HasRoom, FreezesAt
<1>3. RoomKept'
  BY <1>2 DEF FreezeInv, RoomKept, Inside
<1> QED
  BY <1>1, <1>3 DEF FreezeInv

LEMMA FreezeInductive == HoldsSpec => []FreezeInv
<1>1. HoldsInit => FreezeInv
  <2> SUFFICES ASSUME HoldsInit
               PROVE  FreezeInv
    OBVIOUS
  <2>1. <<>> \in Seq(Entry) /\ Len(<<>>) = 0
    BY EmptySeq
  <2>2. /\ freezes = <<>> /\ issued = 0 /\ program = 0 /\ revision = 0
        /\ ledger = Nothing /\ control = Nothing
        /\ doing \in [Caller -> HoldCall] /\ \A c \in Caller : doing[c] = Resting
    BY RestingTypes DEF HoldsInit
  <2>3. HeldTypes
    BY <2>1, <2>2, RestingTypes DEF HeldTypes
  <2>4. RoomKept
    BY <2>2, RestingTypes DEF RoomKept, Inside
  <2>5. FreezeSetSound
    BY <2>1, <2>2, HoldsAssumption DEF FreezeSetSound
  <2> QED
    BY <2>3, <2>4, <2>5 DEF FreezeInv
<1>2. FreezeInv /\ [HoldsNext]_holdVars => FreezeInv'
  <2> SUFFICES ASSUME FreezeInv, [HoldsNext]_holdVars
               PROVE  FreezeInv'
    OBVIOUS
  <2>1. ASSUME NEW c \in Caller, NEW call \in Requests, Begin(c, call)
        PROVE  FreezeInv'
    BY <2>1, BeginKeeps
  <2>2. ASSUME NEW c \in Caller, CallerStep(c)
        PROVE  FreezeInv'
    BY <2>2, AdmitKeeps, AnsweredKeeps, FailedKeeps, CommitKeeps, LedgerKeeps DEF CallerStep
  <2>3. CASE CopyFreezes
    BY <2>3, RestKeeps DEF CopyFreezes, freezeVars, machineVars
  <2>4. CASE WriteFreeze
    BY <2>4, RestKeeps DEF WriteFreeze, freezeVars
  <2>5. ASSUME NEW cell \in Cell, Emulate(cell)
        PROVE  FreezeInv'
    BY <2>5, RestKeeps DEF Emulate, freezeVars
  <2>6. CASE ExpireControl
    BY <2>6, ExpireKeeps
  <2>7. CASE UNCHANGED holdVars
    BY <2>7, RestKeeps DEF holdVars
  <2> QED
    BY <2>1, <2>2, <2>3, <2>4, <2>5, <2>6, <2>7 DEF HoldsNext
<1> QED
  BY <1>1, <1>2, PTL DEF HoldsSpec

\* The freeze set never exceeds its cap and never holds two entries for one cell: the
\* insertion, which panics without room, always finds the room the check has seen.
THEOREM FreezesStaySound == HoldsSpec => []FreezeSetSound
<1>1. FreezeInv => FreezeSetSound
  BY DEF FreezeInv
<1> QED
  BY <1>1, FreezeInductive, PTL

-----------------------------------------------------------------------------
(* Input sequences.                                                         *)

\* A sequence whose lock has not run out, and when none of its buttons is down: before
\* it presses the next one, and once it has released the last.
Reserving(call) == call.op = "sequence" /\ call.clean

Lifted(call) ==
  \/ call.phase = "press" /\ call.at \in {"wait", "native"}
  \/ call.phase \in {"release", "unwind"} /\ call.at = "commit"
  \/ call.at \in {"after", "record"}

\* Of the buttons a call has pressed, only that of the step under way is down.
OneDown(call, down) ==
  down \cap call.tried \subseteq (IF Lifted(call) THEN {} ELSE {Head(call.steps)})

Unstarted(call) == call.at = "wait" /\ call.phase = "press" /\ call.tried = {}

\* It holds the lock, so that no other call gets in; one that was in before it took the
\* lock is out before its first press.
Held(c) ==
  Reserving(doing[c]) =>
    /\ control = c
    /\ OneDown(doing[c], pads)
    /\ \A u \in Caller \ {c} : Inside(u) => Unstarted(doing[c])

SequenceInv == SequenceReleases /\ \A c \in Caller : Held(c)

\* A step of the call of c leaves the sequences of the others as they are.
LEMMA OthersHeld ==
  ASSUME FreezeInv, SequenceInv, NEW c \in Caller, OneMoves(c),
         control \notin {c, Nothing} => UNCHANGED control,
         ~Inside(c) => UNCHANGED pads,
         Inside(c)' => Inside(c) \/ control \in {c, Nothing}
  PROVE  \A u \in Caller \ {c} : Held(u)'
<1> SUFFICES ASSUME NEW u \in Caller \ {c}, Reserving(doing[u])
             PROVE  /\ control' = u /\ OneDown(doing[u], pads')
                    /\ \A v \in Caller \ {u} : Inside(v)' => Unstarted(doing[u])
  BY DEF Held, OneMoves
<1>1. /\ control = u /\ OneDown(doing[u], pads)
      /\ \A v \in Caller \ {u} : Inside(v) => Unstarted(doing[u])
  BY DEF SequenceInv, Held
<1>2. control \notin {c, Nothing}
  BY <1>1, HoldsAssumption
<1>3. OneDown(doing[u], pads')
  <2>1. CASE Inside(c)
    BY <1>1, <2>1 DEF OneDown, Unstarted
  <2> QED
    BY <1>1, <2>1
<1>4. ASSUME NEW v \in Caller \ {u}, Inside(v)' PROVE Unstarted(doing[u])
  BY <1>1, <1>2, <1>4 DEF Inside, OneMoves
<1> QED
  BY <1>1, <1>2, <1>3, <1>4

\* What c does to its own call.
LEMMA Joins ==
  ASSUME FreezeInv, SequenceInv, NEW c \in Caller, OneMoves(c),
         control \notin {c, Nothing} => UNCHANGED control,
         ~Inside(c) => UNCHANGED pads,
         Inside(c)' => Inside(c) \/ control \in {c, Nothing},
         UNCHANGED left,
         Reserving(doing'[c]) =>
           /\ control' = c /\ OneDown(doing'[c], pads')
           /\ \A u \in Caller \ {c} : Inside(u) => Unstarted(doing'[c])
  PROVE  SequenceInv'
<1>1. Held(c)'
  BY DEF Held, OneMoves, Inside
<1>2. \A u \in Caller \ {c} : Held(u)'
  BY OthersHeld
<1>3. SequenceReleases'
  BY DEF SequenceInv, SequenceReleases
<1> QED
  BY <1>1, <1>2, <1>3 DEF SequenceInv

\* The holder of the scheduler is alone inside.
LEMMA AloneInside ==
  ASSUME FreezeInv, NEW c \in Caller, scheduler \in {c, Nothing}
  PROVE  \A u \in Caller \ {c} : ~Inside(u)
BY HoldsAssumption DEF FreezeInv, RoomKept

\* A call that returns owes nothing: it is no sequence, its lock ran out, its release
\* was not answered, or it is lifted.
LEMMA ReturnHeld ==
  ASSUME FreezeInv, SequenceInv, NEW c \in Caller, Return(c),
         Reserving(doing[c]) => \/ Lifted(doing[c])
                                \/ doing[c].at = "native" /\ doing[c].phase # "advance",
         ~Inside(c) => UNCHANGED pads
  PROVE  SequenceInv'
<1>1. OneMoves(c) /\ doing'[c] = Resting
  BY ReturnMoves DEF FreezeInv
<1>2. UNCHANGED left
  <2>1. CASE Reserving(doing[c]) /\ Lifted(doing[c])
    <3>1. pads \cap doing[c].tried = {}
      BY <2>1 DEF SequenceInv, Held, OneDown
    <3> QED
      BY <3>1 DEF Return
  <2>2. CASE Reserving(doing[c]) => doing[c].at = "native" /\ doing[c].phase # "advance"
    BY <2>2 DEF Return, Reserving
  <2> QED
    BY <2>1, <2>2
<1>3. control' = IF control = c THEN Nothing ELSE control
  BY DEF Return
<1>4. ~Reserving(doing'[c]) /\ ~Inside(c)'
  BY <1>1, RestingTypes DEF Reserving, Inside
<1> QED
  BY <1>1, <1>2, <1>3, <1>4, Joins

\* The lock of a sequence lets it in: it does not fail at the scheduler.
LEMMA FailHeld ==
  ASSUME FreezeInv, SequenceInv, NEW c \in Caller, Fail(c),
         Reserving(doing[c]) => doing[c].at = "native",
         ~Inside(c) => UNCHANGED pads,
         doing[c].op = "sequence" /\ doing[c].phase = "advance" => UNCHANGED pads
  PROVE  SequenceInv'
<1>1. CASE Return(c) /\ (doing[c].op = "sequence" => doing[c].phase # "advance")
  BY <1>1, ReturnHeld DEF Reserving
<1>2. CASE /\ doing[c].op = "sequence" /\ doing[c].phase = "advance"
           /\ doing' = [doing EXCEPT ![c].at = "wait", ![c].phase = "unwind"]
           /\ UNCHANGED <<control, left>>
  <2>1. doing[c] \in HoldCall /\ doing[c].steps # <<>> /\ DOMAIN doing = Caller
    BY <1>2 DEF FreezeInv, HeldTypes
  <2>2. /\ doing'[c] = [doing[c] EXCEPT !.at = "wait", !.phase = "unwind"]
        /\ doing' = [doing EXCEPT ![c] = doing'[c]]
    BY <1>2, <2>1
  <2>3. /\ doing'[c] \in HoldCall /\ doing'[c].op = "sequence" /\ doing'[c].at = "wait"
        /\ doing'[c].phase = "unwind" /\ doing'[c].clean = doing[c].clean
        /\ doing'[c].tried = doing[c].tried /\ doing'[c].steps = doing[c].steps
    BY <1>2, <2>1, <2>2 DEF HoldCall
  <2>4. OneMoves(c) /\ ~Inside(c)'
    BY <2>1, <2>2, <2>3 DEF OneMoves, Inside, FreezeInv, HeldTypes
  <2>5. ASSUME Reserving(doing'[c])
        PROVE  /\ control' = c /\ OneDown(doing'[c], pads')
               /\ \A u \in Caller \ {c} : Inside(u) => Unstarted(doing'[c])
    <3>1. Reserving(doing[c]) /\ doing[c].at = "native"
      BY <1>2, <2>3, <2>5 DEF Reserving
    <3>2. /\ control = c /\ OneDown(doing[c], pads)
          /\ \A u \in Caller \ {c} : ~Inside(u)
      BY <1>2, <3>1 DEF SequenceInv, Held, Unstarted
    <3>3. OneDown(doing'[c], pads')
      BY <1>2, <2>3, <3>1, <3>2 DEF OneDown, Lifted
    <3> QED
      BY <1>2, <3>2, <3>3
  <2> QED
    BY <1>2, <2>4, <2>5, Joins
<1> QED
  BY <1>1, <1>2 DEF Fail, Unwind

LEMMA BeginHeld ==
  ASSUME FreezeInv, SequenceInv, NEW c \in Caller, NEW call \in Requests, Begin(c, call)
  PROVE  SequenceInv'
<1>1. HeldTypes
  BY DEF FreezeInv
<1>2. call \in HoldCall /\ SoundCall(call)
  BY <1>1, RequestTypes
<1>3. doing'[c] = [call EXCEPT !.at = "wait"] /\ doing' = [doing EXCEPT ![c] = doing'[c]]
  BY <1>1 DEF Begin, HeldTypes
<1>4. /\ doing'[c] \in HoldCall /\ doing'[c].at = "wait" /\ doing'[c].op = call.op
      /\ doing'[c].phase = call.phase /\ doing'[c].tried = call.tried
      /\ doing'[c].cell = call.cell /\ doing'[c].datum = call.datum /\ doing'[c].steps = call.steps
  BY <1>2, <1>3 DEF HoldCall
<1>5. OneMoves(c) /\ ~Inside(c)'
  BY <1>1, <1>2, <1>3, <1>4 DEF OneMoves, Inside, HeldTypes
<1>6. UNCHANGED <<pads, left>> /\ (control \notin {c, Nothing} => UNCHANGED control)
  BY DEF Begin, machineVars
<1>7. ASSUME call.op = "sequence"
      PROVE  control' = c /\ Unstarted(doing'[c])
  <2>1. control' = c
    BY <1>7 DEF Begin
  <2>2. call \in SequenceRequests
    BY <1>7 DEF Requests, FreezeRequests, UnfreezeRequests, PlainRequests, InputRequests, Resting
  <2>3. call.phase = "press" /\ call.tried = {}
    BY <2>2 DEF SequenceRequests, Resting
  <2> QED
    BY <1>4, <2>1, <2>3 DEF Unstarted
<1>8. Reserving(doing'[c]) =>
        /\ control' = c /\ OneDown(doing'[c], pads')
        /\ \A u \in Caller \ {c} : Inside(u) => Unstarted(doing'[c])
  BY <1>4, <1>7 DEF Reserving, OneDown, Unstarted
<1> QED
  BY <1>5, <1>6, <1>8, Joins

\* A change of c's call that only moves it on.
LEMMA MovesOn ==
  ASSUME HeldTypes, NEW c \in Caller, NEW at \in {"native", "commit"},
         doing' = [doing EXCEPT ![c].at = at]
  PROVE  /\ OneMoves(c) /\ doing'[c].at = at /\ doing'[c].op = doing[c].op
         /\ doing'[c].phase = doing[c].phase /\ doing'[c].tried = doing[c].tried
         /\ doing'[c].steps = doing[c].steps /\ doing'[c].clean = doing[c].clean
<1>1. doing[c] \in HoldCall
  BY DEF HeldTypes
<1>2. doing'[c] = [doing[c] EXCEPT !.at = at] /\ doing' = [doing EXCEPT ![c] = doing'[c]]
  BY DEF HeldTypes
<1>3. /\ doing'[c] \in HoldCall /\ doing'[c].at = at /\ doing'[c].op = doing[c].op
      /\ doing'[c].phase = doing[c].phase /\ doing'[c].tried = doing[c].tried
      /\ doing'[c].steps = doing[c].steps /\ doing'[c].clean = doing[c].clean
      /\ doing'[c].cell = doing[c].cell /\ doing'[c].datum = doing[c].datum
  BY <1>1, <1>2 DEF HoldCall
<1> QED
  BY <1>2, <1>3 DEF OneMoves, HeldTypes

LEMMA AdmitHeld ==
  ASSUME FreezeInv, SequenceInv, NEW c \in Caller, Admit(c)
  PROVE  SequenceInv'
<1>1. HeldTypes /\ doing[c].at = "wait" /\ scheduler = Nothing /\ UNCHANGED pads
  BY DEF FreezeInv, Admit, machineVars
<1>2. CASE Allowed(c) /\ Prepared(doing[c])
  <2>1. PICK at \in {"native", "commit"} :
          /\ doing' = [doing EXCEPT ![c].at = at]
          /\ doing[c].op = "sequence" => at = "native"
    BY <1>2 DEF Admit, Local
  <2>2. UNCHANGED <<control, left>> /\ control \in {c, Nothing}
    BY <1>2 DEF Admit, Allowed
  <2>3. /\ OneMoves(c) /\ doing'[c].at = at /\ doing'[c].op = doing[c].op
        /\ doing'[c].phase = doing[c].phase /\ doing'[c].tried = doing[c].tried
        /\ doing'[c].steps = doing[c].steps /\ doing'[c].clean = doing[c].clean
    BY <1>1, <2>1, MovesOn
  <2>4. \A u \in Caller \ {c} : ~Inside(u)
    BY <1>1, AloneInside
  <2>5. Reserving(doing'[c]) => control' = c /\ OneDown(doing'[c], pads')
    BY <1>1, <2>1, <2>2, <2>3 DEF Reserving, SequenceInv, Held, OneDown, Lifted
  <2> QED
    BY <1>1, <2>2, <2>3, <2>4, <2>5, Joins
<1>3. CASE ~(Allowed(c) /\ Prepared(doing[c]))
  <2>1. Fail(c)
    BY <1>3 DEF Admit
  <2>2. ~Reserving(doing[c])
    BY <1>3 DEF Reserving, SequenceInv, Held, Allowed, Prepared
  <2> QED
    BY <1>1, <2>1, <2>2, FailHeld
<1> QED
  BY <1>2, <1>3

\* What a command of a sequence does to its buttons.
LEMMA SequenceEffect ==
  ASSUME HeldTypes, NEW c \in Caller, doing[c].op = "sequence", Effect(doing[c])
  PROVE  pads' = IF doing[c].phase = "press" THEN pads \cup {Head(doing[c].steps)}
                 ELSE IF doing[c].phase = "advance" THEN pads
                 ELSE pads \ {Head(doing[c].steps)}
<1>1. doing[c].phase \in {"press", "advance", "release", "unwind"}
  BY DEF HeldTypes, HoldCall
<1> QED
  BY <1>1 DEF Effect, Loads

LEMMA AnsweredHeld ==
  ASSUME FreezeInv, SequenceInv, NEW c \in Caller, Answered(c)
  PROVE  SequenceInv'
<1>1. HeldTypes /\ doing[c].at = "native" /\ doing' = [doing EXCEPT ![c].at = "commit"]
  BY DEF FreezeInv, Answered
<1>2. /\ OneMoves(c) /\ doing'[c].at = "commit" /\ doing'[c].op = doing[c].op
      /\ doing'[c].phase = doing[c].phase /\ doing'[c].tried = doing[c].tried
      /\ doing'[c].steps = doing[c].steps /\ doing'[c].clean = doing[c].clean
  BY <1>1, MovesOn
<1>3. Inside(c) /\ UNCHANGED <<control, left>>
  BY <1>1 DEF Inside, Answered
<1>4. \A u \in Caller \ {c} : ~Inside(u)
  BY <1>3, AloneInside DEF FreezeInv, RoomKept
<1>5. ASSUME Reserving(doing'[c]) PROVE control' = c /\ OneDown(doing'[c], pads')
  <2>1. doing[c].op = "sequence" /\ control = c /\ OneDown(doing[c], pads)
    BY <1>2, <1>5 DEF Reserving, SequenceInv, Held
  <2>2. pads' = IF doing[c].phase = "press" THEN pads \cup {Head(doing[c].steps)}
                ELSE IF doing[c].phase = "advance" THEN pads
                ELSE pads \ {Head(doing[c].steps)}
    BY <1>1, <2>1, SequenceEffect DEF Answered
  <2>3. doing[c].phase \in {"press", "advance", "release", "unwind"}
    BY <1>1 DEF HeldTypes, HoldCall
  <2> QED
    BY <1>1, <1>2, <1>3, <2>1, <2>2, <2>3 DEF OneDown, Lifted
<1> QED
  BY <1>2, <1>3, <1>4, <1>5, Joins

LEMMA FailedHeld ==
  ASSUME FreezeInv, SequenceInv, NEW c \in Caller, Failed(c)
  PROVE  SequenceInv'
<1>1. HeldTypes /\ doing[c].at = "native" /\ Inside(c) /\ Fail(c)
  BY DEF FreezeInv, Failed, Inside
<1>2. doing[c].op = "sequence" /\ doing[c].phase = "advance" => UNCHANGED pads
  BY <1>1, SequenceEffect DEF Failed, machineVars
<1> QED
  BY <1>1, <1>2, FailHeld

\* The next command of a sequence: the button just released is up, and the next one
\* has not been pressed yet.
LEMMA PhaseHeld ==
  ASSUME NEW call \in HoldCall, call.op = "sequence", call.phase # "unwind", call.at = "commit",
         NEW down, OneDown(call, down)
  PROVE  OneDown(NextPhase(call), down) /\ NextPhase(call).clean = call.clean
<1>1. call.phase \in {"press", "advance", "release"}
  BY DEF HoldCall
<1>2. CASE call.phase = "press"
  <2>1. NextPhase(call) = [call EXCEPT !.at = "wait", !.phase = "advance",
                                       !.tried = call.tried \cup {Head(call.steps)}]
    BY <1>2 DEF NextPhase
  <2>2. /\ NextPhase(call).at = "wait" /\ NextPhase(call).phase = "advance"
        /\ NextPhase(call).tried = call.tried \cup {Head(call.steps)}
        /\ NextPhase(call).steps = call.steps /\ NextPhase(call).clean = call.clean
    BY <2>1 DEF HoldCall
  <2> QED
    BY <1>2, <2>2 DEF OneDown, Lifted
<1>3. CASE call.phase = "advance"
  <2>1. NextPhase(call) = [call EXCEPT !.at = "wait", !.phase = "release"]
    BY <1>3 DEF NextPhase
  <2>2. /\ NextPhase(call).at = "wait" /\ NextPhase(call).phase = "release"
        /\ NextPhase(call).tried = call.tried
        /\ NextPhase(call).steps = call.steps /\ NextPhase(call).clean = call.clean
    BY <2>1 DEF HoldCall
  <2> QED
    BY <1>3, <2>2 DEF OneDown, Lifted
<1>4. CASE call.phase = "release"
  <2>1. \/ NextPhase(call) = [call EXCEPT !.at = "wait", !.phase = "press", !.steps = Tail(call.steps)]
        \/ NextPhase(call) = [call EXCEPT !.at = "after"]
    BY <1>4 DEF NextPhase
  <2>2. /\ \/ NextPhase(call).at = "wait" /\ NextPhase(call).phase = "press"
           \/ NextPhase(call).at = "after"
        /\ NextPhase(call).tried = call.tried /\ NextPhase(call).clean = call.clean
    BY <2>1 DEF HoldCall
  <2> QED
    BY <1>4, <2>2 DEF OneDown, Lifted
<1> QED
  BY <1>1, <1>2, <1>3, <1>4

LEMMA CommitHeld ==
  ASSUME FreezeInv, SequenceInv, NEW c \in Caller, Commit(c)
  PROVE  SequenceInv'
<1>1. /\ HeldTypes /\ doing[c].at = "commit" /\ Inside(c) /\ UNCHANGED pads
      /\ doing[c] \in HoldCall /\ DOMAIN doing = Caller
  BY DEF FreezeInv, HeldTypes, Commit, Inside, machineVars
<1>2. \A u \in Caller \ {c} : ~Inside(u)
  BY <1>1, AloneInside DEF FreezeInv, RoomKept
<1>3. CASE Return(c) /\ (doing[c].op = "sequence" => doing[c].phase = "unwind")
  BY <1>1, <1>3, ReturnHeld DEF Reserving, Lifted
<1>4. CASE /\ doing[c].op = "sequence" /\ doing[c].phase # "unwind"
           /\ doing' = [doing EXCEPT ![c] = NextPhase(doing[c])] /\ UNCHANGED <<control, left>>
  <2>1. doing'[c] = NextPhase(doing[c]) /\ doing' = [doing EXCEPT ![c] = doing'[c]]
    BY <1>1, <1>4
  <2>2. /\ doing'[c] \in HoldCall /\ doing'[c].op = "sequence"
        /\ doing'[c].steps # <<>> /\ doing'[c].at \in {"wait", "after"}
    BY <1>1, <1>4, <2>1, PhaseTypes DEF HeldTypes
  <2>3. OneMoves(c) /\ ~Inside(c)'
    BY <1>1, <2>1, <2>2 DEF OneMoves, HeldTypes, Inside
  <2>4. OneDown(doing[c], pads) => /\ OneDown(doing'[c], pads)
                                   /\ doing'[c].clean = doing[c].clean
    BY <1>1, <1>4, <2>1, PhaseHeld
  <2>5. doing'[c].clean = doing[c].clean
    <3>1. OneDown(doing[c], {})
      BY DEF OneDown
    <3> QED
      BY <1>1, <1>4, <2>1, <3>1, PhaseHeld
  <2>6. Reserving(doing'[c]) => control' = c /\ OneDown(doing'[c], pads')
    BY <1>1, <1>4, <2>4, <2>5 DEF Reserving, SequenceInv, Held
  <2> QED
    BY <1>1, <1>2, <1>4, <2>3, <2>6, Joins
<1>5. CASE /\ doing[c].op \in {"input", "hard"}
           /\ doing' = [doing EXCEPT ![c].at = "after"] /\ UNCHANGED <<control, left>>
  <2>1. doing'[c] = [doing[c] EXCEPT !.at = "after"] /\ doing' = [doing EXCEPT ![c] = doing'[c]]
    BY <1>1, <1>5
  <2>2. doing'[c] \in HoldCall /\ doing'[c].op = doing[c].op /\ doing'[c].at = "after"
    BY <1>1, <2>1 DEF HoldCall
  <2>3. OneMoves(c) /\ ~Inside(c)' /\ ~Reserving(doing'[c])
    BY <1>1, <1>5, <2>1, <2>2 DEF OneMoves, HeldTypes, Inside, Reserving
  <2> QED
    BY <1>1, <1>5, <2>3, Joins
<1>6. CASE doing[c].op = "sequence"
  BY <1>3, <1>4, <1>6 DEF Commit
<1> QED
  BY <1>3, <1>5, <1>6 DEF Commit

LEMMA LedgerHeld ==
  ASSUME FreezeInv, SequenceInv, NEW c \in Caller, ReadLedger(c) \/ Settle(c)
  PROVE  SequenceInv'
<1>1. HeldTypes /\ doing[c] \in HoldCall /\ DOMAIN doing = Caller
  BY DEF FreezeInv, HeldTypes
<1>2. CASE ReadLedger(c)
  <2>1. /\ doing[c].at = "after" /\ doing[c].op \in InputOp /\ UNCHANGED <<pads, control, left>>
        /\ doing' = [doing EXCEPT ![c].at = "record", ![c].held = Commanded, ![c].id = revision]
    BY <1>2 DEF ReadLedger, machineVars
  <2>2. Commanded \in SUBSET Button /\ revision \in Nat
    BY <1>1 DEF Commanded, HeldTypes
  <2>3. /\ doing'[c] = [doing[c] EXCEPT !.at = "record", !.held = Commanded, !.id = revision]
        /\ doing' = [doing EXCEPT ![c] = doing'[c]]
    BY <1>1, <2>1
  <2>4. /\ doing'[c] \in HoldCall /\ doing'[c].at = "record" /\ doing'[c].op = doing[c].op
        /\ doing'[c].tried = doing[c].tried /\ doing'[c].clean = doing[c].clean
        /\ doing'[c].steps = doing[c].steps
    BY <1>1, <2>2, <2>3 DEF HoldCall
  <2>5. OneMoves(c) /\ ~Inside(c)'
    BY <1>1, <2>1, <2>3, <2>4 DEF OneMoves, HeldTypes, Inside, InputOp
  <2>6. ASSUME Reserving(doing'[c])
        PROVE  /\ control' = c /\ OneDown(doing'[c], pads')
               /\ \A u \in Caller \ {c} : ~Inside(u)
    <3>1. /\ control = c /\ OneDown(doing[c], pads)
          /\ \A u \in Caller \ {c} : Inside(u) => Unstarted(doing[c])
      BY <2>4, <2>6 DEF Reserving, SequenceInv, Held
    <3> QED
      BY <2>1, <2>4, <3>1 DEF OneDown, Lifted, Unstarted
  <2> QED
    BY <2>1, <2>5, <2>6, Joins
<1>3. CASE Settle(c)
  <2>1. Return(c) /\ UNCHANGED pads
    BY <1>3 DEF Settle, machineVars
  <2>2. doing[c].at = "record" \/ doing[c].op = "hard"
    BY <1>3 DEF Settle, RecordInput, RecordSequence, ForgetInput
  <2> QED
    BY <2>1, <2>2, ReturnHeld DEF Reserving, Lifted
<1> QED
  BY <1>2, <1>3

\* The lock of a sequence runs out: it promises nothing any more, and no other
\* sequence holds the lock.
LEMMA ExpireHeld ==
  ASSUME FreezeInv, SequenceInv, ExpireControl
  PROVE  SequenceInv'
<1>1. /\ control \in Caller /\ DOMAIN doing = Caller /\ doing[control] \in HoldCall
      /\ doing' = [doing EXCEPT ![control].clean = FALSE] /\ UNCHANGED <<pads, left>>
  BY DEF FreezeInv, ExpireControl, HeldTypes, machineVars
<1>2. ASSUME NEW u \in Caller PROVE ~Reserving(doing'[u])
  <2>1. CASE u = control
    <3>1. doing'[u] = [doing[u] EXCEPT !.clean = FALSE]
      BY <1>1, <2>1
    <3>2. doing'[u].clean = FALSE
      BY <1>1, <2>1, <3>1 DEF HoldCall
    <3> QED
      BY <3>2 DEF Reserving
  <2>2. CASE u # control
    <3>1. doing'[u] = doing[u]
      BY <1>1, <2>2
    <3> QED
      BY <2>2, <3>1 DEF SequenceInv, Held
  <2> QED
    BY <2>1, <2>2
<1> QED
  BY <1>1, <1>2 DEF SequenceInv, Held, SequenceReleases

LEMMA RestHeld ==
  ASSUME SequenceInv, UNCHANGED <<pads, control, doing, left>>
  PROVE  SequenceInv'
BY DEF SequenceInv, Held, Inside, SequenceReleases

LEMMA SequenceInductive == HoldsSpec => []SequenceInv
<1>1. HoldsInit => SequenceInv
  BY RestingTypes DEF HoldsInit, SequenceInv, SequenceReleases, Held, Reserving
<1>2. FreezeInv /\ SequenceInv /\ [HoldsNext]_holdVars => SequenceInv'
  <2> SUFFICES ASSUME FreezeInv, SequenceInv, [HoldsNext]_holdVars
               PROVE  SequenceInv'
    OBVIOUS
  <2>1. ASSUME NEW c \in Caller, NEW call \in Requests, Begin(c, call)
        PROVE  SequenceInv'
    BY <2>1, BeginHeld
  <2>2. ASSUME NEW c \in Caller, CallerStep(c)
        PROVE  SequenceInv'
    BY <2>2, AdmitHeld, AnsweredHeld, FailedHeld, CommitHeld, LedgerHeld DEF CallerStep
  <2>3. CASE CopyFreezes
    BY <2>3, RestHeld DEF CopyFreezes, machineVars
  <2>4. CASE WriteFreeze
    BY <2>4, RestHeld DEF WriteFreeze
  <2>5. ASSUME NEW cell \in Cell, Emulate(cell)
        PROVE  SequenceInv'
    BY <2>5, RestHeld DEF Emulate
  <2>6. CASE ExpireControl
    BY <2>6, ExpireHeld
  <2>7. CASE UNCHANGED holdVars
    BY <2>7, RestHeld DEF holdVars
  <2> QED
    BY <2>1, <2>2, <2>3, <2>4, <2>5, <2>6, <2>7 DEF HoldsNext
<1> QED
  BY <1>1, <1>2, FreezeInductive, PTL DEF HoldsSpec

\* An input sequence leaves none of the buttons it has pressed down, wherever it ended
\* and whatever other callers asked for meanwhile, if its release was answered and its
\* lock did not run out.
THEOREM SequencesRelease == HoldsSpec => []SequenceReleases
<1>1. SequenceInv => SequenceReleases
  BY DEF SequenceInv
<1> QED
  BY <1>1, SequenceInductive, PTL

-----------------------------------------------------------------------------
(***************************************************************************)
(* The types of the machine and the bound on the programs loaded. A load   *)
(* counts from its beginning, and again as a program once it has landed;   *)
(* the callers that are about to load fit what is left.                    *)
(***************************************************************************)
Loaders == {c \in Caller : doing[c].op \in Loads}
Coming(c) == doing[c].op \in Loads /\ doing[c].at \in {"wait", "native"}
Pending == {c \in Caller : Coming(c)}

LoadsFit ==
  /\ IsFiniteSet(Loaders)
  /\ program + Cardinality(Pending) <= MaxLoads

MachineTyped ==
  /\ sweep \in Seq(Entry) /\ memory \in [Cell -> Datum \cup {Erased}]
  /\ pads \subseteq Button /\ scheduler \in Caller \cup {Nothing}

HoldsInv == FreezeInv /\ LoadsFit /\ MachineTyped

LEMMA PendingCounts ==
  ASSUME IsFiniteSet(Loaders)
  PROVE  /\ IsFiniteSet(Pending) /\ Cardinality(Pending) \in Nat /\ Cardinality(Loaders) \in Nat
         /\ Cardinality(Pending) <= Cardinality(Loaders)
<1>1. Pending \subseteq Loaders BY DEF Pending, Loaders, Coming
<1> QED BY <1>1, FS_Subset, FS_CardinalityType

\* A step of c that begins no load: a program it loads was on its way.
LEMMA LoadsGoOn ==
  ASSUME FreezeInv, LoadsFit, NEW c \in Caller, \A u \in Caller \ {c} : doing'[u] = doing[u],
         doing'[c].op \in Loads => doing[c].op \in Loads,
         Coming(c)' => Coming(c),
         program' = program \/ (program' = program + 1 /\ Coming(c) /\ ~ Coming(c)')
  PROVE  LoadsFit'
<1>1. program \in Nat /\ MaxLoads \in Nat BY HoldsAssumption DEF FreezeInv, HeldTypes
<1>2. Loaders' \subseteq Loaders
  BY DEF Loaders
<1>3. IsFiniteSet(Loaders') BY <1>2, FS_Subset DEF LoadsFit
<1>4. /\ IsFiniteSet(Pending) /\ Cardinality(Pending) \in Nat
  BY PendingCounts DEF LoadsFit
<1>5. Pending' \subseteq Pending
  BY DEF Pending, Coming
<1>6. Cardinality(Pending') \in Nat /\ Cardinality(Pending') <= Cardinality(Pending)
  BY <1>4, <1>5, FS_Subset, FS_CardinalityType
<1>7. program + Cardinality(Pending) <= MaxLoads BY DEF LoadsFit
<1>8. CASE program' = program
  <2>1. program' + Cardinality(Pending') <= MaxLoads BY ONLY <1>1, <1>4, <1>6, <1>7, <1>8
  <2> QED BY <1>3, <2>1 DEF LoadsFit
<1>9. CASE program' = program + 1 /\ Coming(c) /\ ~ Coming(c)'
  <2>1. c \in Pending /\ c \notin Pending' BY <1>9 DEF Pending
  <2>2. Pending' \subseteq Pending \ {c} BY <1>5, <2>1
  <2>3. /\ IsFiniteSet(Pending \ {c})
        /\ Cardinality(Pending \ {c}) = Cardinality(Pending) - 1
    BY <1>4, <2>1, FS_RemoveElement
  <2>4. Cardinality(Pending') <= Cardinality(Pending) - 1 BY <2>2, <2>3, FS_Subset
  <2>5. program' = program + 1 BY <1>9
  <2>6. program' + Cardinality(Pending') <= MaxLoads
    BY ONLY <1>1, <1>4, <1>6, <1>7, <2>4, <2>5
  <2> QED BY <1>3, <2>6 DEF LoadsFit
<1> QED BY <1>8, <1>9

LEMMA LoadsBegin ==
  ASSUME HoldsInv, NEW c \in Caller, NEW call \in Requests, Begin(c, call)
  PROVE  LoadsFit'
<1>1. FreezeInv /\ LoadsFit /\ HeldTypes BY DEF HoldsInv, FreezeInv
<1>2. /\ doing[c] = Resting /\ doing' = [doing EXCEPT ![c] = [call EXCEPT !.at = "wait"]]
      /\ program' = program
      /\ call.op \in Loads => program + Cardinality(Loaders) < MaxLoads
  BY DEF Begin, machineVars, Loaders
<1>3. call \in HoldCall BY <1>1, RequestTypes
<1>4. /\ doing' \in [Caller -> HoldCall] /\ doing'[c].op = call.op /\ doing'[c].at = "wait"
      /\ \A u \in Caller \ {c} : doing'[u] = doing[u]
  <2>1. [call EXCEPT !.at = "wait"] \in HoldCall BY <1>3 DEF HoldCall
  <2> QED BY <1>1, <1>2, <1>3, <2>1 DEF HeldTypes, HoldCall
<1>5. ~ (doing[c].op \in Loads) BY <1>2, RestingTypes DEF Loads
<1>6. program \in Nat /\ MaxLoads \in Nat BY <1>1, HoldsAssumption DEF HeldTypes
<1>7. IsFiniteSet(Loaders) /\ program + Cardinality(Pending) <= MaxLoads BY <1>1 DEF LoadsFit
<1>8. /\ IsFiniteSet(Pending) /\ Cardinality(Pending) \in Nat /\ Cardinality(Loaders) \in Nat
      /\ Cardinality(Pending) <= Cardinality(Loaders)
  BY <1>7, PendingCounts
<1>9. CASE call.op \in Loads
  <2>1. Loaders' = Loaders \cup {c} BY <1>4, <1>9 DEF Loaders
  <2>2. Pending' = Pending \cup {c} BY <1>4, <1>9 DEF Pending, Coming
  <2>3. c \notin Pending BY <1>5 DEF Pending, Coming
  <2>4. IsFiniteSet(Loaders') BY <1>7, <2>1, FS_AddElement
  <2>5. Cardinality(Pending') = Cardinality(Pending) + 1 BY <1>8, <2>2, <2>3, FS_AddElement
  <2>6. program + Cardinality(Loaders) < MaxLoads BY <1>2, <1>9
  <2>7. program' = program BY <1>2
  <2>8. program' + Cardinality(Pending') <= MaxLoads
    BY ONLY <1>6, <1>8, <2>5, <2>6, <2>7
  <2> QED BY <2>4, <2>8 DEF LoadsFit
<1>10. CASE call.op \notin Loads
  <2>1. Loaders' = Loaders BY <1>4, <1>5, <1>10 DEF Loaders
  <2>2. Pending' = Pending BY <1>4, <1>5, <1>10 DEF Pending, Coming
  <2> QED BY <1>2, <1>7, <2>1, <2>2 DEF LoadsFit
<1> QED BY <1>9, <1>10

LEMMA FailOrReturn ==
  ASSUME HeldTypes, NEW c \in Caller, Fail(c)
  PROVE  doing'[c] = Resting \/ (doing[c].op = "sequence" /\ doing'[c].op = "sequence")
<1>1. CASE Return(c) BY <1>1, ReturnMoves
<1>2. CASE /\ doing[c].op = "sequence"
           /\ doing' = [doing EXCEPT ![c].at = "wait", ![c].phase = "unwind"]
  <2>1. doing'[c] = [doing[c] EXCEPT !.at = "wait", !.phase = "unwind"] /\ doing[c] \in HoldCall
    BY <1>2 DEF HeldTypes
  <2>2. doing'[c].op = doing[c].op
    BY ONLY SMTT(60), <2>1 DEF HoldCall
  <2> QED BY <1>2, <2>2
<1> QED BY <1>1, <1>2 DEF Fail, Unwind

\* What a command does to the machine.
LEMMA EffectTypes ==
  ASSUME FreezeInv, MachineTyped, NEW c \in Caller, Effect(doing[c])
  PROVE  memory' \in [Cell -> Datum \cup {Erased}] /\ pads' \subseteq Button
<1>1. /\ doing[c] \in HoldCall /\ SoundCall(doing[c])
      /\ memory \in [Cell -> Datum \cup {Erased}] /\ pads \subseteq Button
  BY DEF FreezeInv, HeldTypes, MachineTyped
<1>2. memory' \in [Cell -> Datum \cup {Erased}]
  <2>1. CASE doing[c].op = "freeze"
    <3>1. memory' = [memory EXCEPT ![doing[c].cell] = doing[c].datum]
      BY <2>1 DEF Effect, Loads
    <3> QED BY <1>1, <2>1, <3>1 DEF SoundCall
  <2>2. CASE doing[c].op \in Loads
    <3>1. memory' = [x \in Cell |-> Erased] BY <2>2 DEF Effect, Loads
    <3> QED BY <3>1
  <2>3. CASE doing[c].op # "freeze" /\ doing[c].op \notin Loads
    <3>1. memory' = memory BY <2>3 DEF Effect
    <3> QED BY <1>1, <3>1
  <2> QED BY <2>1, <2>2, <2>3
<1>3. pads' \subseteq Button
  <2>1. doing[c].buttons \subseteq Button BY <1>1 DEF HoldCall
  <2>2. CASE doing[c].op = "input"
    <3>1. pads' = Fold(pads, doing[c].buttons, doing[c].down) BY <2>2 DEF Effect, Loads
    <3> QED BY <1>1, <2>1, <3>1 DEF Fold
  <2>3. CASE doing[c].op = "sequence"
    <3>1. doing[c].steps \in Seq(Button) /\ doing[c].steps # <<>>
      BY <1>1, <2>3 DEF HoldCall, SoundCall
    <3>2. Head(doing[c].steps) \in Button BY <3>1, HeadTailProperties
    <3>3. \/ pads' = pads \cup {Head(doing[c].steps)} \/ pads' = pads \ {Head(doing[c].steps)}
          \/ pads' = pads
      <4>1. CASE doing[c].phase = "press" BY <2>3, <4>1 DEF Effect, Loads
      <4>2. CASE doing[c].phase \in {"release", "unwind"} BY <2>3, <4>2 DEF Effect, Loads
      <4>3. CASE doing[c].phase \notin {"press", "release", "unwind"} BY <2>3, <4>3 DEF Effect, Loads
      <4> QED BY <4>1, <4>2, <4>3
    <3> QED BY <1>1, <3>2, <3>3
  <2>4. CASE doing[c].op \in Loads
    <3>1. pads' = {} BY <2>4 DEF Effect, Loads
    <3> QED BY <3>1
  <2>5. CASE doing[c].op \notin {"input", "sequence"} \cup Loads
    <3>1. pads' = pads BY <2>5 DEF Effect
    <3> QED BY <1>1, <3>1
  <2> QED BY <2>2, <2>3, <2>4, <2>5
<1> QED BY <1>2, <1>3

LEMMA AdmitLoads ==
  ASSUME HoldsInv, NEW c \in Caller, Admit(c)
  PROVE  LoadsFit'
<1>1. /\ FreezeInv /\ LoadsFit /\ HeldTypes /\ doing \in [Caller -> HoldCall] /\ doing[c].at = "wait"
  BY DEF HoldsInv, FreezeInv, HeldTypes, Admit
<1>2. program' = program BY DEF Admit, machineVars
<1>3. CASE \E at \in {"native", "commit"} : doing' = [doing EXCEPT ![c].at = at]
  <2>1. PICK at \in {"native", "commit"} : doing' = [doing EXCEPT ![c].at = at] BY <1>3
  <2>2. doing'[c] = [doing[c] EXCEPT !.at = at] /\ doing[c] \in HoldCall BY <1>1, <2>1
  <2>3. doing'[c].op = doing[c].op BY <2>2 DEF HoldCall
  <2>4. Coming(c)' => Coming(c) BY <1>1, <2>3 DEF Coming
  <2>5. \A u \in Caller \ {c} : doing'[u] = doing[u] BY <1>1, <2>1
  <2> QED BY <1>1, <1>2, <2>3, <2>4, <2>5, LoadsGoOn
<1>4. CASE Fail(c)
  <2>1. OneMoves(c) BY <1>1, <1>4, FailMoves
  <2>2. doing'[c].op \notin Loads BY <1>1, <1>4, FailOrReturn, RestingTypes DEF Loads
  <2>3. \A u \in Caller \ {c} : doing'[u] = doing[u] BY <2>1 DEF OneMoves
  <2>4. ~ Coming(c)' BY <2>2 DEF Coming
  <2> QED BY <1>1, <1>2, <2>2, <2>3, <2>4, LoadsGoOn
<1> QED BY <1>3, <1>4 DEF Admit

\* A command that was answered, or that failed and may have landed.
LEMMA NativeLoads ==
  ASSUME HoldsInv, NEW c \in Caller, Answered(c) \/ Failed(c)
  PROVE  LoadsFit'
<1>1. /\ FreezeInv /\ LoadsFit /\ HeldTypes /\ doing \in [Caller -> HoldCall] /\ doing[c].at = "native"
  BY DEF HoldsInv, FreezeInv, HeldTypes, Answered, Failed
<1>2. program' = program \/ (program' = program + 1 /\ Coming(c))
  <2>1. Effect(doing[c]) \/ UNCHANGED machineVars BY DEF Answered, Failed
  <2>2. CASE UNCHANGED machineVars BY <2>2 DEF machineVars
  <2>3. CASE Effect(doing[c])
    <3>1. doing[c].op \in Loads => Coming(c) BY <1>1 DEF Coming
    <3> QED BY <2>3, <3>1 DEF Effect
  <2> QED BY <2>1, <2>2, <2>3
<1>3. CASE Answered(c)
  <2>1. doing' = [doing EXCEPT ![c].at = "commit"] BY <1>3 DEF Answered
  <2>2. doing'[c] = [doing[c] EXCEPT !.at = "commit"] /\ doing[c] \in HoldCall BY <1>1, <2>1
  <2>3. doing'[c].op = doing[c].op /\ doing'[c].at = "commit" BY <2>2 DEF HoldCall
  <2>4. ~ Coming(c)' BY <2>3 DEF Coming
  <2>5. \A u \in Caller \ {c} : doing'[u] = doing[u] BY <1>1, <2>1
  <2> QED BY <1>1, <1>2, <2>3, <2>4, <2>5, LoadsGoOn
<1>4. CASE Failed(c)
  <2>0. Fail(c) BY <1>4 DEF Failed
  <2>1. OneMoves(c) BY <1>1, <2>0, FailMoves
  <2>2. doing'[c].op \notin Loads BY <1>1, <2>0, FailOrReturn, RestingTypes DEF Loads
  <2>3. \A u \in Caller \ {c} : doing'[u] = doing[u] BY <2>1 DEF OneMoves
  <2>4. ~ Coming(c)' BY <2>2 DEF Coming
  <2> QED BY <1>1, <1>2, <2>2, <2>3, <2>4, LoadsGoOn
<1> QED BY <1>3, <1>4

\* What follows the command loads nothing.
LEMMA AfterLoads ==
  ASSUME HoldsInv, NEW c \in Caller, Commit(c) \/ ReadLedger(c) \/ Settle(c)
  PROVE  LoadsFit'
<1>1. /\ FreezeInv /\ LoadsFit /\ HeldTypes /\ doing \in [Caller -> HoldCall]
      /\ doing[c] \in HoldCall /\ SoundCall(doing[c])
  BY DEF HoldsInv, FreezeInv, HeldTypes
<1>2. program' = program BY DEF Commit, ReadLedger, Settle, machineVars
<1>3. CASE Return(c)
  <2>1. OneMoves(c) /\ doing'[c] = Resting BY <1>1, <1>3, ReturnMoves
  <2>2. doing'[c].op \notin Loads BY <2>1, RestingTypes DEF Loads
  <2>3. \A u \in Caller \ {c} : doing'[u] = doing[u] BY <2>1 DEF OneMoves
  <2>4. ~ Coming(c)' BY <2>2 DEF Coming
  <2> QED BY <1>1, <1>2, <2>2, <2>3, <2>4, LoadsGoOn
<1>4. CASE /\ doing[c].op = "sequence" /\ doing' = [doing EXCEPT ![c] = NextPhase(doing[c])]
  <2>1. doing'[c] = NextPhase(doing[c]) BY <1>1, <1>4
  <2>2. doing[c].steps # <<>> BY <1>1, <1>4 DEF SoundCall
  <2>3. doing'[c].op = "sequence" BY <1>1, <1>4, <2>1, <2>2, PhaseTypes
  <2>4. doing'[c].op \notin Loads BY <2>3 DEF Loads
  <2>5. ~ Coming(c)' BY <2>4 DEF Coming
  <2>6. \A u \in Caller \ {c} : doing'[u] = doing[u] BY <1>1, <1>4
  <2> QED BY <1>1, <1>2, <2>4, <2>5, <2>6, LoadsGoOn
<1>5. CASE doing' = [doing EXCEPT ![c].at = "after"]
  <2>1. doing'[c] = [doing[c] EXCEPT !.at = "after"] BY <1>1, <1>5
  <2>2. doing'[c].op = doing[c].op /\ doing'[c].at = "after" BY <1>1, <2>1 DEF HoldCall
  <2>3. ~ Coming(c)' BY <2>2 DEF Coming
  <2>4. \A u \in Caller \ {c} : doing'[u] = doing[u] BY <1>1, <1>5
  <2> QED BY <1>1, <1>2, <2>2, <2>3, <2>4, LoadsGoOn
<1>6. CASE ReadLedger(c)
  <2>1. doing' = [doing EXCEPT ![c].at = "record", ![c].held = Commanded, ![c].id = revision]
    BY <1>6 DEF ReadLedger
  <2>2. doing'[c] = [doing[c] EXCEPT !.at = "record", !.held = Commanded, !.id = revision]
    BY <1>1, <2>1
  <2>3. doing'[c].op = doing[c].op /\ doing'[c].at = "record" BY <1>1, <2>2 DEF HoldCall
  <2>4. ~ Coming(c)' BY <2>3 DEF Coming
  <2>5. \A u \in Caller \ {c} : doing'[u] = doing[u] BY <1>1, <2>1
  <2> QED BY <1>1, <1>2, <2>3, <2>4, <2>5, LoadsGoOn
<1> QED BY <1>3, <1>4, <1>5, <1>6 DEF Commit, Settle

LEMMA ExpireLoads ==
  ASSUME HoldsInv, ExpireControl
  PROVE  LoadsFit'
<1>1. /\ FreezeInv /\ LoadsFit /\ doing \in [Caller -> HoldCall] /\ control \in Caller
      /\ doing' = [doing EXCEPT ![control].clean = FALSE] /\ program' = program
  BY DEF HoldsInv, FreezeInv, HeldTypes, ExpireControl, machineVars
<1>2. PICK c \in Caller : c = control BY <1>1
<1>3. doing'[c] = [doing[c] EXCEPT !.clean = FALSE] /\ doing[c] \in HoldCall BY <1>1, <1>2
<1>4. doing'[c].op = doing[c].op /\ doing'[c].at = doing[c].at BY <1>3 DEF HoldCall
<1>5. Coming(c)' => Coming(c) BY <1>4 DEF Coming
<1>6. \A u \in Caller \ {c} : doing'[u] = doing[u] BY <1>1, <1>2
<1> QED BY <1>1, <1>4, <1>5, <1>6, LoadsGoOn

LEMMA HoldsStep == ASSUME HoldsInv, [HoldsNext]_holdVars, FreezeInv' PROVE HoldsInv'
<1> USE DEF HoldsInv
<1>1. ASSUME NEW c \in Caller, NEW call \in Requests, Begin(c, call) PROVE HoldsInv'
  <2>1. UNCHANGED <<sweep, memory, pads, scheduler>> BY <1>1 DEF Begin, machineVars
  <2>2. MachineTyped' BY <2>1 DEF MachineTyped
  <2> QED BY <1>1, <2>2, LoadsBegin
<1>2. ASSUME NEW c \in Caller, CallerStep(c) PROVE HoldsInv'
  <2>1. CASE Admit(c)
    <3>1. UNCHANGED <<sweep, memory, pads>> /\ scheduler' \in {c, scheduler}
      BY <2>1 DEF Admit, machineVars
    <3>2. MachineTyped' BY <3>1 DEF MachineTyped
    <3> QED BY <2>1, <3>2, AdmitLoads
  <2>2. CASE Answered(c) \/ Failed(c)
    <3>1. Effect(doing[c]) \/ UNCHANGED <<memory, pads>> BY <2>2 DEF Answered, Failed, machineVars
    <3>2. memory' \in [Cell -> Datum \cup {Erased}] /\ pads' \subseteq Button
      BY <3>1, EffectTypes DEF MachineTyped
    <3>3. UNCHANGED sweep /\ scheduler' \in {Nothing, scheduler} BY <2>2 DEF Answered, Failed
    <3>4. MachineTyped' BY <3>2, <3>3 DEF MachineTyped
    <3> QED BY <2>2, <3>4, NativeLoads
  <2>3. CASE Commit(c) \/ ReadLedger(c) \/ Settle(c)
    <3>1. UNCHANGED <<sweep, memory, pads>> /\ scheduler' \in {Nothing, scheduler}
      BY <2>3 DEF Commit, ReadLedger, Settle, machineVars
    <3>2. MachineTyped' BY <3>1 DEF MachineTyped
    <3> QED BY <2>3, <3>2, AfterLoads
  <2> QED BY <1>2, <2>1, <2>2, <2>3 DEF CallerStep
<1>3. ASSUME UNCHANGED <<doing, program>>, MachineTyped' PROVE HoldsInv'
  <2>1. Loaders' = Loaders /\ Pending' = Pending BY <1>3 DEF Loaders, Pending, Coming
  <2> QED BY <1>3, <2>1 DEF LoadsFit
<1>4. CASE CopyFreezes
  <2>1. /\ sweep' = freezes /\ UNCHANGED <<memory, pads, scheduler, doing, program>>
    BY <1>4 DEF CopyFreezes, machineVars
  <2>2. MachineTyped' BY <2>1 DEF MachineTyped, FreezeInv, HeldTypes
  <2> QED BY <1>3, <2>1, <2>2
<1>5. CASE WriteFreeze
  <2>1. /\ sweep # <<>> /\ sweep' = Tail(sweep) /\ UNCHANGED <<pads, scheduler, doing, program>>
        /\ memory' = [memory EXCEPT ![Head(sweep).cell] = Head(sweep).datum] \/ memory' = memory
    BY <1>5 DEF WriteFreeze
  <2>2. sweep \in Seq(Entry) BY DEF MachineTyped
  <2>3. Head(sweep) \in Entry /\ Tail(sweep) \in Seq(Entry) BY <2>1, <2>2, HeadTailProperties
  <2>4. Head(sweep).datum \in Datum BY <2>3 DEF Entry
  <2>5. MachineTyped' BY <2>1, <2>3, <2>4 DEF MachineTyped
  <2> QED BY <1>3, <2>1, <2>5
<1>6. ASSUME NEW cell \in Cell, Emulate(cell) PROVE HoldsInv'
  <2>1. /\ memory' = [memory EXCEPT ![cell] = Erased]
        /\ UNCHANGED <<sweep, pads, scheduler, doing, program>>
    BY <1>6 DEF Emulate
  <2>2. MachineTyped' BY <2>1 DEF MachineTyped
  <2> QED BY <1>3, <2>1, <2>2
<1>7. CASE ExpireControl
  <2>1. UNCHANGED <<sweep, memory, pads, scheduler>> BY <1>7 DEF ExpireControl, machineVars
  <2>2. MachineTyped' BY <2>1 DEF MachineTyped
  <2> QED BY <1>7, <2>2, ExpireLoads
<1>8. CASE UNCHANGED holdVars
  <2>1. UNCHANGED <<sweep, memory, pads, scheduler, doing, program>> BY <1>8 DEF holdVars
  <2>2. MachineTyped' BY <2>1 DEF MachineTyped
  <2> QED BY <1>3, <2>1, <2>2
<1> QED BY <1>1, <1>2, <1>4, <1>5, <1>6, <1>7, <1>8 DEF HoldsNext

\* What is held is well typed, and no more programs are loaded than the bound allows: a load
\* begun keeps its place (freeze.go:40-140, input_ledger.go:20-140).
THEOREM HoldsAreTyped == HoldsSpec => []HoldsTypeOK
<1>1. HoldsInit => LoadsFit /\ MachineTyped
  <2> SUFFICES ASSUME HoldsInit PROVE LoadsFit /\ MachineTyped OBVIOUS
  <2>1. /\ sweep = <<>> /\ memory = [c \in Cell |-> Erased] /\ pads = {} /\ program = 0
        /\ scheduler = Nothing /\ \A c \in Caller : doing[c] = Resting
    BY DEF HoldsInit
  <2>2. <<>> \in Seq(Entry) BY EmptySeq
  <2>3. MachineTyped BY <2>1, <2>2 DEF MachineTyped
  <2>4. Loaders = {} /\ Pending = {}
    BY <2>1, RestingTypes DEF Loaders, Pending, Coming, Loads
  <2>5. IsFiniteSet(Loaders) /\ Cardinality(Pending) = 0 BY <2>4, FS_EmptySet
  <2>6. LoadsFit BY <2>1, <2>5, HoldsAssumption DEF LoadsFit
  <2> QED BY <2>3, <2>6
<1>2. HoldsInv => HoldsTypeOK
  <2> SUFFICES ASSUME HoldsInv PROVE HoldsTypeOK OBVIOUS
  <2>1. FreezeInv /\ HeldTypes /\ LoadsFit /\ MachineTyped BY DEF HoldsInv, FreezeInv
  <2>2. program \in 0 .. MaxLoads
    <3>1. Cardinality(Pending) \in Nat BY <2>1, PendingCounts DEF LoadsFit
    <3>2. program \in Nat /\ MaxLoads \in Nat BY <2>1, HoldsAssumption DEF HeldTypes
    <3>3. program + Cardinality(Pending) <= MaxLoads BY <2>1 DEF LoadsFit
    <3> QED BY ONLY <3>1, <3>2, <3>3
  <2> QED BY <2>1, <2>2 DEF HeldTypes, MachineTyped, HoldsTypeOK
<1>3. LoadsFit /\ MachineTyped /\ FreezeInv /\ FreezeInv' /\ [HoldsNext]_holdVars
        => (LoadsFit /\ MachineTyped)'
  BY HoldsStep DEF HoldsInv
<1>4. FreezeInv /\ LoadsFit /\ MachineTyped => HoldsTypeOK BY <1>2 DEF HoldsInv
<1> QED BY <1>1, <1>3, <1>4, FreezeInductive, PTL DEF HoldsSpec

-----------------------------------------------------------------------------
(***************************************************************************)
(* The tools together. A behaviour in which one tool works and the others  *)
(* are at rest is a behaviour of every tool.                               *)
(***************************************************************************)
LEMMA OneIsOfThem == ASSUME NEW name, NEW values, values # {} PROVE One(name, values) \subseteq values
BY DEF One

LEMMA ToolsBegin ==
  Init => /\ ListingsInit /\ HoldsInit /\ ReplayInit
          /\ ExperimentInit /\ SearchesInit /\ TraceCaptureInit
<1> SUFFICES ASSUME Init PROVE /\ ListingsInit /\ HoldsInit /\ ReplayInit
                               /\ ExperimentInit /\ SearchesInit /\ TraceCaptureInit
  OBVIOUS
<1>1. Stream # {} /\ BOOLEAN # {} /\ Codes # {} BY TraceCaptureAssumption DEF Stream
<1>2. ListingsInit BY <1>1, OneIsOfThem DEF Init, ListingsInit
<1>3. ReplayInit BY <1>1, OneIsOfThem DEF Init, ReplayInit
<1>4. TraceCaptureInit BY <1>1, OneIsOfThem DEF Init, TraceCaptureInit
<1>5. HoldsInit /\ ExperimentInit /\ SearchesInit BY DEF Init, ExperimentInit, SearchesInit
<1> QED BY <1>2, <1>3, <1>4, <1>5

LEMMA ToolsStepAlone ==
  [Next]_<<tool, listingVars, holdVars, replayVars, experimentVars, searchVars, captureVars>> =>
    /\ [ListingsNext]_listingVars /\ [HoldsNext]_holdVars /\ [ReplayNext]_replayVars
    /\ [ExperimentNext]_experimentVars /\ [SearchesNext]_searchVars /\ [TraceCaptureNext]_captureVars
BY DEF Next

LEMMA EachToolRuns ==
  Spec => /\ ListingsSpec /\ HoldsSpec /\ ReplaySpec
          /\ ExperimentSpec /\ SearchesSpec /\ TraceCaptureSpec
BY ToolsBegin, ToolsStepAlone, PTL
DEF Spec, ListingsSpec, HoldsSpec, ReplaySpec, ExperimentSpec, SearchesSpec, TraceCaptureSpec

(***************************************************************************)
(* Every tool keeps its types, at its own steps and at those of the others.*)
(***************************************************************************)
THEOREM ToolsAreTyped == Spec => []ToolsTypeOK
BY EachToolRuns, ListingsAreTyped, HoldsAreTyped, ReplayIsTyped, ExperimentsAreTyped,
   SearchesAreTyped, TraceCapturesAreTyped, PTL DEF ToolsTypeOK

=============================================================================
