-------------------------- MODULE DebugStopsProofs --------------------------
(***************************************************************************)
(* Debug instruments and their stops, for any number of callers,           *)
(* instruments, calls and hits: type correctness, the truth of what the    *)
(* sweeps record and of what a run_until answers, and the window's         *)
(* ownership of its one-shot instrument.                                   *)
(***************************************************************************)
EXTENDS DebugStops, WellFoundedInduction, TLAPS

PcStep == {"idle", "set", "track", "control", "note", "remove", "ask", "list", "metas",
           "sweep", "push", "away", "observe", "judge", "reply"}

\* The snapshots a sweep works on: hit counters and provenance, by instrument.
Counters == UNION {[S -> Nat] : S \in SUBSET Instrument}
Provenance == UNION {[S -> Meta] : S \in SUBSET Instrument}

CallType == [tool : Tool \cup {"none"}, serial : 0..MaxCalls, id : Instrument \cup {None},
             oneShot : BOOLEAN, answer : RunStates \cup {"unknown"},
             scan : {{}, Breakpoint, Watchpoint}, listed : Counters, metas : Provenance,
             outcome : {"none", "failed", "hit", "preempted", "timeout"},
             removal : {"none", "removed", "failed"}]

Shape ==
  /\ TrackerTypeOK(Instrument)
  /\ running \in BOOLEAN
  /\ armed \subseteq Instrument
  /\ every \in [Instrument -> Every \cup {0, 1}]
  /\ hits \in [Instrument -> Nat]
  /\ fired \in [Instrument -> SUBSET Nat]
  /\ events \in [Instrument -> Seq(Nat)]
  /\ managed \in Provenance
  /\ lock \in 0..MaxCalls /\ calls \in 0..MaxCalls
  /\ pc \in [Thread -> PcStep]
  /\ call \in [Thread -> CallType]

\* The machine's side. A counter's multiples of the break counter are exactly the
\* stops, and an instrument that was never set has none.
Counted ==
  \A i \in Instrument :
    /\ hits[i] <= MaxStops * every[i]
    /\ fired[i] \subseteq 1 .. hits[i]
    /\ \A h \in 1 .. hits[i] : h % every[i] = 0 => h \in fired[i]
    /\ i \in armed \cup DOMAIN managed => every[i] # 0
    /\ i \in DOMAIN managed => managed[i].every = every[i]

\* The locals w of a call that is about to take step s.
Local(s, w) ==
  /\ w.tool = "none" <=> s = "idle"
  /\ w.tool # "until" => s \notin {"judge", "reply"}
  /\ w.tool = "set" => s \in {"set", "track"}
  /\ s \in {"set", "track"} => w.tool \in {"set", "until"}
  /\ s = "track" => w.id # None
  /\ w.tool = "until" /\ s \notin {"set", "reply"} => w.id # None
  /\ s = "set" => w.id = None

\* What those locals say of a machine with these break counters e, hit counters h,
\* stops f and armed instruments a. The lists of a sweep may be old: they are true
\* still, because counters grow and break counters never change.
Facts(s, w, e, h, f, a) ==
  /\ w.id # None => e[w.id] # 0
  /\ \A i \in DOMAIN w.listed : w.listed[i] <= h[i]
  /\ \A i \in DOMAIN w.metas : w.metas[i].every = e[i]
  /\ s \in {"push", "away"} =>
       LET i == Min(DOMAIN w.metas) IN
       /\ i \in DOMAIN w.metas \cap DOMAIN w.listed
       /\ FiredProof(w.listed[i], w.metas[i].every)
       /\ s = "away" => SweepsAway(w.metas[i])
  /\ w.outcome = "hit" => w.id # None /\ f[w.id] # {}
  /\ w.removal = "removed" => w.id # None /\ w.id \notin a

True(s, w) == Facts(s, w, every, hits, fired, armed)

Believed ==
  /\ \A t \in Thread : Local(pc[t], call[t]) /\ True(pc[t], call[t])
  /\ stop # None => fired[stop] # {}
  /\ \A i \in Instrument : \A k \in DOMAIN events[i] : events[i][k] \in fired[i]

\* The instrument a call has set is its own, and the provenance of one a window
\* waits for defers its removal, wherever a copy of it may be.
Owns(t) == call[t].tool \in {"set", "until"}

Owned ==
  /\ \A t, u \in Thread : t # u /\ Owns(t) /\ Owns(u) /\ call[t].id # None => call[t].id # call[u].id
  /\ \A t \in Thread : Waits(t) =>
       /\ call[t].id \in DOMAIN managed => managed[call[t].id].defer
       /\ \A u \in Thread : call[t].id \in DOMAIN call[u].metas => call[u].metas[call[t].id].defer

StopsInv == Shape /\ Counted /\ Believed /\ Owned

-----------------------------------------------------------------------------
(* Data.                                                                    *)

LEMMA NatMin ==
  ASSUME NEW S \in SUBSET Nat, S # {}
  PROVE  Min(S) \in S
<1>1. \E m \in S : \A x \in S : ~(<<x, m>> \in OpToRel(<, Nat))
  BY NatLessThanWellFounded, WFMin
<1>2. PICK m \in S : \A x \in S : ~(x < m)
  BY <1>1 DEF OpToRel
<1>3. \A x \in S : m <= x
  BY <1>2
<1> QED
  BY <1>3 DEF Min

LEMMA CountersAre ==
  ASSUME NEW f
  PROVE  f \in Counters <=> DOMAIN f \subseteq Instrument /\ f \in [DOMAIN f -> Nat]
BY DEF Counters

LEMMA ProvenanceIs ==
  ASSUME NEW f
  PROVE  f \in Provenance <=> DOMAIN f \subseteq Instrument /\ f \in [DOMAIN f -> Meta]
BY DEF Provenance

LEMMA NothingListed == <<>> \in Counters /\ <<>> \in Provenance /\ DOMAIN <<>> = {}
<1>1. DOMAIN <<>> = {}
  OBVIOUS
<1>2. <<>> \in [{} -> Nat] /\ <<>> \in [{} -> Meta]
  OBVIOUS
<1> QED
  BY <1>1, <1>2 DEF Counters, Provenance

LEMMA Constants ==
  /\ Instrument \subseteq Nat /\ None \notin Instrument /\ None \notin Thread
  /\ MaxCalls \in Nat /\ MaxStops \in Nat /\ Every \subseteq Nat /\ 0 \notin Every
BY BoundsAssumption, OrderAssumption DEF Instrument

\* What every leaf needs of the types.
LEMMA Types ==
  ASSUME Shape
  PROVE  /\ pc \in [Thread -> PcStep] /\ call \in [Thread -> CallType]
         /\ DOMAIN managed \subseteq Instrument /\ \A i \in DOMAIN managed : managed[i] \in Meta
         /\ \A t \in Thread :
              /\ DOMAIN call[t].listed \subseteq Instrument
              /\ \A i \in DOMAIN call[t].listed : call[t].listed[i] \in Nat
              /\ DOMAIN call[t].metas \subseteq Instrument
              /\ \A i \in DOMAIN call[t].metas : call[t].metas[i] \in Meta
<1>1. pc \in [Thread -> PcStep] /\ call \in [Thread -> CallType] /\ managed \in Provenance
  BY DEF Shape
<1>2. \A t \in Thread : call[t].listed \in Counters /\ call[t].metas \in Provenance
  BY <1>1 DEF CallType
<1>3. DOMAIN managed \subseteq Instrument /\ \A i \in DOMAIN managed : managed[i] \in Meta
  BY <1>1, ProvenanceIs
<1>4. ASSUME NEW t \in Thread
      PROVE  /\ DOMAIN call[t].listed \subseteq Instrument
             /\ \A i \in DOMAIN call[t].listed : call[t].listed[i] \in Nat
             /\ DOMAIN call[t].metas \subseteq Instrument
             /\ \A i \in DOMAIN call[t].metas : call[t].metas[i] \in Meta
  BY <1>2, CountersAre, ProvenanceIs
<1> QED
  BY <1>1, <1>3, <1>4

LEMMA NoCallType == NoCall \in CallType
<1>1. {} \in {{}, Breakpoint, Watchpoint} /\ 0 \in 0..MaxCalls
  BY Constants
<1> QED
  BY <1>1, NothingListed DEF NoCall, CallType, Tool, RunStates

-----------------------------------------------------------------------------
(* What a step does to the call that takes it.                              *)

Acts(t) == StartUntil(t) \/ Start(t) \/ Step(t) \/ JudgeLate(t)

\* Only the call of t moves: it goes to step s with the locals w.
Moves(t, s, w) ==
  /\ pc' \in [Thread -> PcStep] /\ call' \in [Thread -> CallType]
  /\ s \in PcStep /\ w \in CallType
  /\ pc'[t] = s /\ call'[t] = w
  /\ \A u \in Thread \ {t} : call'[u] = call[u] /\ pc'[u] = pc[u]

LEMMA Update ==
  ASSUME Shape, NEW t \in Thread, NEW s \in PcStep, NEW w \in CallType,
         call' = [call EXCEPT ![t] = w], pc' = [pc EXCEPT ![t] = s]
  PROVE  Moves(t, s, w)
BY DEF Moves, Shape

LEMMA Stays ==
  ASSUME Shape, NEW t \in Thread, NEW s \in PcStep, call' = call, pc' = [pc EXCEPT ![t] = s]
  PROVE  Moves(t, s, call[t])
<1>1. call' = [call EXCEPT ![t] = call[t]] /\ call[t] \in CallType
  BY DEF Shape
<1> QED
  BY <1>1, Update

LEMMA CallUpdates ==
  ASSUME NEW w \in CallType
  PROVE  /\ \A a \in RunStates \cup {"unknown"} : [w EXCEPT !.answer = a] \in CallType
         /\ \A a \in RunStates : [w EXCEPT !.answer = a, !.scan = Breakpoint] \in CallType
         /\ \A o \in {"failed", "hit", "preempted", "timeout"} :
              /\ [w EXCEPT !.outcome = o] \in CallType
              /\ [w EXCEPT !.outcome = o, !.answer = "unknown"] \in CallType
         /\ \A r \in {"removed", "failed"} : [w EXCEPT !.removal = r] \in CallType
         /\ \A i \in Instrument : [w EXCEPT !.id = i] \in CallType
         /\ \A c \in {{}, Watchpoint} :
              [w EXCEPT !.scan = c, !.listed = <<>>, !.metas = <<>>] \in CallType
         /\ \A f \in Counters : [w EXCEPT !.listed = f] \in CallType
         /\ \A f \in Provenance : [w EXCEPT !.metas = f] \in CallType
BY NothingListed, ZenonT(60) DEF CallType

LEMMA FinishMoves ==
  ASSUME Shape, NEW t \in Thread, Finish(t)
  PROVE  Moves(t, "idle", NoCall)
<1>1. "idle" \in PcStep
  BY DEF PcStep
<1> QED
  BY <1>1, NoCallType, Update DEF Finish, Goto

LEMMA StartUntilMoves ==
  ASSUME Shape, NEW t \in Thread, StartUntil(t)
  PROVE  \E n \in 0..MaxCalls :
           Moves(t, "set", [NoCall EXCEPT !.tool = "until", !.serial = n, !.oneShot = TRUE])
<1>1. calls + 1 \in 0..MaxCalls
  BY Constants DEF Shape, StartUntil
<1>2. \A n \in 0..MaxCalls :
        [NoCall EXCEPT !.tool = "until", !.serial = n, !.oneShot = TRUE] \in CallType
  BY NoCallType DEF CallType, Tool
<1>3. "set" \in PcStep
  BY DEF PcStep
<1>4. /\ call' = [call EXCEPT ![t] = [NoCall EXCEPT !.tool = "until", !.serial = calls + 1,
                                                    !.oneShot = TRUE]]
      /\ pc' = [pc EXCEPT ![t] = "set"]
  BY DEF StartUntil, Goto
<1>5. Moves(t, "set", [NoCall EXCEPT !.tool = "until", !.serial = calls + 1, !.oneShot = TRUE])
  BY <1>1, <1>2, <1>3, <1>4, Update
<1> QED
  BY <1>1, <1>5

LEMMA StartMoves ==
  ASSUME Shape, NEW t \in Thread, Start(t)
  PROVE  \E tool \in Tool \ {"until"}, oneShot \in BOOLEAN, i \in DOMAIN managed \cup {None} :
           /\ tool = "remove" <=> i # None
           /\ Moves(t, FirstStep(tool), [NoCall EXCEPT !.tool = tool, !.oneShot = oneShot, !.id = i])
<1>1. PICK tool \in Tool \ {"until"}, oneShot \in BOOLEAN, i \in DOMAIN managed \cup {None} :
        /\ tool = "remove" <=> i # None
        /\ call' = [call EXCEPT ![t] = [NoCall EXCEPT !.tool = tool, !.oneShot = oneShot, !.id = i]]
        /\ pc' = [pc EXCEPT ![t] = FirstStep(tool)]
  BY DEF Start, Goto
<1>2. FirstStep(tool) \in PcStep
  BY DEF FirstStep, PcStep, Tool
<1>3. i \in Instrument \cup {None}
  BY Types
<1>4. [NoCall EXCEPT !.tool = tool, !.oneShot = oneShot, !.id = i] \in CallType
  BY <1>3, NoCallType DEF CallType
<1>5. Moves(t, FirstStep(tool), [NoCall EXCEPT !.tool = tool, !.oneShot = oneShot, !.id = i])
  BY <1>1, <1>2, <1>4, Update
<1> QED
  BY <1>1, <1>5

\* An until that cannot set its instrument, or run, goes to its end; another tool
\* has ended.
Fails(t, step) ==
  \/ /\ call[t].tool = "until"
     /\ Moves(t, step, [call[t] EXCEPT !.outcome = "failed"])
  \/ call[t].tool # "until" /\ Moves(t, "idle", NoCall)

LEMMA FailMoves ==
  ASSUME Shape, NEW t \in Thread, NEW step \in PcStep,
         IF call[t].tool = "until"
         THEN Goto(t, step) /\ call' = [call EXCEPT ![t].outcome = "failed"]
         ELSE Finish(t)
  PROVE  Fails(t, step)
<1>1. CASE call[t].tool = "until"
  <2>1. [call[t] EXCEPT !.outcome = "failed"] \in CallType
    BY Types, CallUpdates
  <2>2. /\ call' = [call EXCEPT ![t] = [call[t] EXCEPT !.outcome = "failed"]]
        /\ pc' = [pc EXCEPT ![t] = step]
    BY <1>1, Types DEF Goto
  <2> QED
    BY <1>1, <2>1, <2>2, Update DEF Fails
<1>2. CASE call[t].tool # "until"
  BY <1>2, FinishMoves DEF Fails
<1> QED
  BY <1>1, <1>2

LEMMA SetMoves ==
  ASSUME Shape, NEW t \in Thread, Set(t)
  PROVE  \E i \in Fresh, n \in Every \cup {1} :
           /\ armed' = armed \cup {i} /\ every' = [every EXCEPT ![i] = n]
           /\ i \in Instrument => Moves(t, "track", [call[t] EXCEPT !.id = i]) \/ Fails(t, "reply")
<1>1. PICK i \in Fresh, n \in Every \cup {1}, answered \in BOOLEAN :
        /\ armed' = armed \cup {i} /\ every' = [every EXCEPT ![i] = n]
        /\ IF answered THEN Goto(t, "track") /\ call' = [call EXCEPT ![t].id = i]
           ELSE IF call[t].tool = "until"
           THEN Goto(t, "reply") /\ call' = [call EXCEPT ![t].outcome = "failed"]
           ELSE Finish(t)
  BY DEF Set
<1>2. {"track", "reply"} \subseteq PcStep
  BY DEF PcStep
<1>3. ASSUME i \in Instrument, answered PROVE Moves(t, "track", [call[t] EXCEPT !.id = i])
  <2>1. [call[t] EXCEPT !.id = i] \in CallType
    BY <1>3, Types, CallUpdates
  <2>2. call' = [call EXCEPT ![t] = [call[t] EXCEPT !.id = i]] /\ pc' = [pc EXCEPT ![t] = "track"]
    BY <1>1, <1>3, Types DEF Goto
  <2> QED
    BY <1>2, <2>1, <2>2, Update
<1>4. ASSUME ~answered PROVE Fails(t, "reply")
  BY <1>1, <1>2, <1>4, FailMoves
<1> QED
  BY <1>1, <1>3, <1>4

LEMMA SetFailsMoves ==
  ASSUME Shape, NEW t \in Thread, SetFails(t)
  PROVE  Fails(t, "reply")
BY FailMoves DEF SetFails, PcStep

LEMMA TrackMoves ==
  ASSUME Shape, NEW t \in Thread, Track(t)
  PROVE  \/ call[t].tool = "until" /\ Moves(t, "control", call[t])
         \/ call[t].tool # "until" /\ Moves(t, "idle", NoCall)
<1>1. CASE call[t].tool = "until"
  BY <1>1, Stays DEF Track, Goto, PcStep
<1>2. CASE call[t].tool # "until"
  BY <1>2, FinishMoves DEF Track
<1> QED
  BY <1>1, <1>2

LEMMA ControlMoves ==
  ASSUME Shape, NEW t \in Thread, Control(t)
  PROVE  /\ \E a \in RunStates : Moves(t, "note", [call[t] EXCEPT !.answer = a])
         /\ running' \in BOOLEAN
<1>1. running' \in BOOLEAN
  BY DEF Control
<1>2. PICK a \in RunStates : a = Label(running')
  BY DEF Label, RunStates
<1>3. [call[t] EXCEPT !.answer = a] \in CallType
  BY Types, CallUpdates
<1>4. call' = [call EXCEPT ![t] = [call[t] EXCEPT !.answer = a]] /\ pc' = [pc EXCEPT ![t] = "note"]
  BY <1>2, Types DEF Control, Goto
<1>5. "note" \in PcStep
  BY DEF PcStep
<1> QED
  BY <1>1, <1>3, <1>4, <1>5, Update

LEMMA ControlFailsMoves ==
  ASSUME Shape, NEW t \in Thread, ControlFails(t)
  PROVE  Fails(t, "remove") /\ running' \in BOOLEAN /\ armed' \subseteq armed
<1>1. running' \in BOOLEAN /\ armed' \subseteq armed
  BY DEF ControlFails, Shape
<1>2. Fails(t, "remove")
  BY FailMoves DEF ControlFails, PcStep
<1> QED
  BY <1>1, <1>2

LEMMA AskFailsMoves ==
  ASSUME Shape, NEW t \in Thread, AskFails(t)
  PROVE  Fails(t, "remove")
BY FailMoves DEF AskFails, PcStep

LEMMA NoteMoves ==
  ASSUME Shape, NEW t \in Thread, Note(t)
  PROVE  \/ call[t].tool = "until" /\ Moves(t, "ask", [call[t] EXCEPT !.answer = "unknown"])
         \/ call[t].tool # "until" /\ Moves(t, "idle", NoCall)
<1>1. CASE call[t].tool = "until"
  <2>1. [call[t] EXCEPT !.answer = "unknown"] \in CallType
    BY Types, CallUpdates
  <2>2. /\ call' = [call EXCEPT ![t] = [call[t] EXCEPT !.answer = "unknown"]]
        /\ pc' = [pc EXCEPT ![t] = "ask"] /\ "ask" \in PcStep
    BY <1>1, Types DEF Note, Goto, PcStep
  <2> QED
    BY <1>1, <2>1, <2>2, Update
<1>2. CASE call[t].tool # "until"
  BY <1>2, FinishMoves DEF Note
<1> QED
  BY <1>1, <1>2

LEMMA RemovedMoves ==
  ASSUME Shape, NEW t \in Thread, NEW r \in {"removed", "failed"}, Removed(t, r)
  PROVE  \/ call[t].tool = "until" /\ Moves(t, "reply", [call[t] EXCEPT !.removal = r])
         \/ call[t].tool # "until" /\ Moves(t, "idle", NoCall)
<1>1. CASE call[t].tool = "until"
  <2>1. [call[t] EXCEPT !.removal = r] \in CallType
    BY Types, CallUpdates
  <2>2. /\ call' = [call EXCEPT ![t] = [call[t] EXCEPT !.removal = r]]
        /\ pc' = [pc EXCEPT ![t] = "reply"] /\ "reply" \in PcStep
    BY <1>1, Types DEF Removed, Goto, PcStep
  <2> QED
    BY <1>1, <2>1, <2>2, Update
<1>2. CASE call[t].tool # "until"
  BY <1>2, FinishMoves DEF Removed
<1> QED
  BY <1>1, <1>2

LEMMA AskMoves ==
  ASSUME Shape, NEW t \in Thread, Ask(t)
  PROVE  \E a \in RunStates, s \in {"observe", "list"} :
           Moves(t, s, [call[t] EXCEPT !.answer = a, !.scan = Breakpoint])
<1>1. PICK a \in RunStates : a = Label(running)
  BY DEF Label, RunStates
<1>2. PICK s \in {"observe", "list"} : pc' = [pc EXCEPT ![t] = s]
  BY DEF Ask, Goto
<1>3. [call[t] EXCEPT !.answer = a, !.scan = Breakpoint] \in CallType
  BY Types, CallUpdates
<1>4. call' = [call EXCEPT ![t] = [call[t] EXCEPT !.answer = a, !.scan = Breakpoint]]
  BY <1>1, Types DEF Ask
<1>5. {"observe", "list"} \subseteq PcStep
  BY DEF PcStep
<1> QED
  BY <1>2, <1>3, <1>4, <1>5, Update

\* The end of a kind empties the two snapshots.
Rescans(t) ==
  \E s \in {"list", "observe"}, c \in {{}, Watchpoint} :
    Moves(t, s, [call[t] EXCEPT !.scan = c, !.listed = <<>>, !.metas = <<>>])

LEMMA NextScanMoves ==
  ASSUME Shape, NEW t \in Thread, NextScan(t)
  PROVE  Rescans(t)
<1>1. PICK s \in {"list", "observe"}, c \in {{}, Watchpoint} :
        /\ pc' = [pc EXCEPT ![t] = s]
        /\ call' = [call EXCEPT ![t].scan = c, ![t].listed = <<>>, ![t].metas = <<>>]
  BY DEF NextScan, Goto
<1>2. call' = [call EXCEPT ![t] = [call[t] EXCEPT !.scan = c, !.listed = <<>>, !.metas = <<>>]]
  BY <1>1, Types
<1>3. [call[t] EXCEPT !.scan = c, !.listed = <<>>, !.metas = <<>>] \in CallType
  BY Types, CallUpdates
<1>4. {"list", "observe"} \subseteq PcStep
  BY DEF PcStep
<1> QED
  BY <1>1, <1>2, <1>3, <1>4, Update DEF Rescans

\* What breakpoint_list answers: no counter is ahead of the machine's.
LEMMA ListMoves ==
  ASSUME Shape, NEW t \in Thread, List(t)
  PROVE  \E f \in Counters :
           /\ Moves(t, "metas", [call[t] EXCEPT !.listed = f])
           /\ \A i \in DOMAIN f : f[i] = hits[i]
<1> DEFINE f == [i \in armed \cap call[t].scan |-> hits[i]]
<1>1. armed \cap call[t].scan \subseteq Instrument /\ hits \in [Instrument -> Nat]
  BY DEF Shape
<1>2. f \in Counters
  <2>1. DOMAIN f \subseteq Instrument /\ f \in [DOMAIN f -> Nat]
    BY <1>1
  <2> QED
    BY <2>1, CountersAre
<1>3. [call[t] EXCEPT !.listed = f] \in CallType
  BY <1>2, Types, CallUpdates
<1>4. call' = [call EXCEPT ![t] = [call[t] EXCEPT !.listed = f]] /\ pc' = [pc EXCEPT ![t] = "metas"]
  BY Types DEF List, Goto
<1>5. "metas" \in PcStep
  BY DEF PcStep
<1>6. \A i \in DOMAIN f : f[i] = hits[i]
  OBVIOUS
<1> HIDE DEF f
<1> QED
  BY <1>2, <1>3, <1>4, <1>5, <1>6, Update

LEMMA MetasMoves ==
  ASSUME Shape, NEW t \in Thread, Metas(t)
  PROVE  \/ Rescans(t)
         \/ \E f \in Provenance :
              /\ Moves(t, "sweep", [call[t] EXCEPT !.metas = f])
              /\ \A i \in DOMAIN f : i \in DOMAIN managed /\ f[i] = managed[i]
<1>1. CASE DOMAIN managed \cap call[t].scan = {}
  BY <1>1, NextScanMoves DEF Metas
<1>2. CASE DOMAIN managed \cap call[t].scan # {}
  <2> DEFINE f == [i \in DOMAIN managed \cap call[t].scan |-> managed[i]]
  <2>1. f \in Provenance
    <3>1. DOMAIN f \subseteq Instrument /\ f \in [DOMAIN f -> Meta]
      BY Types, SMTT(40)
    <3> QED
      BY <3>1, ProvenanceIs
  <2>2. [call[t] EXCEPT !.metas = f] \in CallType
    BY <2>1, Types, CallUpdates
  <2>3. call' = [call EXCEPT ![t] = [call[t] EXCEPT !.metas = f]] /\ pc' = [pc EXCEPT ![t] = "sweep"]
    BY <1>2, Types DEF Metas, Goto
  <2>4. "sweep" \in PcStep
    BY DEF PcStep
  <2>5. \A i \in DOMAIN f : i \in DOMAIN managed /\ f[i] = managed[i]
    OBVIOUS
  <2> HIDE DEF f
  <2> QED
    BY <2>1, <2>2, <2>3, <2>4, <2>5, Update
<1> QED
  BY <1>1, <1>2

\* One instrument of the sweep is done with.
LEMMA SweptIs ==
  ASSUME Shape, NEW t \in Thread, DOMAIN call[t].metas # {}
  PROVE  Swept(t) \in DOMAIN call[t].metas
<1>1. DOMAIN call[t].metas \in SUBSET Nat
  BY Types, Constants
<1> QED
  BY <1>1, NatMin DEF Swept

Shrinks(t) ==
  \E f \in Provenance :
    /\ Moves(t, "sweep", [call[t] EXCEPT !.metas = f])
    /\ DOMAIN f \subseteq DOMAIN call[t].metas
    /\ \A i \in DOMAIN f : f[i] = call[t].metas[i]

LEMMA SweptDoneMoves ==
  ASSUME Shape, NEW t \in Thread, SweptDone(t), pc' = [pc EXCEPT ![t] = "sweep"]
  PROVE  Shrinks(t)
<1> DEFINE f == [i \in DOMAIN call[t].metas \ {Swept(t)} |-> call[t].metas[i]]
<1>1. f \in Provenance
  <2>1. DOMAIN f \subseteq Instrument /\ f \in [DOMAIN f -> Meta]
    BY Types, SMTT(40)
  <2> QED
    BY <2>1, ProvenanceIs
<1>2. [call[t] EXCEPT !.metas = f] \in CallType
  BY <1>1, Types, CallUpdates
<1>3. call' = [call EXCEPT ![t] = [call[t] EXCEPT !.metas = f]]
  BY Types DEF SweptDone
<1>4. "sweep" \in PcStep
  BY DEF PcStep
<1>5. DOMAIN f \subseteq DOMAIN call[t].metas /\ \A i \in DOMAIN f : f[i] = call[t].metas[i]
  OBVIOUS
<1> HIDE DEF f
<1>6. Moves(t, "sweep", [call[t] EXCEPT !.metas = f])
  BY <1>2, <1>3, <1>4, Update
<1> QED
  BY <1>1, <1>5, <1>6 DEF Shrinks

LEMMA SweepMoves ==
  ASSUME Shape, NEW t \in Thread, Sweep(t)
  PROVE  \/ Shrinks(t) /\ UNCHANGED trackerVars
         \/ /\ Moves(t, "push", call[t]) /\ SetBreakpointStop(Swept(t)) /\ UNCHANGED managed
            /\ Swept(t) \in DOMAIN call[t].listed
            /\ FiredProof(call[t].listed[Swept(t)], call[t].metas[Swept(t)].every)
<1>1. CASE SweptDone(t) /\ UNCHANGED pc /\ UNCHANGED trackerVars
  <2>1. pc' = [pc EXCEPT ![t] = "sweep"]
    BY <1>1, Types DEF Sweep
  <2> QED
    BY <1>1, <2>1, SweptDoneMoves
<1>2. CASE /\ SetBreakpointStop(Swept(t)) /\ Goto(t, "push") /\ UNCHANGED <<managed, call>>
           /\ Swept(t) \in DOMAIN call[t].listed
           /\ FiredProof(call[t].listed[Swept(t)], call[t].metas[Swept(t)].every)
  BY <1>2, Stays DEF Goto, PcStep
<1> QED
  BY <1>1, <1>2 DEF Sweep

LEMMA PushMoves ==
  ASSUME Shape, NEW t \in Thread, Push(t)
  PROVE  \/ Moves(t, "away", call[t]) /\ SweepsAway(call[t].metas[Swept(t)])
         \/ Shrinks(t)
<1>1. CASE SweepsAway(call[t].metas[Swept(t)])
  BY <1>1, Stays DEF Push, Goto, PcStep
<1>2. CASE ~SweepsAway(call[t].metas[Swept(t)])
  BY <1>2, SweptDoneMoves DEF Push, Goto
<1> QED
  BY <1>1, <1>2

LEMMA SweepAwayMoves ==
  ASSUME Shape, NEW t \in Thread, SweepAway(t)
  PROVE  Shrinks(t)
BY SweptDoneMoves DEF SweepAway, Goto

LEMMA ObserveMoves ==
  ASSUME Shape, NEW t \in Thread, ObserveAnswer(t)
  PROVE  \/ call[t].tool = "until" /\ Moves(t, "judge", call[t])
         \/ call[t].tool # "until" /\ Moves(t, "idle", NoCall)
<1>1. CASE call[t].tool = "until"
  BY <1>1, Stays DEF ObserveAnswer, Goto, PcStep
<1>2. CASE call[t].tool # "until"
  BY <1>2, FinishMoves DEF ObserveAnswer
<1> QED
  BY <1>1, <1>2

LEMMA JudgeMoves ==
  ASSUME Shape, NEW t \in Thread, JudgePaused(t) \/ JudgeRunning(t) \/ JudgeLate(t)
  PROVE  \/ \E o \in {"hit", "preempted", "timeout"} :
              /\ Moves(t, "remove", [call[t] EXCEPT !.outcome = o, !.answer = "unknown"])
              /\ o = "hit" => stop = call[t].id
         \/ Moves(t, "ask", [call[t] EXCEPT !.answer = "unknown"])
<1> USE DEF PcStep
<1>1. CASE JudgePaused(t) \/ JudgeLate(t)
  <2>1. PICK o \in {"hit", "preempted", "timeout"} :
          /\ call' = [call EXCEPT ![t].outcome = o, ![t].answer = "unknown"]
          /\ o = "hit" => stop = call[t].id
    BY <1>1 DEF JudgePaused, JudgeLate, Verdict
  <2>2. call' = [call EXCEPT ![t] = [call[t] EXCEPT !.outcome = o, !.answer = "unknown"]]
    BY <2>1, Types
  <2>3. [call[t] EXCEPT !.outcome = o, !.answer = "unknown"] \in CallType
    BY Types, CallUpdates
  <2>4. pc' = [pc EXCEPT ![t] = "remove"]
    BY <1>1 DEF JudgePaused, JudgeLate, Goto
  <2>5. Moves(t, "remove", [call[t] EXCEPT !.outcome = o, !.answer = "unknown"])
    BY <2>2, <2>3, <2>4, Update
  <2> QED
    BY <2>1, <2>5
<1>2. CASE JudgeRunning(t)
  <2>1. [call[t] EXCEPT !.answer = "unknown"] \in CallType
    BY Types, CallUpdates
  <2>2. /\ call' = [call EXCEPT ![t] = [call[t] EXCEPT !.answer = "unknown"]]
        /\ pc' = [pc EXCEPT ![t] = "ask"]
    BY <1>2, Types DEF JudgeRunning, Goto
  <2> QED
    BY <2>1, <2>2, Update
<1> QED
  BY <1>1, <1>2

LEMMA ReplyMoves ==
  ASSUME Shape, NEW t \in Thread, Reply(t)
  PROVE  Moves(t, "idle", NoCall)
BY FinishMoves DEF Reply

-----------------------------------------------------------------------------
(* What a step of a call does to the rest.                                  *)

LEMMA FreshIs ==
  ASSUME Shape, NEW i \in Fresh
  PROVE  i \in Instrument /\ every[i] = 0
<1>1. PICK kind \in {Breakpoint, Watchpoint} :
        /\ i = Min({j \in kind : every[j] = 0})
        /\ {j \in kind : every[j] = 0} # {}
  BY DEF Fresh
<1>2. {j \in kind : every[j] = 0} \in SUBSET Nat
  BY Constants DEF Instrument
<1>3. i \in {j \in kind : every[j] = 0}
  BY <1>1, <1>2, NatMin
<1> QED
  BY <1>3 DEF Instrument

LEMMA ActsMoves ==
  ASSUME Shape, NEW t \in Thread, Acts(t)
  PROVE  \E s \in PcStep, w \in CallType : Moves(t, s, w)
<1> USE DEF Moves
<1>1. CASE StartUntil(t) \/ Start(t)
  BY <1>1, StartUntilMoves, StartMoves
<1>2. ASSUME NEW step \in PcStep, Fails(t, step)
      PROVE  \E s \in PcStep, w \in CallType : Moves(t, s, w)
  BY <1>2 DEF Fails
<1>3. CASE Set(t) \/ SetFails(t)
  BY <1>2, <1>3, SetMoves, SetFailsMoves, FreshIs DEF PcStep
<1>4. CASE ControlFails(t) \/ AskFails(t)
  BY <1>2, <1>4, ControlFailsMoves, AskFailsMoves DEF PcStep
<1>5. CASE Track(t) \/ Control(t) \/ Note(t) \/ Ask(t)
  BY <1>5, TrackMoves, ControlMoves, NoteMoves, AskMoves
<1>6. CASE RemoveInstrument(t) \/ RemoveFails(t)
  BY <1>6, RemovedMoves DEF RemoveInstrument, RemoveFails
<1>7. CASE Rescans(t) \/ Shrinks(t)
  BY <1>7 DEF Rescans, Shrinks
<1>8. CASE List(t) \/ ListFails(t) \/ Metas(t) \/ SweepEnds(t)
  BY <1>7, <1>8, ListMoves, MetasMoves, NextScanMoves DEF ListFails, SweepEnds
<1>9. CASE Sweep(t) \/ Push(t) \/ SweepAway(t)
  BY <1>7, <1>9, SweepMoves, PushMoves, SweepAwayMoves
<1>10. CASE ObserveAnswer(t) \/ JudgePaused(t) \/ JudgeRunning(t) \/ JudgeLate(t) \/ Reply(t)
  BY <1>10, ObserveMoves, JudgeMoves, ReplyMoves
<1> QED
  BY <1>1, <1>3, <1>4, <1>5, <1>6, <1>8, <1>9, <1>10 DEF Acts, Step

\* Provenance is only dropped, tracked by the call that set the instrument, or
\* handed back to the sweep by the run_until that could not remove it.
IsFunction == managed' = [j \in DOMAIN managed' |-> managed'[j]]

Drops ==
  /\ IsFunction
  /\ DOMAIN managed' \subseteq DOMAIN managed
  /\ \A i \in DOMAIN managed' : managed'[i] = managed[i]

Tracks(t) ==
  /\ pc[t] = "track" /\ IsFunction
  /\ DOMAIN managed' = DOMAIN managed \cup {call[t].id}
  /\ \A j \in DOMAIN managed' \ {call[t].id} : managed'[j] = managed[j]
  /\ managed'[call[t].id] = [oneShot |-> call[t].oneShot, defer |-> call[t].tool = "until",
                             every |-> every[call[t].id], control |-> call[t].serial]

HandsBack(t) ==
  /\ pc[t] = "remove" /\ call[t].tool = "until" /\ IsFunction
  /\ DOMAIN managed' = DOMAIN managed
  /\ \A j \in DOMAIN managed' :
       managed'[j] = IF j = call[t].id THEN [managed[j] EXCEPT !.defer = FALSE] ELSE managed[j]

LEMMA ManagedStep ==
  ASSUME Shape, NEW t \in Thread, Acts(t)
  PROVE  Drops \/ Tracks(t) \/ HandsBack(t)
<1>1. CASE UNCHANGED managed
  <2>1. managed = [j \in DOMAIN managed |-> managed[j]]
    BY ProvenanceIs DEF Shape
  <2> QED
    BY <1>1, <2>1 DEF Drops, IsFunction
<1>2. ASSUME NEW i, Forget(i) PROVE Drops
  BY <1>2 DEF Forget, Drops, IsFunction
<1>3. CASE StartUntil(t) \/ Start(t) \/ Set(t) \/ SetFails(t) \/ ControlFails(t) \/ Note(t)
           \/ Ask(t) \/ AskFails(t) \/ List(t) \/ ListFails(t) \/ Metas(t) \/ SweepEnds(t)
  BY <1>1, <1>3 DEF StartUntil, Start, Set, SetFails, ControlFails, Note, Ask, AskFails, List,
     ListFails, Metas, SweepEnds
<1>4. CASE Push(t) \/ ObserveAnswer(t) \/ JudgePaused(t) \/ JudgeRunning(t) \/ JudgeLate(t) \/ Reply(t)
  BY <1>1, <1>4 DEF Push, ObserveAnswer, JudgePaused, JudgeRunning, JudgeLate, Reply
<1>5. CASE Track(t)
  BY <1>5 DEF Track, Tracks, IsFunction
<1>6. CASE Control(t)
  <2>1. managed' = <<>> \/ UNCHANGED managed
    BY <1>6 DEF Control
  <2> QED
    <3>1. CASE managed' = <<>>
      <4>1. DOMAIN managed' = {} /\ <<>> = [j \in {} |-> managed'[j]]
        BY <3>1
      <4> QED
        BY <3>1, <4>1 DEF Drops, IsFunction
    <3> QED
      BY <1>1, <2>1, <3>1
<1>7. CASE RemoveInstrument(t)
  BY <1>1, <1>2, <1>7 DEF RemoveInstrument
<1>8. CASE RemoveFails(t)
  BY <1>1, <1>8 DEF RemoveFails, HandBack, HandsBack, IsFunction
<1>9. CASE Sweep(t) \/ SweepAway(t)
  BY <1>1, <1>2, <1>9 DEF Sweep, SweepAway
<1> QED
  BY <1>3, <1>4, <1>5, <1>6, <1>7, <1>8, <1>9 DEF Acts, Step

\* The machine: a call sets a fresh instrument, or disarms some.
Arms(t) ==
  /\ pc[t] = "set"
  /\ \E i \in Fresh, n \in Every \cup {1} :
       /\ armed' = armed \cup {i} /\ every' = [every EXCEPT ![i] = n]
       /\ Moves(t, "track", [call[t] EXCEPT !.id = i]) \/ Fails(t, "reply")

LEMMA MachineStep ==
  ASSUME Shape, NEW t \in Thread, Acts(t)
  PROVE  /\ running' \in BOOLEAN /\ UNCHANGED <<hits, fired>>
         /\ (UNCHANGED every /\ armed' \subseteq armed) \/ Arms(t)
         /\ lock' \in 0..MaxCalls /\ calls' \in 0..MaxCalls
<1>1. running \in BOOLEAN /\ lock \in 0..MaxCalls /\ calls \in 0..MaxCalls /\ MaxCalls \in Nat
  BY Constants DEF Shape
<1> USE <1>1 DEF machineVars
<1>2. CASE StartUntil(t) \/ Start(t)
  <2>1. calls < MaxCalls /\ calls' = calls + 1 /\ lock' \in {lock, calls + 1} /\ UNCHANGED machineVars
    BY <1>2 DEF StartUntil, Start
  <2>2. calls + 1 \in 0..MaxCalls
    BY <2>1
  <2> QED
    BY <2>1, <2>2
<1>3. CASE Set(t)
  <2>1. Arms(t)
    BY <1>3, SetMoves, FreshIs DEF Set, Arms
  <2> QED
    BY <1>3, <2>1 DEF Set
<1>4. CASE SetFails(t) \/ Track(t) \/ Note(t) \/ Ask(t) \/ AskFails(t) \/ List(t)
           \/ ListFails(t) \/ Metas(t) \/ SweepEnds(t)
  BY <1>4 DEF SetFails, Track, Note, Ask, AskFails, List, ListFails, Metas, SweepEnds
<1>5. CASE Push(t) \/ ObserveAnswer(t) \/ JudgePaused(t) \/ JudgeRunning(t) \/ JudgeLate(t)
           \/ Reply(t) \/ Sweep(t) \/ SweepAway(t)
  BY <1>5 DEF Push, ObserveAnswer, JudgePaused, JudgeRunning, JudgeLate, Reply, Sweep, SweepAway
<1>6. CASE Control(t)
  BY <1>6, ControlMoves DEF Control
<1>7. CASE ControlFails(t)
  BY <1>7, ControlFailsMoves DEF ControlFails
<1>8. CASE RemoveInstrument(t) \/ RemoveFails(t)
  BY <1>8 DEF RemoveInstrument, RemoveFails
<1> QED
  BY <1>2, <1>3, <1>4, <1>5, <1>6, <1>7, <1>8 DEF Acts, Step

\* The record of the stops: Push appends the counter that its sweep has listed.
Records(t) ==
  /\ pc[t] = "push"
  /\ events' = [events EXCEPT ![Swept(t)] = Append(@, call[t].listed[Swept(t)])]

LEMMA EventsStep ==
  ASSUME Shape, NEW t \in Thread, Acts(t)
  PROVE  UNCHANGED events \/ Records(t)
<1>1. CASE Push(t)
  BY <1>1 DEF Push, Records
<1>2. CASE StartUntil(t) \/ Start(t) \/ Set(t) \/ SetFails(t) \/ Track(t) \/ Control(t)
           \/ ControlFails(t) \/ Note(t) \/ Ask(t) \/ AskFails(t) \/ List(t)
  BY <1>2 DEF StartUntil, Start, Set, SetFails, Track, Control, ControlFails, Note, Ask, AskFails, List
<1>3. CASE ListFails(t) \/ Metas(t) \/ SweepEnds(t) \/ RemoveInstrument(t) \/ RemoveFails(t)
           \/ ObserveAnswer(t) \/ JudgePaused(t) \/ JudgeRunning(t) \/ JudgeLate(t)
           \/ Reply(t) \/ Sweep(t) \/ SweepAway(t)
  BY <1>3 DEF ListFails, Metas, SweepEnds, RemoveInstrument, RemoveFails, ObserveAnswer,
     JudgePaused, JudgeRunning, JudgeLate, Reply, Sweep, SweepAway
<1> QED
  BY <1>1, <1>2, <1>3 DEF Acts, Step

\* The tracker: only a sweep that has found the proof attributes a stop.
Attributes(t) ==
  /\ Moves(t, "push", call[t]) /\ SetBreakpointStop(Swept(t))
  /\ DOMAIN call[t].metas # {} /\ Swept(t) \in DOMAIN call[t].listed
  /\ FiredProof(call[t].listed[Swept(t)], call[t].metas[Swept(t)].every)

LEMMA TrackerStep ==
  ASSUME Shape, NEW t \in Thread, Acts(t)
  PROVE  /\ observed' \in RunStates \cup {"unknown"} /\ mcpSet' \in RunStates \cup {"unknown"}
         /\ stop' \in {stop, None} \/ Attributes(t)
<1>1. /\ observed \in RunStates \cup {"unknown"} /\ mcpSet \in RunStates \cup {"unknown"}
      /\ call[t].answer \in RunStates \cup {"unknown"}
  BY Types DEF Shape, TrackerTypeOK, CallType
<1> USE <1>1 DEF trackerVars
<1>2. CASE StartUntil(t) \/ Start(t) \/ Set(t) \/ SetFails(t) \/ Track(t) \/ Control(t)
           \/ ControlFails(t) \/ Ask(t) \/ AskFails(t) \/ List(t)
  BY <1>2 DEF StartUntil, Start, Set, SetFails, Track, Control, ControlFails, Ask, AskFails, List
<1>3. CASE ListFails(t) \/ Metas(t) \/ SweepEnds(t) \/ RemoveInstrument(t) \/ RemoveFails(t)
           \/ JudgePaused(t) \/ JudgeRunning(t) \/ JudgeLate(t) \/ Reply(t) \/ SweepAway(t) \/ Push(t)
  BY <1>3 DEF ListFails, Metas, SweepEnds, RemoveInstrument, RemoveFails, JudgePaused,
     JudgeRunning, JudgeLate, Reply, SweepAway, Push
<1>4. CASE Note(t)
  BY <1>4 DEF Note, SetByMCP
<1>5. CASE ObserveAnswer(t)
  BY <1>5 DEF ObserveAnswer, Observe
<1>6. CASE Sweep(t)
  <2>1. CASE UNCHANGED trackerVars
    BY <2>1
  <2>2. CASE Attributes(t)
    BY <2>2 DEF Attributes, SetBreakpointStop
  <2> QED
    BY <1>6, <2>1, <2>2, SweepMoves DEF Sweep, Attributes
<1> QED
  BY <1>2, <1>3, <1>4, <1>5, <1>6 DEF Acts, Step

-----------------------------------------------------------------------------
(* Types.                                                                   *)

LEMMA EveryType ==
  ASSUME Shape, NEW i \in Fresh, NEW n \in Every \cup {1}, every' = [every EXCEPT ![i] = n]
  PROVE  /\ every' \in [Instrument -> Every \cup {0, 1}]
         /\ i \in Instrument /\ every[i] = 0 /\ every'[i] = n /\ n # 0
         /\ \A j \in Instrument \ {i} : every'[j] = every[j]
BY FreshIs, Constants DEF Shape

\* Everything is typed, and managed' is a function.
LEMMA ShapeStep ==
  ASSUME Shape, Counted, Believed, [Next]_vars
  PROVE  Shape'
<1>1. ASSUME NEW t \in Thread, Acts(t)
      PROVE  Shape'
  <2>1. pc' \in [Thread -> PcStep] /\ call' \in [Thread -> CallType]
    BY <1>1, ActsMoves DEF Moves
  <2>2. running' \in BOOLEAN /\ lock' \in 0..MaxCalls /\ calls' \in 0..MaxCalls
    BY <1>1, MachineStep
  <2>3. hits' \in [Instrument -> Nat] /\ fired' \in [Instrument -> SUBSET Nat]
    BY <1>1, MachineStep DEF Shape
  <2>4. armed' \subseteq Instrument /\ every' \in [Instrument -> Every \cup {0, 1}]
    <3>1. CASE Arms(t)
      BY <3>1, EveryType DEF Arms, Shape
    <3> QED
      BY <1>1, <3>1, MachineStep DEF Shape
  <2>5. managed' \in Provenance
    <3>1. DOMAIN managed' \subseteq Instrument /\ IsFunction
      <4>1. pc[t] = "track" => call[t].id \in Instrument
        BY Types DEF Believed, Local, CallType
      <4> QED
        BY <1>1, <4>1, Types, ManagedStep DEF Drops, Tracks, HandsBack
    <3>2. ASSUME NEW j \in DOMAIN managed' PROVE managed'[j] \in Meta
      <4>1. CASE Drops
        BY <3>2, <4>1, Types DEF Drops
      <4>2. CASE HandsBack(t)
        <5>1. managed[j] \in Meta
          BY <3>2, <4>2, Types DEF HandsBack
        <5> QED
          BY <3>2, <4>2, <5>1 DEF HandsBack, Meta
      <4>3. CASE Tracks(t) /\ j # call[t].id
        BY <3>2, <4>3, Types DEF Tracks
      <4>4. CASE Tracks(t) /\ j = call[t].id
        <5>1. call[t].id # None /\ call[t] \in CallType
          BY <4>4, Types DEF Tracks, Believed, Local
        <5>2. every[call[t].id] \in Every \cup {1}
          BY <5>1, ZenonT(60) DEF Believed, True, Facts, Shape, CallType
        <5>3. /\ call[t].oneShot \in BOOLEAN /\ call[t].serial \in 0..MaxCalls
              /\ (call[t].tool = "until") \in BOOLEAN
          BY <5>1 DEF CallType
        <5>4. managed'[j] = [oneShot |-> call[t].oneShot, defer |-> call[t].tool = "until",
                             every |-> every[call[t].id], control |-> call[t].serial]
          BY <4>4 DEF Tracks
        <5> QED
          BY <5>2, <5>3, <5>4 DEF Meta
      <4> QED
        BY <1>1, <4>1, <4>2, <4>3, <4>4, ManagedStep
    <3>3. managed' \in [DOMAIN managed' -> Meta]
      BY <3>1, <3>2 DEF IsFunction
    <3> QED
      BY <3>1, <3>3, ProvenanceIs
  <2>6. events' \in [Instrument -> Seq(Nat)]
    <3>1. CASE Records(t)
      <4>1. /\ Swept(t) \in DOMAIN call[t].listed
        BY <3>1 DEF Records, Believed, True, Facts, Swept
      <4>2. call[t].listed[Swept(t)] \in Nat /\ Swept(t) \in Instrument
        BY <4>1, Types
      <4> QED
        BY <3>1, <4>2 DEF Records, Shape
    <3> QED
      BY <1>1, <3>1, EventsStep DEF Shape
  <2>7. TrackerTypeOK(Instrument)'
    <3>1. stop \in Instrument \cup {None}
      BY DEF Shape, TrackerTypeOK
    <3>2. ASSUME Attributes(t) PROVE stop' \in Instrument
      BY <3>2, Types DEF Attributes, SetBreakpointStop
    <3> QED
      BY <1>1, <3>1, <3>2, TrackerStep DEF TrackerTypeOK
  <2> QED
    BY <2>1, <2>2, <2>3, <2>4, <2>5, <2>6, <2>7 DEF Shape
<1>2. ASSUME NEW i \in Instrument, Hit(i)
      PROVE  Shape'
  <2>1. hits' \in [Instrument -> Nat] /\ running' \in BOOLEAN
    BY <1>2 DEF Hit, Shape
  <2>2. fired[i] \cup {hits'[i]} \in SUBSET Nat
    BY <2>1 DEF Shape
  <2>3. fired' \in [Instrument -> SUBSET Nat]
    BY <1>2, <2>2 DEF Hit, Shape
  <2> QED
    BY <1>2, <2>1, <2>3 DEF Hit, Shape, TrackerTypeOK, trackerVars
<1>3. CASE ToggleInUI
  BY <1>3, Constants DEF ToggleInUI, Shape, TrackerTypeOK, trackerVars
<1>4. CASE LockExpires
  BY <1>4, Constants DEF LockExpires, Shape, TrackerTypeOK, trackerVars, machineVars
<1>5. CASE UNCHANGED vars
  BY <1>5 DEF Shape, TrackerTypeOK, vars
<1> QED
  BY <1>1, <1>2, <1>3, <1>4, <1>5 DEF Next, NoMoreCalls, Acts

-----------------------------------------------------------------------------
(* The machine.                                                             *)

\* Counters and stops grow, a break counter is set once, and what is disarmed
\* stays so.
Grows ==
  /\ \A i \in Instrument :
       /\ hits'[i] \in Nat /\ hits[i] <= hits'[i] /\ fired[i] \subseteq fired'[i]
       /\ every[i] # 0 => every'[i] = every[i]
       /\ every[i] # 0 /\ i \notin armed => i \notin armed'

LEMMA GrowStep ==
  ASSUME Shape, [Next]_vars
  PROVE  Grows
<1>1. hits \in [Instrument -> Nat] /\ fired \in [Instrument -> SUBSET Nat]
  BY DEF Shape
<1>2. ASSUME NEW t \in Thread, Acts(t)
      PROVE  Grows
  <2>1. CASE Arms(t)
    <3>1. PICK i \in Fresh, n \in Every \cup {1} :
            armed' = armed \cup {i} /\ every' = [every EXCEPT ![i] = n]
      BY <2>1 DEF Arms
    <3>2. every[i] = 0 /\ \A j \in Instrument \ {i} : every'[j] = every[j]
      BY <3>1, EveryType
    <3> QED
      BY <1>1, <1>2, <3>1, <3>2, MachineStep DEF Grows
  <2>2. CASE UNCHANGED every /\ armed' \subseteq armed
    BY <1>1, <1>2, <2>2, MachineStep DEF Grows
  <2> QED
    BY <1>2, <2>1, <2>2, MachineStep
<1>3. ASSUME NEW i \in Instrument, Hit(i)
      PROVE  Grows
  <2>1. hits' = [hits EXCEPT ![i] = hits[i] + 1] /\ UNCHANGED <<armed, every>>
    BY <1>3 DEF Hit
  <2>2. fired' = [fired EXCEPT ![i] = IF running' THEN fired[i] ELSE fired[i] \cup {hits'[i]}]
    BY <1>3 DEF Hit
  <2> QED
    BY <1>1, <2>1, <2>2 DEF Grows
<1>4. CASE ToggleInUI \/ LockExpires \/ UNCHANGED vars
  <2>1. UNCHANGED <<armed, every, hits, fired>>
    BY <1>4 DEF ToggleInUI, LockExpires, vars, machineVars
  <2> QED
    BY <1>1, <2>1 DEF Grows
<1> QED
  BY <1>2, <1>3, <1>4 DEF Next, NoMoreCalls, Acts

LEMMA CountedStep ==
  ASSUME Shape, Counted, Believed, [Next]_vars
  PROVE  Counted'
<1>1. ASSUME NEW t \in Thread, Acts(t)
      PROVE  Counted'
  <2>1. UNCHANGED <<hits, fired>>
    BY <1>1, MachineStep
  <2>2. ASSUME NEW i \in Instrument, every'[i] = every[i]
        PROVE  /\ hits'[i] <= MaxStops * every'[i] /\ fired'[i] \subseteq 1 .. hits'[i]
               /\ \A h \in 1 .. hits'[i] : h % every'[i] = 0 => h \in fired'[i]
    BY <2>1, <2>2 DEF Counted
  <2>3. ASSUME NEW i \in Fresh, NEW n \in Every \cup {1}, every' = [every EXCEPT ![i] = n]
        PROVE  /\ hits'[i] <= MaxStops * every'[i] /\ fired'[i] \subseteq 1 .. hits'[i]
               /\ \A h \in 1 .. hits'[i] : h % every'[i] = 0 => h \in fired'[i]
    <3>1. i \in Instrument /\ every[i] = 0 /\ every'[i] = n /\ n \in Nat /\ MaxStops \in Nat
      <4>1. i \in Instrument /\ every[i] = 0 /\ every'[i] = n
        BY <2>3, EveryType
      <4>2. n \in Nat /\ MaxStops \in Nat
        BY Constants
      <4> QED
        BY <4>1, <4>2
    <3>2. hits[i] = 0
      <4>1. MaxStops * 0 = 0
        BY <3>1
      <4>2. hits[i] \in Nat /\ hits[i] <= MaxStops * every[i]
        BY <3>1 DEF Counted, Shape
      <4> QED
        BY <3>1, <4>1, <4>2
    <3>3. fired[i] = {}
      BY <3>1, <3>2 DEF Counted
    <3>4. 0 <= MaxStops * n
      BY <3>1
    <3> QED
      BY <2>1, <3>1, <3>2, <3>3, <3>4
  <2>4. ASSUME NEW i \in Instrument
        PROVE  /\ hits'[i] <= MaxStops * every'[i] /\ fired'[i] \subseteq 1 .. hits'[i]
               /\ \A h \in 1 .. hits'[i] : h % every'[i] = 0 => h \in fired'[i]
    <3>1. CASE UNCHANGED every
      BY <2>2, <3>1
    <3>2. CASE Arms(t)
      <4>1. PICK j \in Fresh, n \in Every \cup {1} : every' = [every EXCEPT ![j] = n]
        BY <3>2 DEF Arms
      <4>2. CASE i = j
        BY <2>3, <4>1, <4>2
      <4>3. CASE i # j
        BY <2>2, <4>1, <4>3, EveryType
      <4> QED
        BY <4>2, <4>3
    <3> QED
      BY <1>1, <3>1, <3>2, MachineStep
  <2>5. ASSUME NEW i \in Instrument, i \in armed'
        PROVE  every'[i] # 0
    <3>1. CASE i \in armed
      <4>1. every[i] # 0
        BY <3>1 DEF Counted
      <4> QED
        BY <4>1, GrowStep DEF Grows
    <3>2. CASE i \notin armed
      <4>1. Arms(t)
        BY <1>1, <2>5, <3>2, MachineStep
      <4> QED
        BY <2>5, <3>2, <4>1, EveryType, ZenonT(60) DEF Arms
    <3> QED
      BY <3>1, <3>2
  <2>6. ASSUME NEW i \in Instrument, i \in DOMAIN managed'
        PROVE  every'[i] # 0 /\ managed'[i].every = every'[i]
    <3>1. every[i] # 0 => every'[i] = every[i]
      BY GrowStep DEF Grows
    <3>2. i \in DOMAIN managed => every[i] # 0 /\ managed[i].every = every[i] /\ managed[i] \in Meta
      BY Types DEF Counted
    <3>3. CASE Drops
      BY <2>6, <3>1, <3>2, <3>3 DEF Drops
    <3>4. CASE HandsBack(t)
      BY <2>6, <3>1, <3>2, <3>4 DEF HandsBack, Meta
    <3>5. CASE Tracks(t) /\ i # call[t].id
      BY <2>6, <3>1, <3>2, <3>5 DEF Tracks
    <3>6. CASE Tracks(t) /\ i = call[t].id
      <4>1. every[i] # 0
        BY <3>6, OrderAssumption, Constants DEF Believed, True, Facts
      <4> QED
        BY <3>1, <3>6, <4>1 DEF Tracks
    <3> QED
      BY <1>1, <3>3, <3>4, <3>5, <3>6, ManagedStep
  <2> QED
    BY <2>4, <2>5, <2>6 DEF Counted
<1>2. ASSUME NEW i \in Instrument, Hit(i)
      PROVE  Counted'
  <2>1. hits' = [hits EXCEPT ![i] = hits[i] + 1] /\ UNCHANGED <<armed, every, managed>>
    BY <1>2 DEF Hit
  <2>2. /\ fired' = [fired EXCEPT ![i] = IF running' THEN fired[i] ELSE fired[i] \cup {hits'[i]}]
        /\ running' = (hits'[i] % every[i] # 0)
    BY <1>2 DEF Hit
  <2>3. hits \in [Instrument -> Nat] /\ fired \in [Instrument -> SUBSET Nat]
    BY DEF Shape
  <2>4. ASSUME NEW j \in Instrument \ {i}
        PROVE  hits'[j] = hits[j] /\ fired'[j] = fired[j]
    BY <2>1, <2>2, <2>3
  <2>5. hits'[i] = hits[i] + 1 /\ fired[i] \subseteq fired'[i] /\ fired'[i] \subseteq fired[i] \cup {hits'[i]}
    BY <2>1, <2>2, <2>3
  <2>6. hits'[i] <= MaxStops * every'[i]
    <3>1. hits[i] < MaxStops * every[i] /\ every[i] \in Nat /\ MaxStops \in Nat
      <4>1. every[i] \in Every \cup {0, 1}
        BY DEF Shape
      <4>2. every[i] \in Nat /\ MaxStops \in Nat
        <5>1. Every \subseteq Nat /\ MaxStops \in Nat
          BY Constants
        <5>2. Every \cup {0, 1} \subseteq Nat
          BY <5>1
        <5> QED
          BY <4>1, <5>1, <5>2
      <4>3. hits[i] < MaxStops * every[i]
        BY <1>2 DEF Hit
      <4> QED
        BY <4>2, <4>3
    <3>2. MaxStops * every[i] \in Nat
      BY <3>1
    <3> QED
      BY <2>1, <2>3, <2>5, <3>1, <3>2
  <2>7. fired'[i] \subseteq 1 .. hits'[i]
    BY <2>3, <2>5 DEF Counted
  <2>8. ASSUME NEW h \in 1 .. hits'[i], h % every'[i] = 0
        PROVE  h \in fired'[i]
    <3>1. CASE h = hits'[i]
      <4>1. running' = FALSE
        <5>1. hits'[i] % every[i] = 0
          <6>1. every' = every
            BY <2>1
          <6> QED
            BY <2>8, <3>1, <6>1, Zenon
        <5>2. (hits'[i] % every[i] # 0) = FALSE
          BY <5>1
        <5> QED
          BY <2>2, <5>2
      <4>2. fired' = [fired EXCEPT ![i] = fired[i] \cup {hits'[i]}]
        BY <2>2, <4>1
      <4> QED
        BY <2>3, <3>1, <4>2
    <3>2. CASE h # hits'[i]
      <4>1. h \in 1 .. hits[i]
        BY <2>3, <2>5, <3>2
      <4> QED
        BY <2>1, <2>5, <2>8, <4>1 DEF Counted
    <3> QED
      BY <3>1, <3>2
  <2>9. \A j \in Instrument : /\ hits'[j] <= MaxStops * every'[j] /\ fired'[j] \subseteq 1 .. hits'[j]
                             /\ \A h \in 1 .. hits'[j] : h % every'[j] = 0 => h \in fired'[j]
    BY <2>1, <2>4, <2>6, <2>7, <2>8 DEF Counted
  <2> QED
    BY <2>1, <2>9 DEF Counted
<1>3. CASE ToggleInUI \/ LockExpires \/ UNCHANGED vars
  <2>1. UNCHANGED <<armed, every, hits, fired, managed>>
    BY <1>3 DEF ToggleInUI, LockExpires, vars, machineVars
  <2> QED
    BY <2>1 DEF Counted
<1> QED
  BY <1>1, <1>2, <1>3 DEF Next, NoMoreCalls, Acts

-----------------------------------------------------------------------------
(* What the calls, the tracker and the events say.                          *)

Now(s, w) == Facts(s, w, every', hits', fired', armed')

\* What was true of the machine stays true of it.
LEMMA FactsStay ==
  ASSUME Shape, [Next]_vars, NEW s, NEW w \in CallType, True(s, w)
  PROVE  Now(s, w)
<1>1. Grows
  BY GrowStep
<1>2. /\ w.id \in Instrument \cup {None}
      /\ w.listed \in Counters /\ w.metas \in Provenance
  BY DEF CallType
<1>3. /\ \A i \in DOMAIN w.listed : i \in Instrument /\ w.listed[i] \in Nat
      /\ \A i \in DOMAIN w.metas : i \in Instrument /\ w.metas[i] \in Meta
  BY <1>2, CountersAre, ProvenanceIs
<1>4. w.id # None => every'[w.id] # 0
  BY <1>1, <1>2 DEF True, Facts, Grows
<1>5. ASSUME NEW i \in DOMAIN w.listed PROVE w.listed[i] <= hits'[i]
  <2>1. w.listed[i] <= hits[i] /\ hits[i] <= hits'[i]
    BY <1>1, <1>3 DEF True, Facts, Grows
  <2>2. w.listed[i] \in Nat /\ hits[i] \in Nat /\ hits'[i] \in Nat
    BY <1>1, <1>3 DEF Grows, Shape
  <2> QED
    BY <2>1, <2>2
<1>6. ASSUME NEW i \in DOMAIN w.metas PROVE w.metas[i].every = every'[i]
  <2>1. w.metas[i].every \in Every \cup {1} /\ i \in Instrument
    BY <1>3 DEF Meta
  <2>2. w.metas[i].every # 0
    BY <2>1, Constants
  <2>3. w.metas[i].every = every[i]
    BY DEF True, Facts
  <2> QED
    BY <1>1, <2>1, <2>2, <2>3 DEF Grows
<1>7. w.outcome = "hit" => w.id # None /\ fired'[w.id] # {}
  BY <1>1, <1>2 DEF True, Facts, Grows
<1>8. w.removal = "removed" => w.id # None /\ w.id \notin armed'
  BY <1>1, <1>2 DEF True, Facts, Grows
<1> QED
  BY <1>4, <1>5, <1>6, <1>7, <1>8 DEF True, Now, Facts

\* A step that leaves the snapshots and the instrument of a call alone.
LEMMA FactsKept ==
  ASSUME NEW s0, NEW w0, NEW s, NEW w, Now(s0, w0), s \notin {"push", "away"},
         w.id = w0.id, w.listed = w0.listed, w.metas = w0.metas, w.removal = w0.removal,
         w.outcome # w0.outcome => w.outcome # "hit"
  PROVE  Now(s, w)
BY DEF Now, Facts

LEMMA LocalKept ==
  ASSUME NEW s0, NEW w0, NEW s, NEW w, Local(s0, w0), w.tool = w0.tool, w.id = w0.id,
         s0 \notin {"idle", "set", "reply"}, s \notin {"idle", "set", "track"},
         s0 = "track" => w0.tool = "until",
         w.tool # "until" => s \notin {"judge", "reply"}
  PROVE  Local(s, w)
BY DEF Local

\* A call that has ended says nothing.
LEMMA IdleSays == Local("idle", NoCall) /\ Now("idle", NoCall)
BY NothingListed DEF NoCall, Local, Now, Facts

\* A fired proof, however old, is of a hit that stopped the machine.
LEMMA ProofIsReal ==
  ASSUME Shape, Counted, NEW s, NEW w \in CallType, True(s, w),
         NEW i \in DOMAIN w.listed \cap DOMAIN w.metas, FiredProof(w.listed[i], w.metas[i].every)
  PROVE  i \in Instrument /\ w.listed[i] \in fired[i]
<1>1. w.listed \in Counters
  BY DEF CallType
<1>2. i \in Instrument /\ w.listed[i] \in Nat
  BY <1>1, CountersAre
<1>3. w.listed[i] <= hits[i] /\ w.metas[i].every = every[i] /\ hits[i] \in Nat
  BY <1>2 DEF True, Facts, Shape
<1>4. w.listed[i] \in 1 .. hits[i]
  BY <1>2, <1>3 DEF FiredProof
<1>5. w.listed[i] % every[i] = 0
  BY <1>3 DEF FiredProof
<1> QED
  BY <1>2, <1>4, <1>5 DEF Counted

Says(t) == \E s \in PcStep, w \in CallType : Moves(t, s, w) /\ Local(s, w) /\ Now(s, w)

LEMMA Speaks ==
  ASSUME NEW t, NEW s, NEW w, Moves(t, s, w), Local(s, w), Now(s, w)
  PROVE  Says(t)
BY DEF Says, Moves

LEMMA FallsSilent ==
  ASSUME NEW t, Moves(t, "idle", NoCall)
  PROVE  Says(t)
BY IdleSays, Speaks

\* What the calls said before, of the machine as it is now.
LEMMA SaidBefore ==
  ASSUME Shape, Believed, [Next]_vars, NEW t \in Thread
  PROVE  call[t] \in CallType /\ Local(pc[t], call[t]) /\ Now(pc[t], call[t])
<1>1. call[t] \in CallType /\ Local(pc[t], call[t]) /\ True(pc[t], call[t])
  BY Types DEF Believed
<1> QED
  BY <1>1, FactsStay

LEMMA FailsSays ==
  ASSUME Shape, Believed, [Next]_vars, NEW t \in Thread, NEW step \in {"reply", "remove"},
         step = "remove" => pc[t] \in {"control", "ask"}, pc[t] \notin {"idle", "reply"},
         Fails(t, step)
  PROVE  Says(t)
<1> DEFINE w == [call[t] EXCEPT !.outcome = "failed"]
<1>1. CASE call[t].tool = "until" /\ Moves(t, step, w)
  <2>1. call[t] \in CallType /\ Local(pc[t], call[t]) /\ Now(pc[t], call[t])
    BY SaidBefore
  <2>2. /\ w.id = call[t].id /\ w.listed = call[t].listed /\ w.metas = call[t].metas
        /\ w.removal = call[t].removal /\ w.tool = call[t].tool /\ w.outcome = "failed"
    BY <2>1 DEF CallType
  <2> HIDE DEF w
  <2>3. Now(step, w)
    BY <2>1, <2>2, FactsKept
  <2>4. Local(step, w)
    BY <1>1, <2>1, <2>2 DEF Local
  <2> QED
    BY <1>1, <2>3, <2>4, Speaks
<1>2. CASE call[t].tool # "until" /\ Moves(t, "idle", NoCall)
  BY <1>2, FallsSilent
<1> QED
  BY <1>1, <1>2 DEF Fails

LEMMA StartSays ==
  ASSUME Shape, Counted, [Next]_vars, NEW t \in Thread, StartUntil(t) \/ Start(t)
  PROVE  Says(t)
<1>1. NoCall.id = None /\ NoCall.listed = <<>> /\ NoCall.metas = <<>> /\ NoCall.outcome = "none"
      /\ NoCall.removal = "none"
  BY DEF NoCall
<1>2. CASE StartUntil(t)
  <2>1. PICK n \in 0..MaxCalls :
          Moves(t, "set", [NoCall EXCEPT !.tool = "until", !.serial = n, !.oneShot = TRUE])
    BY <1>2, StartUntilMoves
  <2> DEFINE w == [NoCall EXCEPT !.tool = "until", !.serial = n, !.oneShot = TRUE]
  <2>2. /\ w.id = None /\ w.listed = <<>> /\ w.metas = <<>> /\ w.tool = "until"
        /\ w.removal = "none" /\ w.outcome = "none"
    BY DEF NoCall
  <2>3. Moves(t, "set", w)
    BY <2>1
  <2> HIDE DEF w
  <2>4. Now("set", w)
    BY <1>1, <2>2, IdleSays, FactsKept
  <2>5. Local("set", w)
    BY <2>2 DEF Local
  <2> QED
    BY <2>3, <2>4, <2>5, Speaks
<1>3. CASE Start(t)
  <2>1. PICK tool \in Tool \ {"until"}, oneShot \in BOOLEAN, i \in DOMAIN managed \cup {None} :
           /\ tool = "remove" <=> i # None
           /\ Moves(t, FirstStep(tool), [NoCall EXCEPT !.tool = tool, !.oneShot = oneShot, !.id = i])
    BY <1>3, StartMoves
  <2> DEFINE w == [NoCall EXCEPT !.tool = tool, !.oneShot = oneShot, !.id = i]
  <2>2. /\ w.id = i /\ w.listed = <<>> /\ w.metas = <<>> /\ w.tool = tool
        /\ w.removal = "none" /\ w.outcome = "none"
    BY DEF NoCall
  <2>3. Moves(t, FirstStep(tool), w)
    BY <2>1
  <2> HIDE DEF w
  <2>4. i # None => every'[i] # 0
    <3>1. i # None => i \in Instrument /\ every[i] # 0
      BY Types DEF Counted
    <3> QED
      BY <3>1, GrowStep DEF Grows
  <2>5. FirstStep(tool) \in {"set", "remove", "control", "ask"} /\ (FirstStep(tool) = "set" <=> tool = "set")
    BY DEF FirstStep, Tool
  <2>6. Now(FirstStep(tool), w)
    BY <2>2, <2>4, <2>5, NothingListed DEF Now, Facts
  <2>7. Local(FirstStep(tool), w)
    BY <2>1, <2>2, <2>5 DEF Local, Tool
  <2> QED
    BY <2>3, <2>6, <2>7, Speaks
<1> QED
  BY <1>2, <1>3

LEMMA SetSays ==
  ASSUME Shape, Believed, [Next]_vars, NEW t \in Thread, Set(t) \/ SetFails(t)
  PROVE  Says(t)
<1>1. call[t] \in CallType /\ Local(pc[t], call[t]) /\ Now(pc[t], call[t]) /\ pc[t] = "set"
  BY SaidBefore DEF Set, SetFails
<1>2. CASE Fails(t, "reply")
  BY <1>1, <1>2, FailsSays
<1>3. CASE Set(t)
  <2>1. PICK i \in Fresh, n \in Every \cup {1} :
           /\ armed' = armed \cup {i} /\ every' = [every EXCEPT ![i] = n]
           /\ i \in Instrument => Moves(t, "track", [call[t] EXCEPT !.id = i]) \/ Fails(t, "reply")
    BY <1>3, SetMoves
  <2> DEFINE w == [call[t] EXCEPT !.id = i]
  <2>2. i \in Instrument /\ every'[i] # 0 /\ i # None
    BY <2>1, EveryType, Constants
  <2>3. /\ w.id = i /\ w.listed = call[t].listed /\ w.metas = call[t].metas /\ w.tool = call[t].tool
        /\ w.removal = call[t].removal /\ w.outcome = call[t].outcome
    BY <1>1 DEF CallType
  <2>4. Moves(t, "track", w) \/ Fails(t, "reply")
    BY <2>1, <2>2
  <2> HIDE DEF w
  <2>5. call[t].outcome # "hit" /\ call[t].removal # "removed"
    BY <1>1 DEF Local, Now, Facts
  <2>6. Now("track", w)
    BY <1>1, <2>2, <2>3, <2>5 DEF Now, Facts
  <2>7. Local("track", w)
    BY <1>1, <2>2, <2>3 DEF Local
  <2> QED
    BY <1>2, <2>4, <2>6, <2>7, Speaks
<1> QED
  BY <1>2, <1>3, SetFailsMoves

\* A step that moves an instrument's call on, and changes its answer or scan at most.
LEMMA GoesOn ==
  ASSUME Shape, Believed, [Next]_vars, NEW t \in Thread, NEW s, NEW w, Moves(t, s, w),
         w.tool = call[t].tool, w.id = call[t].id, w.listed = call[t].listed,
         w.metas = call[t].metas, w.removal = call[t].removal, w.outcome = call[t].outcome,
         pc[t] \notin {"idle", "set", "reply"},
         s \notin {"idle", "set", "track", "push", "away"},
         pc[t] = "track" => call[t].tool = "until", s = "judge" => call[t].tool = "until", s # "reply"
  PROVE  Says(t)
<1>1. Local(pc[t], call[t]) /\ Now(pc[t], call[t])
  BY SaidBefore
<1>2. Now(s, w)
  BY <1>1, FactsKept
<1>3. Local(s, w)
  BY <1>1, LocalKept
<1> QED
  BY <1>2, <1>3, Speaks

LEMMA RunSays ==
  ASSUME Shape, Believed, [Next]_vars, NEW t \in Thread,
         Track(t) \/ Control(t) \/ ControlFails(t) \/ Note(t) \/ Ask(t) \/ AskFails(t) \/ ObserveAnswer(t)
  PROVE  Says(t)
<1>1. call[t] \in CallType
  BY SaidBefore
<1>2. ASSUME NEW a \in RunStates \cup {"unknown"}
      PROVE  LET w == [call[t] EXCEPT !.answer = a] IN
             /\ w.tool = call[t].tool /\ w.id = call[t].id /\ w.listed = call[t].listed
             /\ w.metas = call[t].metas /\ w.removal = call[t].removal /\ w.outcome = call[t].outcome
  BY <1>1 DEF CallType
<1>3. ASSUME NEW a \in RunStates
      PROVE  LET w == [call[t] EXCEPT !.answer = a, !.scan = Breakpoint] IN
             /\ w.tool = call[t].tool /\ w.id = call[t].id /\ w.listed = call[t].listed
             /\ w.metas = call[t].metas /\ w.removal = call[t].removal /\ w.outcome = call[t].outcome
  BY <1>1 DEF CallType
<1>4. CASE Moves(t, "idle", NoCall)
  BY <1>4, FallsSilent
<1>5. CASE Track(t)
  <2>1. pc[t] = "track"
    BY <1>5 DEF Track
  <2>2. CASE call[t].tool = "until" /\ Moves(t, "control", call[t])
    BY <2>1, <2>2, GoesOn
  <2> QED
    BY <1>4, <1>5, <2>2, TrackMoves
<1>6. CASE Control(t)
  <2>1. pc[t] = "control"
    BY <1>6 DEF Control
  <2>2. PICK a \in RunStates : Moves(t, "note", [call[t] EXCEPT !.answer = a])
    BY <1>6, ControlMoves
  <2> QED
    BY <1>2, <2>1, <2>2, GoesOn
<1>7. CASE ControlFails(t)
  BY <1>7, ControlFailsMoves, FailsSays DEF ControlFails
<1>8. CASE AskFails(t)
  BY <1>8, AskFailsMoves, FailsSays DEF AskFails
<1>9. CASE Note(t)
  <2>1. pc[t] = "note"
    BY <1>9 DEF Note
  <2>2. CASE call[t].tool = "until" /\ Moves(t, "ask", [call[t] EXCEPT !.answer = "unknown"])
    BY <1>2, <2>1, <2>2, GoesOn
  <2> QED
    BY <1>4, <1>9, <2>2, NoteMoves
<1>10. CASE Ask(t)
  <2>1. pc[t] = "ask"
    BY <1>10 DEF Ask
  <2>2. PICK a \in RunStates, s \in {"observe", "list"} :
           Moves(t, s, [call[t] EXCEPT !.answer = a, !.scan = Breakpoint])
    BY <1>10, AskMoves
  <2> QED
    BY <1>3, <2>1, <2>2, GoesOn
<1>11. CASE ObserveAnswer(t)
  <2>1. pc[t] = "observe"
    BY <1>11 DEF ObserveAnswer
  <2>2. CASE call[t].tool = "until" /\ Moves(t, "judge", call[t])
    BY <2>1, <2>2, GoesOn
  <2> QED
    BY <1>4, <1>11, <2>2, ObserveMoves
<1> QED
  BY <1>5, <1>6, <1>7, <1>8, <1>9, <1>10, <1>11

LEMMA RemoveSays ==
  ASSUME Shape, Believed, [Next]_vars, NEW t \in Thread, RemoveInstrument(t) \/ RemoveFails(t)
  PROVE  Says(t)
<1>1. call[t] \in CallType /\ Local(pc[t], call[t]) /\ Now(pc[t], call[t]) /\ pc[t] = "remove"
  BY SaidBefore DEF RemoveInstrument, RemoveFails
<1>2. ASSUME NEW r \in {"removed", "failed"}, call[t].tool = "until",
             Moves(t, "reply", [call[t] EXCEPT !.removal = r]),
             r = "removed" => call[t].id \notin armed'
      PROVE  Says(t)
  <2> DEFINE w == [call[t] EXCEPT !.removal = r]
  <2>1. /\ w.tool = call[t].tool /\ w.id = call[t].id /\ w.listed = call[t].listed
        /\ w.metas = call[t].metas /\ w.removal = r /\ w.outcome = call[t].outcome
    BY <1>1 DEF CallType
  <2>2. Moves(t, "reply", w)
    BY <1>2
  <2> HIDE DEF w
  <2>3. call[t].id # None
    BY <1>1, <1>2 DEF Local
  <2>4. Now("reply", w)
    BY <1>1, <1>2, <2>1, <2>3 DEF Now, Facts
  <2>5. Local("reply", w)
    BY <1>1, <1>2, <2>1, LocalKept
  <2> QED
    BY <2>2, <2>4, <2>5, Speaks
<1>3. CASE Moves(t, "idle", NoCall)
  BY <1>3, FallsSilent
<1>4. CASE RemoveInstrument(t)
  <2>1. call[t].id \notin armed'
    BY <1>4 DEF RemoveInstrument
  <2> QED
    BY <1>2, <1>3, <1>4, <2>1, RemovedMoves DEF RemoveInstrument
<1>5. CASE RemoveFails(t)
  BY <1>2, <1>3, <1>5, RemovedMoves DEF RemoveFails
<1> QED
  BY <1>4, <1>5

\* The steps of a sweep: the snapshots it takes are true, and stay true.
LEMMA SnapshotSays ==
  ASSUME Shape, Believed, [Next]_vars, NEW t \in Thread, NEW s, NEW w, Moves(t, s, w),
         w.tool = call[t].tool, w.id = call[t].id, w.removal = call[t].removal,
         w.outcome = call[t].outcome,
         pc[t] \notin {"idle", "set", "track", "reply"},
         s \in {"list", "observe", "metas", "sweep"},
         \A i \in DOMAIN w.listed : w.listed[i] <= hits'[i],
         \A i \in DOMAIN w.metas : w.metas[i].every = every'[i]
  PROVE  Says(t)
<1>1. Local(pc[t], call[t]) /\ Now(pc[t], call[t])
  BY SaidBefore
<1>2. Now(s, w)
  BY <1>1 DEF Now, Facts
<1>3. Local(s, w)
  BY <1>1, LocalKept
<1> QED
  BY <1>2, <1>3, Speaks

LEMMA ListSays ==
  ASSUME Shape, Counted, Believed, [Next]_vars, NEW t \in Thread,
         \/ List(t) \/ ListFails(t) \/ Metas(t) \/ SweepEnds(t)
         \/ Shrinks(t) /\ pc[t] \in {"sweep", "push", "away"}
  PROVE  Says(t)
<1>1. call[t] \in CallType /\ Now(pc[t], call[t]) /\ pc[t] \in {"list", "metas", "sweep", "push", "away"}
  BY SaidBefore DEF List, ListFails, Metas, SweepEnds
<1>2. /\ \A i \in DOMAIN call[t].listed : call[t].listed[i] <= hits'[i]
      /\ \A i \in DOMAIN call[t].metas : call[t].metas[i].every = every'[i]
  BY <1>1 DEF Now, Facts
<1>3. CASE Rescans(t)
  <2>1. PICK s \in {"list", "observe"}, c \in {{}, Watchpoint} :
          Moves(t, s, [call[t] EXCEPT !.scan = c, !.listed = <<>>, !.metas = <<>>])
    BY <1>3 DEF Rescans
  <2> DEFINE w == [call[t] EXCEPT !.scan = c, !.listed = <<>>, !.metas = <<>>]
  <2>2. /\ w.tool = call[t].tool /\ w.id = call[t].id /\ w.listed = <<>>
        /\ w.metas = <<>> /\ w.removal = call[t].removal /\ w.outcome = call[t].outcome
    BY <1>1 DEF CallType
  <2>3. Moves(t, s, w)
    BY <2>1
  <2> HIDE DEF w
  <2> QED
    BY <1>1, <2>2, <2>3, NothingListed, SnapshotSays
<1>4. CASE List(t)
  <2>1. PICK f \in Counters :
          Moves(t, "metas", [call[t] EXCEPT !.listed = f]) /\ \A i \in DOMAIN f : f[i] = hits[i]
    BY <1>4, ListMoves
  <2> DEFINE w == [call[t] EXCEPT !.listed = f]
  <2>2. /\ w.tool = call[t].tool /\ w.id = call[t].id /\ w.listed = f
        /\ w.metas = call[t].metas /\ w.removal = call[t].removal /\ w.outcome = call[t].outcome
    BY <1>1 DEF CallType
  <2>3. Moves(t, "metas", w)
    BY <2>1
  <2>4. \A i \in DOMAIN f : f[i] <= hits'[i]
    BY <2>1, CountersAre, GrowStep DEF Grows
  <2> HIDE DEF w
  <2> QED
    BY <1>1, <1>2, <2>2, <2>3, <2>4, SnapshotSays
<1>5. ASSUME NEW f \in Provenance, Moves(t, "sweep", [call[t] EXCEPT !.metas = f]),
             \A i \in DOMAIN f : f[i].every = every'[i]
      PROVE  Says(t)
  <2> DEFINE w == [call[t] EXCEPT !.metas = f]
  <2>1. /\ w.tool = call[t].tool /\ w.id = call[t].id /\ w.listed = call[t].listed
        /\ w.metas = f /\ w.removal = call[t].removal /\ w.outcome = call[t].outcome
    BY <1>1 DEF CallType
  <2>2. Moves(t, "sweep", w)
    BY <1>5
  <2> HIDE DEF w
  <2> QED
    BY <1>1, <1>2, <1>5, <2>1, <2>2, SnapshotSays
<1>6. CASE Metas(t)
  <2>1. ASSUME NEW i \in DOMAIN managed PROVE managed[i].every = every'[i]
    <3>1. i \in Instrument /\ every[i] # 0 /\ managed[i].every = every[i]
      BY Types DEF Counted
    <3> QED
      BY <3>1, GrowStep DEF Grows
  <2> QED
    BY <1>3, <1>5, <1>6, <2>1, MetasMoves
<1>7. CASE Shrinks(t)
  BY <1>2, <1>5, <1>7 DEF Shrinks
<1> QED
  BY <1>3, <1>4, <1>6, <1>7, NextScanMoves DEF ListFails, SweepEnds

LEMMA SweepSays ==
  ASSUME Shape, Counted, Believed, [Next]_vars, NEW t \in Thread, Sweep(t) \/ Push(t) \/ SweepAway(t)
  PROVE  Says(t)
<1>1. /\ Local(pc[t], call[t]) /\ Now(pc[t], call[t])
      /\ pc[t] \in {"sweep", "push", "away"}
  BY SaidBefore DEF Sweep, Push, SweepAway
<1>2. CASE Shrinks(t)
  BY <1>1, <1>2, ListSays
<1>3. ASSUME NEW s \in {"push", "away"} PROVE Local(s, call[t])
  BY <1>1, LocalKept
<1>4. CASE /\ Moves(t, "push", call[t]) /\ DOMAIN call[t].metas # {}
           /\ Swept(t) \in DOMAIN call[t].listed
           /\ FiredProof(call[t].listed[Swept(t)], call[t].metas[Swept(t)].every)
  <2>1. Swept(t) \in DOMAIN call[t].metas
    BY <1>4, SweptIs
  <2>2. Now("push", call[t])
    BY <1>1, <1>4, <2>1 DEF Now, Facts, Swept
  <2> QED
    BY <1>3, <1>4, <2>2, Speaks
<1>5. CASE pc[t] = "push" /\ Moves(t, "away", call[t]) /\ SweepsAway(call[t].metas[Swept(t)])
  <2>1. Now("away", call[t])
    BY <1>1, <1>5 DEF Now, Facts, Swept
  <2> QED
    BY <1>3, <1>5, <2>1, Speaks
<1> QED
  BY <1>2, <1>4, <1>5, SweepMoves, PushMoves, SweepAwayMoves DEF Sweep, Push

LEMMA JudgeSays ==
  ASSUME Shape, Believed, [Next]_vars, NEW t \in Thread,
         JudgePaused(t) \/ JudgeRunning(t) \/ JudgeLate(t) \/ Reply(t)
  PROVE  Says(t)
<1>1. call[t] \in CallType /\ Local(pc[t], call[t]) /\ Now(pc[t], call[t])
  BY SaidBefore
<1>2. CASE Reply(t)
  BY <1>2, ReplyMoves, FallsSilent, SMTT(40)
<1>3. CASE JudgePaused(t) \/ JudgeRunning(t) \/ JudgeLate(t)
  <2>1. pc[t] = "judge" /\ call[t].tool = "until"
    BY <1>1, <1>3 DEF JudgePaused, JudgeRunning, JudgeLate, Local
  <2>2. ASSUME Moves(t, "ask", [call[t] EXCEPT !.answer = "unknown"]) PROVE Says(t)
    <3> DEFINE w == [call[t] EXCEPT !.answer = "unknown"]
    <3>1. /\ w.tool = call[t].tool /\ w.id = call[t].id /\ w.listed = call[t].listed
          /\ w.metas = call[t].metas /\ w.removal = call[t].removal /\ w.outcome = call[t].outcome
      BY <1>1 DEF CallType
    <3>2. Moves(t, "ask", w)
      BY <2>2
    <3> HIDE DEF w
    <3> QED
      BY <2>1, <3>1, <3>2, GoesOn
  <2>3. ASSUME NEW o \in {"hit", "preempted", "timeout"}, o = "hit" => stop = call[t].id,
               Moves(t, "remove", [call[t] EXCEPT !.outcome = o, !.answer = "unknown"])
        PROVE  Says(t)
    <3> DEFINE w == [call[t] EXCEPT !.outcome = o, !.answer = "unknown"]
    <3>1. /\ w.tool = call[t].tool /\ w.id = call[t].id /\ w.listed = call[t].listed
          /\ w.metas = call[t].metas /\ w.removal = call[t].removal /\ w.outcome = o
      BY <1>1 DEF CallType
    <3>2. Moves(t, "remove", w)
      BY <2>3
    <3> HIDE DEF w
    <3>3. call[t].id # None /\ call[t].id \in Instrument
      BY <1>1, <2>1 DEF Local, CallType
    <3>4. o = "hit" => fired'[call[t].id] # {}
      BY <2>3, <3>3, GrowStep DEF Grows, Believed
    <3>5. Now("remove", w)
      BY <1>1, <3>1, <3>3, <3>4 DEF Now, Facts
    <3>6. Local("remove", w)
      BY <1>1, <2>1, <3>1, LocalKept
    <3> QED
      BY <3>2, <3>5, <3>6, Speaks
  <2> QED
    BY <1>3, <2>2, <2>3, JudgeMoves
<1> QED
  BY <1>2, <1>3

LEMMA ActsSays ==
  ASSUME Shape, Counted, Believed, [Next]_vars, NEW t \in Thread, Acts(t)
  PROVE  Says(t)
<1>1. CASE StartUntil(t) \/ Start(t) \/ Set(t) \/ SetFails(t)
  BY <1>1, StartSays, SetSays
<1>2. CASE \/ Track(t) \/ Control(t) \/ ControlFails(t) \/ Note(t) \/ Ask(t) \/ AskFails(t)
           \/ ObserveAnswer(t)
  BY <1>2, RunSays
<1>3. CASE RemoveInstrument(t) \/ RemoveFails(t)
  BY <1>3, RemoveSays
<1>4. CASE List(t) \/ ListFails(t) \/ Metas(t) \/ SweepEnds(t)
  BY <1>4, ListSays
<1>5. CASE Sweep(t) \/ Push(t) \/ SweepAway(t)
  BY <1>5, SweepSays
<1>6. CASE JudgePaused(t) \/ JudgeRunning(t) \/ JudgeLate(t) \/ Reply(t)
  BY <1>6, JudgeSays
<1> QED
  BY <1>1, <1>2, <1>3, <1>4, <1>5, <1>6 DEF Acts, Step

LEMMA BelievedStep ==
  ASSUME Shape, Counted, Believed, [Next]_vars
  PROVE  Believed'
<1>1. ASSUME NEW t \in Thread, Acts(t)
      PROVE  Believed'
  <2>1. ASSUME NEW u \in Thread PROVE Local(pc'[u], call'[u]) /\ Now(pc'[u], call'[u])
    <3>1. PICK s \in PcStep, w \in CallType : Moves(t, s, w) /\ Local(s, w) /\ Now(s, w)
      BY <1>1, ActsSays DEF Says
    <3>2. CASE u = t
      BY <3>1, <3>2 DEF Moves
    <3>3. CASE u # t
      BY <3>1, <3>3, SaidBefore DEF Moves
    <3> QED
      BY <3>2, <3>3
  <2>2. ASSUME NEW i \in DOMAIN call[t].listed \cap DOMAIN call[t].metas,
               FiredProof(call[t].listed[i], call[t].metas[i].every)
        PROVE  i \in Instrument /\ call[t].listed[i] \in fired[i] /\ call[t].listed[i] \in fired'[i]
    <3>1. call[t] \in CallType /\ True(pc[t], call[t])
      BY Types DEF Believed
    <3>2. i \in Instrument /\ call[t].listed[i] \in fired[i]
      BY <2>2, <3>1, ProofIsReal
    <3> QED
      BY <3>2, GrowStep DEF Grows
  <2>3. stop' # None => fired'[stop'] # {}
    <3>1. CASE Attributes(t)
      <4>1. stop' = Swept(t) /\ Swept(t) \in DOMAIN call[t].listed \cap DOMAIN call[t].metas
        BY <3>1, SweptIs DEF Attributes, SetBreakpointStop
      <4>2. call[t].listed[Swept(t)] \in fired'[Swept(t)]
        BY <2>2, <3>1, <4>1 DEF Attributes
      <4> QED
        BY <4>1, <4>2
    <3>2. CASE stop' \in {stop, None}
      <4>1. stop \in Instrument \cup {None}
        BY DEF Shape, TrackerTypeOK
      <4> QED
        BY <3>2, <4>1, GrowStep DEF Grows, Believed
    <3> QED
      BY <1>1, <3>1, <3>2, TrackerStep
  <2>4. ASSUME NEW i \in Instrument, NEW k \in DOMAIN events'[i] PROVE events'[i][k] \in fired'[i]
    <3>1. \A j \in DOMAIN events[i] : events[i][j] \in fired'[i]
      BY GrowStep DEF Grows, Believed
    <3>2. CASE UNCHANGED events
      BY <2>4, <3>1, <3>2
    <3>3. CASE Records(t) /\ i # Swept(t)
      BY <2>4, <3>1, <3>3 DEF Records, Shape
    <3>4. CASE Records(t) /\ i = Swept(t)
      <4>1. /\ i \in DOMAIN call[t].listed \cap DOMAIN call[t].metas
            /\ FiredProof(call[t].listed[i], call[t].metas[i].every)
        BY <3>4 DEF Records, Believed, True, Facts, Swept
      <4>2. call[t].listed[i] \in fired'[i] /\ call[t].listed[i] \in Nat
        BY <2>2, <4>1, Types
      <4>3. events'[i] = Append(events[i], call[t].listed[i]) /\ events[i] \in Seq(Nat)
        BY <3>4 DEF Records, Shape
      <4>4. CASE k \in DOMAIN events[i]
        BY <3>1, <4>2, <4>3, <4>4
      <4>5. CASE k \notin DOMAIN events[i]
        <5>1. k = Len(events[i]) + 1
          BY <2>4, <4>2, <4>3, <4>5
        <5> QED
          BY <4>2, <4>3, <5>1
      <4> QED
        BY <4>4, <4>5
    <3> QED
      BY <1>1, <3>2, <3>3, <3>4, EventsStep
  <2> QED
    BY <2>1, <2>3, <2>4 DEF Believed, True, Now
<1>2. ASSUME UNCHANGED <<pc, call, stop, events>>
      PROVE  Believed'
  <2>1. \A u \in Thread : Local(pc'[u], call'[u]) /\ Now(pc'[u], call'[u])
    BY <1>2, SaidBefore
  <2>2. stop' # None => fired'[stop'] # {}
    <3>1. stop \in Instrument \cup {None}
      BY DEF Shape, TrackerTypeOK
    <3> QED
      BY <1>2, <3>1, GrowStep DEF Grows, Believed
  <2>3. \A i \in Instrument : \A k \in DOMAIN events'[i] : events'[i][k] \in fired'[i]
    BY <1>2, GrowStep DEF Grows, Believed
  <2> QED
    BY <2>1, <2>2, <2>3 DEF Believed, True, Now
<1>3. ASSUME NEW i \in Instrument, Hit(i)
      PROVE  Believed'
  BY <1>2, <1>3 DEF Hit, trackerVars
<1>4. CASE ToggleInUI \/ LockExpires \/ UNCHANGED vars
  <2>1. UNCHANGED <<pc, call, stop, events>>
    BY <1>4 DEF ToggleInUI, LockExpires, vars, trackerVars
  <2> QED
    BY <1>2, <2>1
<1> QED
  BY <1>1, <1>3, <1>4 DEF Next, NoMoreCalls, Acts

-----------------------------------------------------------------------------
(* Whose instrument it is.                                                  *)

\* The instrument of a call that moves is the one it had, a fresh one, or none it
\* has set; and the provenance it works on is what it had, or a copy of managed.
Binds(t, s, w) ==
  /\ \A i \in DOMAIN w.metas :
       \/ i \in DOMAIN call[t].metas /\ w.metas[i] = call[t].metas[i]
       \/ i \in DOMAIN managed /\ w.metas[i] = managed[i]
  /\ \/ w.tool \notin {"set", "until"} \/ w.id = None
     \/ /\ w.tool = call[t].tool /\ w.id = call[t].id
        /\ pc[t] \in {"remove", "reply"} => s \in {"remove", "reply"}
     \/ pc[t] = "set" /\ w.id \in Fresh

Bound(t) == \E s \in PcStep, w \in CallType : Moves(t, s, w) /\ Binds(t, s, w)

LEMMA Keeping ==
  ASSUME NEW t, NEW s, NEW w, Moves(t, s, w), w.tool = call[t].tool, w.id = call[t].id,
         w.metas = call[t].metas, pc[t] \in {"remove", "reply"} => s \in {"remove", "reply"}
  PROVE  Bound(t)
BY DEF Bound, Binds, Moves

LEMMA Silence ==
  ASSUME NEW t, Moves(t, "idle", NoCall)
  PROVE  Bound(t)
<1>1. NoCall.tool = "none" /\ DOMAIN NoCall.metas = {}
  BY NothingListed DEF NoCall
<1> QED
  BY <1>1 DEF Bound, Binds, Moves

LEMMA FailsBound ==
  ASSUME Shape, NEW t \in Thread, NEW step \in {"reply", "remove"}, Fails(t, step)
  PROVE  Bound(t)
<1> DEFINE w == [call[t] EXCEPT !.outcome = "failed"]
<1>1. CASE Moves(t, step, w)
  <2>1. w.tool = call[t].tool /\ w.id = call[t].id /\ w.metas = call[t].metas
    BY Types DEF CallType
  <2>2. Moves(t, step, w)
    BY <1>1
  <2> HIDE DEF w
  <2> QED
    BY <2>1, <2>2, Keeping
<1> QED
  BY <1>1, Silence DEF Fails

LEMMA StartBound ==
  ASSUME Shape, NEW t \in Thread, StartUntil(t) \/ Start(t)
  PROVE  Bound(t)
<1>1. CASE StartUntil(t)
  <2>1. PICK n \in 0..MaxCalls :
          Moves(t, "set", [NoCall EXCEPT !.tool = "until", !.serial = n, !.oneShot = TRUE])
    BY <1>1, StartUntilMoves
  <2> DEFINE w == [NoCall EXCEPT !.tool = "until", !.serial = n, !.oneShot = TRUE]
  <2>2. w.id = None /\ DOMAIN w.metas = {}
    BY NothingListed DEF NoCall
  <2>3. Moves(t, "set", w)
    BY <2>1
  <2> HIDE DEF w
  <2> QED
    BY <2>2, <2>3 DEF Bound, Binds, Moves
<1>2. CASE Start(t)
  <2>1. PICK tool \in Tool \ {"until"}, oneShot \in BOOLEAN, i \in DOMAIN managed \cup {None} :
           /\ tool = "remove" <=> i # None
           /\ Moves(t, FirstStep(tool), [NoCall EXCEPT !.tool = tool, !.oneShot = oneShot, !.id = i])
    BY <1>2, StartMoves
  <2> DEFINE w == [NoCall EXCEPT !.tool = tool, !.oneShot = oneShot, !.id = i]
  <2>2. w.id = i /\ w.tool = tool /\ DOMAIN w.metas = {}
    BY NothingListed DEF NoCall
  <2>3. Moves(t, FirstStep(tool), w)
    BY <2>1
  <2> HIDE DEF w
  <2>4. w.tool \notin {"set", "until"} \/ w.id = None
    BY <2>1, <2>2
  <2> QED
    BY <2>2, <2>3, <2>4 DEF Bound, Binds, Moves
<1> QED
  BY <1>1, <1>2

LEMMA SetBound ==
  ASSUME Shape, NEW t \in Thread, Set(t) \/ SetFails(t)
  PROVE  Bound(t)
<1>1. CASE Fails(t, "reply")
  BY <1>1, FailsBound
<1>2. ASSUME NEW i \in Fresh, Set(t), Moves(t, "track", [call[t] EXCEPT !.id = i])
      PROVE  Bound(t)
  <2> DEFINE w == [call[t] EXCEPT !.id = i]
  <2>1. w.id = i /\ w.metas = call[t].metas
    BY Types DEF CallType
  <2>2. Moves(t, "track", w) /\ pc[t] = "set"
    BY <1>2 DEF Set
  <2> HIDE DEF w
  <2> QED
    BY <2>1, <2>2 DEF Bound, Binds, Moves
<1> QED
  BY <1>1, <1>2, SetMoves, FreshIs, SetFailsMoves

LEMMA RunBound ==
  ASSUME Shape, NEW t \in Thread,
         \/ Track(t) \/ Control(t) \/ ControlFails(t) \/ Note(t) \/ Ask(t) \/ AskFails(t)
         \/ ObserveAnswer(t) \/ RemoveInstrument(t) \/ RemoveFails(t)
         \/ JudgePaused(t) \/ JudgeRunning(t) \/ JudgeLate(t) \/ Reply(t)
  PROVE  Bound(t)
<1>1. call[t] \in CallType
  BY Types
<1>2. ASSUME NEW s, NEW a, NEW w, Moves(t, s, w), pc[t] \in {"remove", "reply"} => s \in {"remove", "reply"},
             \/ w = call[t]
             \/ w = [call[t] EXCEPT !.answer = a]
             \/ w = [call[t] EXCEPT !.answer = a, !.scan = Breakpoint]
             \/ w = [call[t] EXCEPT !.removal = a]
             \/ w = [call[t] EXCEPT !.outcome = a, !.answer = "unknown"]
      PROVE  Bound(t)
  <2>1. w.tool = call[t].tool /\ w.id = call[t].id /\ w.metas = call[t].metas
    BY <1>1, <1>2 DEF CallType
  <2> QED
    BY <1>2, <2>1, Keeping
<1>3. CASE Moves(t, "idle", NoCall)
  BY <1>3, Silence
<1>4. CASE Track(t) \/ Note(t) \/ ObserveAnswer(t)
  BY <1>2, <1>3, <1>4, TrackMoves, NoteMoves, ObserveMoves DEF Track, Note, ObserveAnswer
<1>5. CASE Control(t)
  BY <1>2, <1>5, ControlMoves DEF Control
<1>6. CASE Ask(t)
  BY <1>2, <1>6, AskMoves, ZenonT(60) DEF Ask
<1>7. CASE RemoveInstrument(t) \/ RemoveFails(t)
  BY <1>2, <1>3, <1>7, RemovedMoves, ZenonT(60) DEF RemoveInstrument, RemoveFails
<1>8. CASE JudgePaused(t) \/ JudgeRunning(t) \/ JudgeLate(t)
  BY <1>2, <1>8, JudgeMoves DEF JudgePaused, JudgeRunning, JudgeLate
<1>9. CASE ControlFails(t) \/ AskFails(t) \/ Reply(t)
  BY <1>3, <1>9, ControlFailsMoves, AskFailsMoves, FailsBound, ReplyMoves
<1> QED
  BY <1>4, <1>5, <1>6, <1>7, <1>8, <1>9

LEMMA SweepBound ==
  ASSUME Shape, NEW t \in Thread,
         \/ List(t) \/ ListFails(t) \/ Metas(t) \/ SweepEnds(t)
         \/ Sweep(t) \/ Push(t) \/ SweepAway(t)
  PROVE  Bound(t)
<1>1. call[t] \in CallType /\ pc[t] \notin {"remove", "reply"}
  BY Types DEF List, ListFails, Metas, SweepEnds, Sweep, Push, SweepAway
<1>2. CASE Rescans(t)
  <2>1. PICK s \in {"list", "observe"}, c \in {{}, Watchpoint} :
          Moves(t, s, [call[t] EXCEPT !.scan = c, !.listed = <<>>, !.metas = <<>>])
    BY <1>2 DEF Rescans
  <2> DEFINE w == [call[t] EXCEPT !.scan = c, !.listed = <<>>, !.metas = <<>>]
  <2>2. w.tool = call[t].tool /\ w.id = call[t].id /\ DOMAIN w.metas = {}
    BY <1>1, NothingListed DEF CallType
  <2>3. Moves(t, s, w)
    BY <2>1
  <2> HIDE DEF w
  <2> QED
    BY <1>1, <2>2, <2>3 DEF Bound, Binds, Moves
<1>3. ASSUME NEW f, Moves(t, "sweep", [call[t] EXCEPT !.metas = f]),
             \A i \in DOMAIN f : \/ i \in DOMAIN call[t].metas /\ f[i] = call[t].metas[i]
                                 \/ i \in DOMAIN managed /\ f[i] = managed[i]
      PROVE  Bound(t)
  <2> DEFINE w == [call[t] EXCEPT !.metas = f]
  <2>1. w.tool = call[t].tool /\ w.id = call[t].id /\ w.metas = f
    BY <1>1 DEF CallType
  <2>2. Moves(t, "sweep", w)
    BY <1>3
  <2> HIDE DEF w
  <2> QED
    BY <1>1, <1>3, <2>1, <2>2 DEF Bound, Binds, Moves
<1>4. CASE List(t)
  <2>1. PICK f \in Counters : Moves(t, "metas", [call[t] EXCEPT !.listed = f])
    BY <1>4, ListMoves
  <2> DEFINE w == [call[t] EXCEPT !.listed = f]
  <2>2. w.tool = call[t].tool /\ w.id = call[t].id /\ w.metas = call[t].metas
    BY <1>1 DEF CallType
  <2>3. Moves(t, "metas", w)
    BY <2>1
  <2> HIDE DEF w
  <2> QED
    BY <1>1, <2>2, <2>3, Keeping
<1>5. CASE ListFails(t) \/ SweepEnds(t)
  BY <1>2, <1>5, NextScanMoves DEF ListFails, SweepEnds
<1>6. CASE Metas(t)
  BY <1>2, <1>3, <1>6, MetasMoves, ZenonT(60)
<1>7. CASE Shrinks(t)
  BY <1>3, <1>7 DEF Shrinks
<1>8. ASSUME NEW s \in {"push", "away"}, Moves(t, s, call[t])
      PROVE  Bound(t)
  BY <1>1, <1>8, Keeping
<1> QED
  BY <1>4, <1>5, <1>6, <1>7, <1>8, SweepMoves, PushMoves, SweepAwayMoves

LEMMA ActsBound ==
  ASSUME Shape, NEW t \in Thread, Acts(t)
  PROVE  Bound(t)
<1>1. CASE StartUntil(t) \/ Start(t) \/ Set(t) \/ SetFails(t)
  BY <1>1, StartBound, SetBound
<1>2. CASE \/ Track(t) \/ Control(t) \/ ControlFails(t) \/ Note(t) \/ Ask(t) \/ AskFails(t)
           \/ ObserveAnswer(t) \/ RemoveInstrument(t) \/ RemoveFails(t)
           \/ JudgePaused(t) \/ JudgeRunning(t) \/ JudgeLate(t) \/ Reply(t)
  BY <1>2, RunBound
<1>3. CASE \/ List(t) \/ ListFails(t) \/ Metas(t) \/ SweepEnds(t)
           \/ Sweep(t) \/ Push(t) \/ SweepAway(t)
  BY <1>3, SweepBound
<1> QED
  BY <1>1, <1>2, <1>3 DEF Acts, Step

\* An instrument that was never set is in no record, and is no call's.
LEMMA Unset ==
  ASSUME Shape, Counted, Believed, NEW i \in Fresh
  PROVE  /\ i # None /\ i \notin DOMAIN managed
         /\ \A u \in Thread : call[u].id # i /\ i \notin DOMAIN call[u].metas
<1>1. i \in Instrument /\ every[i] = 0 /\ i # None
  BY FreshIs, Constants
<1>2. i \notin DOMAIN managed
  BY <1>1 DEF Counted
<1>3. ASSUME NEW u \in Thread PROVE call[u].id # i
  BY <1>1 DEF Believed, True, Facts
<1>4. ASSUME NEW u \in Thread, i \in DOMAIN call[u].metas PROVE FALSE
  <2>1. call[u].metas[i].every = every[i]
    BY <1>4 DEF Believed, True, Facts
  <2>2. call[u].metas[i].every \in Every \cup {1}
    BY <1>4, Types DEF Meta
  <2> QED
    BY <1>1, <2>1, <2>2, Constants
<1> QED
  BY <1>1, <1>2, <1>3, <1>4

\* What the call of t reserves: its instrument, that no other call has set, defers
\* its removal wherever its provenance is.
Reserved(i, m, c) ==
  /\ i \in DOMAIN m => m[i].defer
  /\ \A u \in Thread : i \in DOMAIN c[u].metas => c[u].metas[i].defer

LEMMA OwnedStep ==
  ASSUME Shape, Counted, Believed, Owned, [Next]_vars
  PROVE  Owned'
<1>1. ASSUME NEW t \in Thread, Acts(t)
      PROVE  Owned'
  <2>1. PICK s \in PcStep, w \in CallType : Moves(t, s, w) /\ Binds(t, s, w)
    BY <1>1, ActsBound DEF Bound
  <2>2. /\ pc'[t] = s /\ call'[t] = w
        /\ \A u \in Thread \ {t} : call'[u] = call[u] /\ pc'[u] = pc[u]
    BY <2>1 DEF Moves
  <2>3. pc[t] = "set" => call[t].id = None
    BY DEF Believed, Local
  <2>4. ASSUME NEW u \in Thread \ {t}, w.tool \in {"set", "until"}, Owns(u), w.id # None
        PROVE  w.id # call[u].id
    <3>1. CASE w.tool = call[t].tool /\ w.id = call[t].id
      BY <2>4, <3>1 DEF Owned, Owns
    <3>2. CASE w.id \in Fresh
      BY <2>4, <3>2, Unset
    <3> QED
      BY <2>1, <2>4, <3>1, <3>2 DEF Binds
  <2>5. ASSUME NEW u \in Thread, NEW v \in Thread, u # v, Owns(u)', Owns(v)', call'[u].id # None
        PROVE  call'[u].id # call'[v].id
    <3>1. CASE u = t
      BY <2>2, <2>4, <2>5, <3>1 DEF Owns
    <3>2. CASE v = t
      BY <2>2, <2>4, <2>5, <3>2 DEF Owns
    <3>3. CASE u # t /\ v # t
      BY <2>2, <2>5, <3>3 DEF Owned, Owns
    <3> QED
      BY <3>1, <3>2, <3>3
  <2>6. ASSUME NEW i, Reserved(i, managed, call), i \in DOMAIN managed',
               Tracks(t) /\ i = call[t].id => call[t].tool = "until",
               HandsBack(t) => i # call[t].id
        PROVE  managed'[i].defer
    <3>1. CASE Drops \/ HandsBack(t)
      BY <2>6, <3>1 DEF Drops, HandsBack, Reserved
    <3>2. CASE Tracks(t) /\ i # call[t].id
      BY <2>6, <3>2 DEF Tracks, Reserved
    <3>3. CASE Tracks(t) /\ i = call[t].id
      <4>1. (call[t].tool = "until") = TRUE
        BY <2>6, <3>3
      <4>2. managed'[i].defer = (call[t].tool = "until")
        BY <3>3 DEF Tracks
      <4> QED
        BY <4>1, <4>2
    <3> QED
      BY <1>1, <3>1, <3>2, <3>3, ManagedStep
  <2>7. ASSUME NEW i, Reserved(i, managed, call), NEW v \in Thread, i \in DOMAIN call'[v].metas
        PROVE  call'[v].metas[i].defer
    BY <2>1, <2>2, <2>7 DEF Binds, Reserved
  <2>8. ASSUME NEW u \in Thread, Waits(u)'
        PROVE  Reserved(call'[u].id, managed', call')
    <3>1. ASSUME Waits(u), call'[u].id = call[u].id
          PROVE  Reserved(call'[u].id, managed', call')
      <4>1. Reserved(call[u].id, managed, call)
        BY <3>1 DEF Owned, Reserved
      <4>2. Tracks(t) /\ call[u].id = call[t].id => call[t].tool = "until"
        <5>1. Tracks(t) => Owns(t)
          BY DEF Tracks, Owns, Believed, Local
        <5> QED
          BY <3>1, <5>1 DEF Owned, Owns, Waits
      <4>3. HandsBack(t) => call[u].id # call[t].id
        BY <3>1 DEF HandsBack, Waits, Owned, Owns
      <4> QED
        BY <2>6, <2>7, <3>1, <4>1, <4>2, <4>3 DEF Reserved
    <3>2. CASE u # t
      BY <2>2, <2>8, <3>1, <3>2 DEF Waits
    <3>3. CASE u = t /\ w.tool = call[t].tool /\ w.id = call[t].id
               /\ (pc[t] \in {"remove", "reply"} => s \in {"remove", "reply"})
      BY <2>2, <2>8, <3>1, <3>3 DEF Waits
    <3>4. CASE u = t /\ pc[t] = "set" /\ w.id \in Fresh
      <4>1. /\ w.id \notin DOMAIN managed
            /\ \A v \in Thread : w.id \notin DOMAIN call[v].metas
        BY <3>4, Unset
      <4>2. w.id \notin DOMAIN managed'
        BY <1>1, <3>4, <4>1, ManagedStep DEF Drops, Tracks, HandsBack
      <4>3. Reserved(w.id, managed, call)
        BY <4>1 DEF Reserved
      <4> QED
        BY <2>2, <2>7, <3>4, <4>2, <4>3 DEF Reserved
    <3> QED
      BY <2>1, <2>2, <2>8, <3>2, <3>3, <3>4 DEF Binds, Waits
  <2> QED
    BY <2>5, <2>8 DEF Owned, Reserved
<1>2. ASSUME UNCHANGED <<pc, call, managed>>
      PROVE  Owned'
  BY <1>2 DEF Owned, Owns, Waits
<1>3. ASSUME NEW i \in Instrument, Hit(i)
      PROVE  Owned'
  BY <1>2, <1>3 DEF Hit
<1>4. CASE ToggleInUI \/ LockExpires \/ UNCHANGED vars
  <2>1. UNCHANGED <<pc, call, managed>>
    BY <1>4 DEF ToggleInUI, LockExpires, vars
  <2> QED
    BY <1>2, <2>1
<1> QED
  BY <1>1, <1>3, <1>4 DEF Next, NoMoreCalls, Acts

-----------------------------------------------------------------------------
(* The theorems.                                                            *)

LEMMA StopsInit == Init => StopsInv
<1> SUFFICES ASSUME Init PROVE StopsInv
  OBVIOUS
<1>1. /\ pc = [t \in Thread |-> "idle"] /\ call = [t \in Thread |-> NoCall]
      /\ every = [i \in Instrument |-> 0] /\ hits = [i \in Instrument |-> 0]
      /\ fired = [i \in Instrument |-> {}] /\ events = [i \in Instrument |-> <<>>]
      /\ armed = {} /\ managed = <<>> /\ stop = None /\ running \in BOOLEAN
      /\ lock = 0 /\ calls = 0
  BY DEF Init, TrackerInit
<1>2. \A t \in Thread : Local(pc[t], call[t]) /\ True(pc[t], call[t])
  BY <1>1, NothingListed DEF NoCall, Local, True, Facts
<1>3. Shape
  <2>1. call \in [Thread -> CallType] /\ pc \in [Thread -> PcStep]
    BY <1>1, NoCallType DEF PcStep
  <2>2. every \in [Instrument -> Every \cup {0, 1}] /\ hits \in [Instrument -> Nat]
    BY <1>1
  <2>3. fired \in [Instrument -> SUBSET Nat] /\ events \in [Instrument -> Seq(Nat)]
    BY <1>1
  <2>4. managed \in Provenance
    BY <1>1, NothingListed
  <2>5. TrackerTypeOK(Instrument)
    BY <1>1 DEF Init, TrackerInit, TrackerTypeOK
  <2>6. lock \in 0..MaxCalls /\ calls \in 0..MaxCalls
    BY <1>1, Constants
  <2> QED
    BY <1>1, <2>1, <2>2, <2>3, <2>4, <2>5, <2>6 DEF Shape
<1>4. Counted
  <2>1. DOMAIN managed = {}
    BY <1>1, NothingListed
  <2>2. ASSUME NEW i \in Instrument
        PROVE  hits[i] <= MaxStops * every[i] /\ hits[i] = 0 /\ fired[i] = {}
    <3>1. MaxStops * 0 = 0
      BY Constants
    <3> QED
      BY <1>1, <3>1
  <2>3. 1 .. 0 = {}
    OBVIOUS
  <2> QED
    BY <1>1, <2>1, <2>2, <2>3 DEF Counted
<1>5. Believed
  <2>1. \A i \in Instrument : DOMAIN events[i] = {}
    BY <1>1, NothingListed
  <2> QED
    BY <1>1, <1>2, <2>1 DEF Believed
<1>6. Owned
  <2>1. \A t \in Thread : ~Owns(t) /\ ~Waits(t)
    BY <1>1 DEF Owns, Waits, NoCall
  <2> QED
    BY <2>1 DEF Owned
<1> QED
  BY <1>3, <1>4, <1>5, <1>6 DEF StopsInv

LEMMA StopsInductive == Spec => []StopsInv
<1>1. StopsInv /\ [Next]_vars => StopsInv'
  BY ShapeStep, CountedStep, BelievedStep, OwnedStep DEF StopsInv
<1> QED
  BY <1>1, StopsInit, PTL DEF Spec

\* Every variable keeps its type, for any number of callers, instruments, break
\* counters and stops.
THEOREM DebugStopsAreTyped == Spec => []TypeOK
<1>1. StopsInv => TypeOK
  <2> SUFFICES ASSUME StopsInv PROVE TypeOK
    OBVIOUS
  <2>1. Shape /\ Counted /\ Believed
    BY DEF StopsInv
  <2>2. ASSUME NEW i \in Instrument
        PROVE  /\ hits[i] \in 0 .. MaxStops * every[i]
               /\ fired[i] \subseteq 1 .. hits[i]
               /\ \A k \in DOMAIN events[i] : events[i][k] \in 1 .. hits[i]
    <3>1. every[i] \in Nat /\ MaxStops \in Nat /\ hits[i] \in Nat
      <4>1. every[i] \in Every \cup {0, 1} /\ Every \cup {0, 1} \subseteq Nat
        BY <2>1, Constants DEF Shape
      <4> QED
        BY <2>1, <4>1, Constants DEF Shape
    <3>2. MaxStops * every[i] \in Nat
      BY <3>1
    <3>3. hits[i] <= MaxStops * every[i] /\ fired[i] \subseteq 1 .. hits[i]
      BY <2>1 DEF Counted
    <3>4. \A k \in DOMAIN events[i] : events[i][k] \in fired[i]
      BY <2>1 DEF Believed
    <3> QED
      BY <3>1, <3>2, <3>3, <3>4
  <2>3. DOMAIN managed \subseteq Instrument /\ \A i \in DOMAIN managed : managed[i] \in Meta
    BY <2>1, Types
  <2>4. ASSUME NEW t \in Thread
        PROVE  /\ call[t].tool \in Tool \cup {"none"} /\ call[t].serial \in 0..MaxCalls
               /\ call[t].id \in Instrument \cup {None}
               /\ pc[t] = "idle" <=> call[t].tool = "none"
    <3>1. call[t] \in CallType /\ Local(pc[t], call[t])
      BY <2>1, Types DEF Believed
    <3> QED
      BY <3>1 DEF CallType, Local
  <2> QED
    BY <2>1, <2>2, <2>3, <2>4 DEF Shape, TypeOK
<1> QED
  BY <1>1, StopsInductive, PTL

\* However stale the lists of the sweeps are, an event the server has recorded is a
\* hit that stopped the machine, and the instrument a pause is attributed to has
\* stopped it.
THEOREM RecordedStopsAreReal == Spec => []StopsAreReal
<1>1. StopsInv => StopsAreReal
  BY DEF StopsInv, Believed, StopsAreReal
<1> QED
  BY <1>1, StopsInductive, PTL

\* A run_until that answers "hit" was stopped by its own instrument, and one that
\* answers that the instrument is removed leaves it disarmed.
THEOREM UntilAnswersHonestly == Spec => []UntilHonest
<1>1. StopsInv => UntilHonest
  BY DEF StopsInv, Believed, True, Facts, UntilHonest
<1> QED
  BY <1>1, StopsInductive, PTL

\* No sweep removes the instrument that a run_until of any call is waiting for.
THEOREM WindowsOwnTheirRemoval == Spec => WindowOwnsRemoval
<1> DEFINE A == \A s, t \in Thread : pc[s] = "away" /\ pc'[s] # "away" /\ Waits(t) =>
                                      call[t].id \notin armed \ armed'
<1>1. ASSUME StopsInv, [Next]_vars, NEW s \in Thread, NEW t \in Thread,
             pc[s] = "away", pc'[s] # "away", Waits(t)
      PROVE  call[t].id \notin armed \ armed'
  <2>1. Shape /\ Believed /\ Owned
    BY <1>1 DEF StopsInv
  <2>2. PICK u \in Thread : Acts(u)
    <3>1. UNCHANGED vars \/ ToggleInUI \/ LockExpires \/ (\E i \in Instrument : Hit(i)) => UNCHANGED pc
      BY DEF vars, ToggleInUI, LockExpires, Hit
    <3> QED
      BY <1>1, <3>1 DEF Next, NoMoreCalls, Acts
  <2>3. u = s
    BY <1>1, <2>1, <2>2, ActsMoves, SMTT(40) DEF Moves
  <2>4. SweepAway(s)
    BY <1>1, <2>2, <2>3 DEF Acts, StartUntil, Start, Step, Set, SetFails, Track, Control, ControlFails,
       Note, RemoveInstrument, RemoveFails, Ask, AskFails, List, ListFails, Metas, Sweep, SweepEnds,
       Push, ObserveAnswer, JudgePaused, JudgeRunning, JudgeLate, Reply
  <2>5. armed \ armed' \subseteq {Swept(s)}
    BY <2>4 DEF SweepAway
  <2>6. Swept(s) \in DOMAIN call[s].metas /\ SweepsAway(call[s].metas[Swept(s)])
    BY <1>1, <2>1 DEF Believed, True, Facts, Swept
  <2>7. call[t].id # Swept(s)
    BY <1>1, <2>1, <2>6 DEF Owned, SweepsAway
  <2> QED
    BY <2>5, <2>7
<1>2. StopsInv /\ [Next]_vars => [A]_vars
  BY <1>1
<1> QED
  BY <1>2, StopsInductive, PTL DEF Spec, WindowOwnsRemoval
=============================================================================
