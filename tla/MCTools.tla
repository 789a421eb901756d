------------------------------- MODULE MCTools -------------------------------
(***************************************************************************)
(* The tools that work on a state of their own, one at a time: each        *)
(* behaviour is a behaviour of one of the modules, with the others at rest.*)
(***************************************************************************)
EXTENDS Listings, MachineHolds, Replay, Experiment, Searches, TraceCapture, TLC

VARIABLE tool

PressSteps(buttons, frames) == [buttons |-> buttons, frames |-> frames]
ReplayLists == {<<PressSteps(<<"b1">>, 1), PressSteps(<<>>, 2)>>}

\* A step for each of two buttons, in either order, and one step alone.
Presses(count) == {steps \in [1 .. count -> Button] : IsInjective(steps)}
ButtonPlans == Presses(1) \cup Presses(2)

Sought(pattern, alignment, start, length) ==
  [pattern |-> pattern, alignment |-> alignment, start |-> start, length |-> length]
SoughtPatterns ==
  {Sought(<<1>>, 0, Unset, 0), Sought(<<1, Wild>>, 0, 1, 0), Sought(<<0, 1>>, 0, 1, 3),
   Sought(<<0>>, 2, Unset, 0), Sought(<<Wild, 0>>, 2, 1, 3)}

Differing(mode, value, width, order, misaligned, start, forced) ==
  [mode |-> mode, value |-> value, width |-> width, order |-> order, misaligned |-> misaligned,
   start |-> start, forced |-> forced]
Differences ==
  {Differing("changed", 0, 2, "derived", FALSE, 1, FALSE),
   Differing("unchanged", 0, 2, "big", TRUE, Unset, FALSE),
   Differing("increased", 0, 2, "big", FALSE, Unset, TRUE),
   Differing("changed_by", 1, 1, "derived", FALSE, 1, TRUE),
   Differing("equal_to", 1, 2, "little", FALSE, 0, FALSE),
   Differing("in_range", 1, 1, "derived", FALSE, Unset, FALSE)}

\* Instructions at 0, 1, 2 and 3, of 1, 2, 1 and 2 bytes.
Programs == {[a \in 0..3 |-> 1 + (a % 2)]}

Filter(start, end, onlyRom, onlyRam, repeated) ==
  [start |-> start, end |-> end, rom |-> onlyRom, ram |-> onlyRam, repeated |-> repeated]
Filters == {Whole, Filter(1, 4, TRUE, FALSE, TRUE), Filter(0, 4, FALSE, TRUE, FALSE)}

Symmetry == Permutations(Kind \ {LockEvent}) \cup Permutations(Caller)

One(name, values) == IF tool = name THEN values ELSE {CHOOSE value \in values : TRUE}

Init ==
  /\ tool \in {"lists", "holds", "replay", "experiment", "search", "capture"}
  /\ \E stream \in One("lists", Stream) : ListingsStart(stream)
  /\ HoldsInit /\ ExperimentStart /\ SearchesStart
  /\ ReplayStart /\ running \in One("replay", BOOLEAN)
  /\ TraceCaptureStart /\ code \in One("capture", Codes)

Next ==
  /\ UNCHANGED tool
  /\ \/ tool = "lists" /\ ListingsNext
        /\ UNCHANGED <<holdVars, replayVars, experimentVars, searchVars, captureVars>>
     \/ tool = "holds" /\ HoldsNext
        /\ UNCHANGED <<listingVars, replayVars, experimentVars, searchVars, captureVars>>
     \/ tool = "replay" /\ ReplayNext
        /\ UNCHANGED <<listingVars, holdVars, experimentVars, searchVars, captureVars>>
     \/ tool = "experiment" /\ ExperimentNext
        /\ UNCHANGED <<listingVars, holdVars, replayVars, searchVars, captureVars>>
     \/ tool = "search" /\ SearchesNext
        /\ UNCHANGED <<listingVars, holdVars, replayVars, experimentVars, captureVars>>
     \/ tool = "capture" /\ TraceCaptureNext
        /\ UNCHANGED <<listingVars, holdVars, replayVars, experimentVars, searchVars>>

Spec == Init /\ [][Next]_<<tool, listingVars, holdVars, replayVars, experimentVars, searchVars, captureVars>>

(***************************************************************************)
(* The type invariants of the tools.                                       *)
(***************************************************************************)
ToolsTypeOK ==
  /\ ListingsTypeOK /\ HoldsTypeOK /\ ReplayTypeOK
  /\ ExperimentTypeOK /\ SearchesTypeOK /\ TraceCaptureTypeOK

=============================================================================
