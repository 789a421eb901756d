------------------------------ MODULE MCReturns ------------------------------
(***************************************************************************)
(* What must eventually happen, of four components in one run: each        *)
(* behaviour is a behaviour of one of them, with the others at rest, under *)
(* the fairness that component's module states.                            *)
(***************************************************************************)
EXTENDS Naturals, FiniteSets, Sequences

CONSTANTS
  None, ControlId, SchedulerThread, SchedulerCalls,       \* TargetScheduler
  UntilThread, Breakpoint, Watchpoint, Every, UntilCalls, \* DebugStops
  Caller, Cell, Datum, Button, Nothing, Plan, HoldCalls,  \* MachineHolds
  MessageId, MaxSteps, MaxPublished, LineRoom, MaxSent    \* Experiment

VARIABLES
  moving,  \* the component this behaviour is about
  lock, window, drop, audit, gen, unknown, sched, pipe, machine, pc, job, basis, mine, calls,
  effects, landed, resyncs,
  observed, mcpSet, stop, running, armed, every, hits, fired, managed, events,
  untilLock, untilPc, call, untilCalls,
  freezes, issued, sweep, memory, program, pads, ledger, revision, scheduler, control, doing,
  begun, holdFaults, left,
  sent, taken, script, stdout, reader, held, lines, waiter, expired, killed, run, executed

Scheduler == INSTANCE TargetScheduler WITH Thread <- SchedulerThread, MaxCalls <- SchedulerCalls

Stops ==
  INSTANCE DebugStops WITH
    Thread <- UntilThread, MaxCalls <- UntilCalls, MaxStops <- 1,
    ListsMayFail <- TRUE, lock <- untilLock, pc <- untilPc, calls <- untilCalls

Holds ==
  INSTANCE MachineHolds WITH
    MaxFreezes <- 1, MaxHoldCalls <- HoldCalls, MaxLoads <- 1, MaxHoldFaults <- 1

Runner == INSTANCE Experiment

OneButtonPlans == {<<button>> : button \in Button}

schedulerVars == <<lock, window, drop, audit, gen, unknown, sched, pipe, machine, pc, job, basis,
                   mine, calls, effects, landed, resyncs>>
stopVars == <<observed, mcpSet, stop, running, armed, every, hits, fired, managed, events,
              untilLock, untilPc, call, untilCalls>>
holdVars == <<freezes, issued, sweep, memory, program, pads, ledger, revision, scheduler, control,
              doing, begun, holdFaults, left>>
runnerVars == <<sent, taken, script, stdout, reader, held, lines, waiter, expired, killed, run,
                executed>>
vars == <<moving, schedulerVars, stopVars, holdVars, runnerVars>>

Init ==
  /\ moving \in {"scheduler", "stops", "holds", "runner"}
  /\ Scheduler!Init /\ Stops!Init /\ Holds!HoldsInit /\ Runner!ExperimentInit
  /\ moving # "stops" => running

Next ==
  /\ UNCHANGED moving
  /\ \/ moving = "scheduler" /\ Scheduler!Next
        /\ UNCHANGED <<stopVars, holdVars, runnerVars>>
     \/ moving = "stops" /\ Stops!Next
        /\ UNCHANGED <<schedulerVars, holdVars, runnerVars>>
     \/ moving = "holds" /\ Holds!HoldsNext
        /\ UNCHANGED <<schedulerVars, stopVars, runnerVars>>
     \/ moving = "runner" /\ Runner!ExperimentNext
        /\ UNCHANGED <<schedulerVars, stopVars, holdVars>>

Fairness ==
  /\ \A t \in SchedulerThread : /\ WF_schedulerVars(moving = "scheduler" /\ Scheduler!Progress(t))
                                /\ SF_schedulerVars(moving = "scheduler" /\ Scheduler!EnterScheduler(t))
  /\ \A t \in UntilThread : /\ WF_stopVars(moving = "stops" /\ Stops!Step(t))
                            /\ SF_stopVars(moving = "stops" /\ Stops!JudgeLate(t))
  /\ WF_holdVars(moving = "holds" /\ Holds!CopyFreezes)
  /\ WF_holdVars(moving = "holds" /\ Holds!WriteFreeze)
  /\ WF_runnerVars(moving = "runner" /\ Runner!Unblocked)
  /\ WF_runnerVars(moving = "runner" /\ Runner!Expire)
  /\ WF_runnerVars(moving = "runner" /\ Runner!Kill)
  /\ WF_runnerVars(moving = "runner" /\ Runner!Terminate)
  /\ WF_runnerVars(moving = "runner" /\ Runner!Await)
  /\ WF_runnerVars(moving = "runner" /\ Runner!NextLine)
  /\ WF_runnerVars(moving = "runner" /\ Runner!SendLine)

FairSpec == Init /\ [][Next]_vars /\ Fairness

-----------------------------------------------------------------------------
(***************************************************************************)
(* A mutation that asked for the scheduler returns, though the plugin may  *)
(* never answer (mutation.go:85-211).                                      *)
(***************************************************************************)
MutationReturns == Scheduler!MutationReturns

(***************************************************************************)
(* A run_until returns, whether its instrument fires or not                *)
(* (tools_run_until.go:403).                                               *)
(***************************************************************************)
UntilEnds == Stops!UntilEnds

(***************************************************************************)
(* A frozen cell gets its bytes back after every update of the program, as *)
(* long as its entry stays (tools_freeze.go:236-249).                      *)
(***************************************************************************)
FrozenIsRewritten == Holds!FrozenIsRewritten

(***************************************************************************)
(* Every experiment ends and leaves no child (runner.go:288-290, 514-565). *)
(***************************************************************************)
RunEnds == Runner!RunEnds

=============================================================================
