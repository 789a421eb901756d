-------------------------- MODULE TargetScheduler --------------------------
(***************************************************************************)
(* The serialized mutation scheduler (internal/mcp/mutation.go) with what  *)
(* it is built from: the target revision and the control lock              *)
(* (internal/analysis/target.go), runCommand and the read path             *)
(* (internal/mcp/server.go), the lock tools (internal/mcp/tools_target.go) *)
(* and, as far as its order of execution goes, the one pipe instance of    *)
(* the native plugin.                                                      *)
(*                                                                         *)
(* Every tool call runs on a goroutine of its own. A mutation holds        *)
(* schedulerMu from its first look at the target to its audit entry; a     *)
(* read, a lock tool, and the resynchronisation a read performs never take *)
(* it. The guards of a call are optional: NoGeneration and None stand for  *)
(* arguments the caller left out.                                          *)
(***************************************************************************)
EXTENDS ControlRegistry

CONSTANT MaxCalls   \* bound: mutations, reads, acquisitions and renewals in one behaviour

ASSUME MaxCallsAssumption == MaxCalls \in Nat

VARIABLES
  gen, unknown,  \* analysis.Target
  sched,         \* the holder of schedulerMu, or None
  pipe,          \* the connection the plugin's pipe thread is serving, or None
  machine,       \* how many mutations have taken effect in the emulator
  pc,            \* per thread, the step of the tool call it is about to take
  job,           \* per thread, the locals of that call
  basis,         \* per client thread, the last observation it was given
  mine,          \* per client thread, the control ids returned to it
  calls,         \* such calls so far; the number of a call is its identity
  effects,       \* history: the mutations that took effect, natively or locally
  landed,        \* history: the control ids some native mutation presented
  resyncs        \* history: the generations ResynchronizeIfUnknown opened

targetVars == <<gen, unknown>>
clientVars == <<basis, mine, calls>>
historyVars == <<effects, landed, resyncs>>
vars == <<lock, window, drop, audit, gen, unknown, sched, pipe, machine, pc, job,
          basis, mine, calls, effects, landed, resyncs>>

NoGeneration == 0

\* before and after are NoGeneration where the entry carries none.
MutationEntry == [outcome : {"ok", "partial", "failed", "conflict", "control_held", "ambiguous"},
                  op : Nat, before : Nat, after : Nat]
Entry(outcome, op, before, after) ==
  [outcome |-> outcome, op |-> op, before |-> before, after |-> after]
LockEntry(event, i) == [outcome |-> "lock_event", event |-> event, control |-> i]

\* The locals of a call that has just started.
Call(kind, op, expected, control) ==
  [kind |-> kind, op |-> op, expected |-> expected, control |-> control,
   current |-> NoGeneration, after |-> NoGeneration, raced |-> FALSE,
   result |-> "none", seen |-> 0]
NoJob == Call("none", 0, NoGeneration, None)

Init ==
  /\ RegistryInit
  /\ audit = <<>>
  /\ gen = 1 /\ unknown = FALSE
  /\ sched = None /\ pipe = None
  /\ machine = 0
  /\ pc = [t \in Thread |-> "idle"]
  /\ job = [t \in Thread |-> NoJob]
  /\ basis = [t \in Thread |-> [gen |-> 1, seen |-> 0, by |-> "start"]]
  /\ mine = [t \in Thread |-> {}]
  /\ calls = 0
  /\ effects = {} /\ landed = {} /\ resyncs = {}

Goto(t, step) == pc' = [pc EXCEPT ![t] = step]
Finish(t) == Goto(t, "idle") /\ job' = [job EXCEPT ![t] = NoJob]
Idle(t) == pc[t] = "idle" /\ drop[t] = NoDrop

-----------------------------------------------------------------------------
(* A client starts a call: a read, or a mutation under the generation of    *)
(* its last observation or none, and under a control id it was given or     *)
(* none.                                                                    *)

StartRead(t) ==
  /\ Idle(t) /\ calls < MaxCalls
  /\ calls' = calls + 1
  /\ job' = [job EXCEPT ![t] = Call("read", calls + 1, NoGeneration, None)]
  /\ Goto(t, "status")
  /\ UNCHANGED <<registryVars, audit, targetVars, sched, pipe, machine, basis, mine, historyVars>>

StartMutation(t) ==
  /\ Idle(t) /\ calls < MaxCalls
  /\ calls' = calls + 1
  /\ \E e \in {NoGeneration, basis[t].gen}, c \in mine[t] \cup {None} :
       job' = [job EXCEPT ![t] = Call("mutation", calls + 1, e, c)]
  /\ Goto(t, "want")
  /\ UNCHANGED <<registryVars, audit, targetVars, sched, pipe, machine, basis, mine, historyVars>>

-----------------------------------------------------------------------------
(* executeMutation.                                                         *)

\* Mutant of EnterScheduler: schedulerMu is not taken.
EnterSchedulerUnlocked(t) ==
  /\ pc[t] = "want"
  /\ sched' = t
  /\ job' = [job EXCEPT ![t].current = gen]
  /\ Goto(t, "check")
  /\ UNCHANGED <<registryVars, audit, targetVars, pipe, machine, clientVars, historyVars>>

\* Take schedulerMu and read target.Generation().
EnterScheduler(t) ==
  /\ pc[t] = "want"
  /\ sched = None
  /\ sched' = t
  /\ job' = [job EXCEPT ![t].current = gen]
  /\ Goto(t, "check")
  /\ UNCHANGED <<registryVars, audit, targetVars, pipe, machine, clientVars, historyVars>>

\* record(...) and the deferred unlock.
Leave(t, entry) ==
  /\ audit' = Append(audit, entry)
  /\ sched' = None
  /\ Finish(t)

\* Mutant of Refuses: the unknown revision is not consulted.
RefusesMismatchOnly(t) ==
  /\ job[t].expected # NoGeneration
  /\ job[t].expected # job[t].current

\* Steps 1 and 2. target.Unknown() is read here, target.Generation() was read
\* on entry.
Refuses(t) ==
  /\ job[t].expected # NoGeneration
  /\ unknown \/ job[t].expected # job[t].current

CheckGeneration(t) ==
  /\ pc[t] = "check"
  /\ IF Refuses(t)
     THEN Leave(t, Entry("conflict", job[t].op, NoGeneration, NoGeneration))
     ELSE Goto(t, "active") /\ UNCHANGED <<sched, audit, job>>
  /\ UNCHANGED <<registryVars, targetVars, pipe, machine, clientVars, historyVars>>

\* Step 3: controls.Active(), then controls.Valid(id), two calls.
CheckActive(t) ==
  /\ pc[t] = "active"
  /\ Look(t)
  /\ Goto(t, IF Active(t) = None THEN "prepare" ELSE "valid")
  /\ UNCHANGED <<audit, targetVars, sched, pipe, machine, job, clientVars, historyVars>>

\* Mutant of CheckValid: only a control id that was presented is checked.
CheckValidIfPresented(t) ==
  /\ pc[t] = "valid"
  /\ Look(t)
  /\ IF job[t].control = None \/ Valid(t, job[t].control)
     THEN Goto(t, "prepare") /\ UNCHANGED <<sched, audit, job>>
     ELSE Leave(t, Entry("control_held", job[t].op, NoGeneration, NoGeneration))
  /\ UNCHANGED <<targetVars, pipe, machine, clientVars, historyVars>>

CheckValid(t) ==
  /\ pc[t] = "valid"
  /\ Look(t)
  /\ IF Valid(t, job[t].control)
     THEN Goto(t, "prepare") /\ UNCHANGED <<sched, audit, job>>
     ELSE Leave(t, Entry("control_held", job[t].op, NoGeneration, NoGeneration))
  /\ UNCHANGED <<targetVars, pipe, machine, clientVars, historyVars>>

\* Step 4: prepare() accepts or refuses on server-local grounds.
Prepare(t) ==
  /\ pc[t] = "prepare"
  /\ \E step \in {"status", "failed"} : Goto(t, step)
  /\ UNCHANGED <<registryVars, audit, targetVars, sched, pipe, machine, job, clientVars, historyVars>>

\* A call without a native operation (memory_freeze_remove, memory_freeze_clear)
\* goes from prepare() straight to step 6: its effect is its commit().
ApplyLocally(t) ==
  /\ pc[t] = "prepare"
  /\ job' = [job EXCEPT ![t].kind = "local", ![t].result = "ok"]
  /\ effects' = effects \cup {job[t].op}
  /\ Goto(t, "advance")
  /\ UNCHANGED <<registryVars, audit, targetVars, sched, pipe, machine, clientVars, landed, resyncs>>

\* Step 5, ambiguous: MarkUnknown, then the entry.
FailAmbiguous(t) ==
  /\ pc[t] = "ambiguous" /\ job[t].kind = "mutation"
  /\ unknown' = TRUE
  /\ Leave(t, Entry("ambiguous", job[t].op, job[t].current, NoGeneration))
  /\ UNCHANGED <<registryVars, gen, pipe, machine, clientVars, historyVars>>

\* Mutant of FailProvably: the failure path forgets to unlock.
FailProvablyKeepsLock(t) ==
  /\ pc[t] = "failed" /\ job[t].kind = "mutation" /\ drop[t] = NoDrop
  /\ audit' = Append(audit, Entry("failed", job[t].op, job[t].current, job[t].current))
  /\ Finish(t)
  /\ UNCHANGED <<registryVars, targetVars, sched, pipe, machine, clientVars, historyVars>>

\* Steps 4 and 5, provable failure.
FailProvably(t) ==
  /\ pc[t] = "failed" /\ job[t].kind = "mutation" /\ drop[t] = NoDrop
  /\ Leave(t, Entry("failed", job[t].op, job[t].current, job[t].current))
  /\ UNCHANGED <<registryVars, targetVars, pipe, machine, clientVars, historyVars>>

\* Mutant of Advance: a landed mutation only clears an unknown revision.
AdvanceClearsOnly(t) ==
  /\ pc[t] = "advance"
  /\ gen' = IF unknown THEN gen ELSE gen + 1
  /\ unknown' = FALSE
  /\ job' = [job EXCEPT ![t].after = gen']
  /\ Goto(t, "record")
  /\ UNCHANGED <<registryVars, audit, sched, pipe, machine, clientVars, historyVars>>

\* Step 6 (and step 5 for soft_reset_partial): Advance, then commit.
Advance(t) ==
  /\ pc[t] = "advance"
  /\ gen' = gen + 1
  /\ unknown' = FALSE
  /\ job' = [job EXCEPT ![t].after = gen + 1]
  /\ Goto(t, "record")
  /\ UNCHANGED <<registryVars, audit, sched, pipe, machine, clientVars, historyVars>>

\* The ok or partial entry; the caller is handed the generation after it.
RecordLanded(t) ==
  /\ pc[t] = "record"
  /\ Leave(t, Entry(job[t].result, job[t].op, job[t].current, job[t].after))
  /\ basis' = [basis EXCEPT ![t] =
                 [gen |-> job[t].after, seen |-> job[t].seen, by |-> job[t].kind]]
  /\ UNCHANGED <<registryVars, targetVars, pipe, machine, mine, calls, historyVars>>

-----------------------------------------------------------------------------
(* runCommand, for reads and mutations alike.                               *)

\* statusFor fails: whatever lock is active ends with the bridge.
StatusUnavailable(t) ==
  /\ pc[t] = "status"
  /\ DropIf(t, ControlId, "bridge_unavailable")
  /\ Goto(t, "failed")
  /\ UNCHANGED <<audit, targetVars, sched, pipe, machine, job, clientVars, historyVars>>

\* The plugin does not advertise the operation.
StatusUnsupported(t) ==
  /\ pc[t] = "status" /\ drop[t] = NoDrop
  /\ Goto(t, "failed")
  /\ UNCHANGED <<registryVars, audit, targetVars, sched, pipe, machine, job, clientVars, historyVars>>

\* openPipe succeeds only when the single pipe instance is free.
Send(t) ==
  /\ pc[t] = "status" /\ drop[t] = NoDrop
  /\ pipe = None
  /\ pipe' = [by |-> t, op |-> job[t].op, kind |-> job[t].kind, control |-> job[t].control,
              result |-> "pending", seen |-> 0, left |-> FALSE]
  /\ Goto(t, "await")
  /\ UNCHANGED <<registryVars, audit, targetVars, sched, machine, job, clientVars, historyVars>>

\* openPipe gives up: nothing was sent, but the error is not a CommandError.
DialFails(t) ==
  /\ pc[t] = "status" /\ drop[t] = NoDrop
  /\ Goto(t, "ambiguous")
  /\ UNCHANGED <<registryVars, audit, targetVars, sched, pipe, machine, job, clientVars, historyVars>>

AwaitsReply(t) == pc[t] = "await" /\ pipe # None /\ pipe.by = t /\ ~pipe.left

\* The framed response arrives; one that does not decode proves nothing.
Receive(t) ==
  /\ AwaitsReply(t) /\ pipe.result # "pending"
  /\ pipe' = None
  /\ job' = [job EXCEPT ![t].result = pipe.result, ![t].seen = pipe.seen]
  /\ \/ pipe.result = "error" /\ Goto(t, "failed")
     \/ pipe.result = "partial" /\ Goto(t, IF job[t].kind = "mutation" THEN "advance" ELSE "failed")
     \/ pipe.result = "ok" /\ Goto(t, IF job[t].kind = "mutation" THEN "advance" ELSE "resync")
     \/ pipe.result # "error" /\ Goto(t, "ambiguous")
  /\ UNCHANGED <<registryVars, audit, targetVars, sched, machine, clientVars, historyVars>>

\* Mutant of GiveUp: a timeout counts as a provable failure.
GiveUpProvably(t) ==
  /\ AwaitsReply(t)
  /\ pipe' = [pipe EXCEPT !.left = TRUE]
  /\ Goto(t, "failed")
  /\ UNCHANGED <<registryVars, audit, targetVars, sched, machine, job, clientVars, historyVars>>

\* Deadline or broken pipe: the client closes, the plugin may be at any point.
GiveUp(t) ==
  /\ AwaitsReply(t)
  /\ pipe' = [pipe EXCEPT !.left = TRUE]
  /\ Goto(t, "ambiguous")
  /\ UNCHANGED <<registryVars, audit, targetVars, sched, machine, job, clientVars, historyVars>>

-----------------------------------------------------------------------------
(* The plugin: one command at a time, and a client that has left does not   *)
(* stop the command it sent.                                                *)

\* "ok" and "partial" change the machine, a native error does not.
Execute ==
  /\ pipe # None /\ pipe.result = "pending"
  /\ \E r \in {"ok", "error"} \cup (IF pipe.kind = "mutation" THEN {"partial"} ELSE {}) :
       LET effect == pipe.kind = "mutation" /\ r # "error" IN
       /\ machine' = IF effect THEN machine + 1 ELSE machine
       /\ effects' = IF effect THEN effects \cup {pipe.op} ELSE effects
       /\ landed' = IF effect THEN landed \cup {pipe.control} ELSE landed
       /\ pipe' = [pipe EXCEPT !.result = r, !.seen = machine']
  /\ UNCHANGED <<registryVars, audit, targetVars, sched, pc, job, clientVars, resyncs>>

\* The connection of a client that left ends, its command executed or lost.
Disconnect ==
  /\ pipe # None /\ pipe.left
  /\ pipe' = None
  /\ UNCHANGED <<registryVars, audit, targetVars, sched, machine, pc, job, clientVars, historyVars>>

-----------------------------------------------------------------------------
(* executeCommand: the read path, outside schedulerMu.                      *)

\* Mutant of Resynchronize: the revision is trusted again under its old number.
ResynchronizeInPlace(t) ==
  /\ pc[t] = "resync"
  /\ unknown' = FALSE
  /\ Goto(t, "stamp")
  /\ UNCHANGED <<registryVars, audit, gen, sched, pipe, machine, job, clientVars, historyVars>>

\* ResynchronizeIfUnknown. A call between its two looks at the target is
\* marked, for the properties below.
Resynchronize(t) ==
  /\ pc[t] = "resync"
  /\ gen' = IF unknown THEN gen + 1 ELSE gen
  /\ unknown' = FALSE
  /\ resyncs' = IF unknown THEN resyncs \cup {gen + 1} ELSE resyncs
  /\ job' = [u \in Thread |-> IF unknown /\ pc[u] = "check"
                              THEN [job[u] EXCEPT !.raced = TRUE] ELSE job[u]]
  /\ Goto(t, "stamp")
  /\ UNCHANGED <<registryVars, audit, sched, pipe, machine, clientVars, effects, landed>>

\* injectTargetGeneration, at response completion.
Stamp(t) ==
  /\ pc[t] = "stamp"
  /\ basis' = [basis EXCEPT ![t] = [gen |-> gen, seen |-> job[t].seen, by |-> "read"]]
  /\ Finish(t)
  /\ UNCHANGED <<registryVars, audit, targetVars, sched, pipe, machine, mine, calls, historyVars>>

ReadFails(t) ==
  /\ pc[t] \in {"failed", "ambiguous"} /\ job[t].kind = "read" /\ drop[t] = NoDrop
  /\ Finish(t)
  /\ UNCHANGED <<registryVars, audit, targetVars, sched, pipe, machine, clientVars, historyVars>>

-----------------------------------------------------------------------------
(* The lock tools and context_close. Each is one registry method, and the   *)
(* steps it takes after it. A generation precondition of acquire only       *)
(* refuses: the acquisitions below are those it let through.                *)

ToolFrame == UNCHANGED <<targetVars, sched, pipe, machine, basis, historyVars>>

\* activeLocked meets an expired lock, in a tool or inside a mutation or read.
\* A tool remembers what it will resume: Acquire, or one of the methods that
\* then only report that there is no live lock (Renew, Active, DropIf).
MeetExpired(t) ==
  /\ \/ pc[t] \in {"active", "valid", "status"} /\ UNCHANGED <<pc, calls>>
     \/ Idle(t) /\ calls < MaxCalls /\ Goto(t, "acquire") /\ calls' = calls + 1
     \/ Idle(t) /\ Goto(t, "look") /\ UNCHANGED calls
  /\ DropExpired(t)
  /\ ToolFrame /\ UNCHANGED <<job, mine>>

RunHook(t) ==
  /\ Hook(t)
  /\ ToolFrame /\ UNCHANGED <<pc, job, mine, calls>>

\* target_control_acquire.
AcquireTool(t) ==
  /\ \/ pc[t] = "acquire" /\ UNCHANGED calls
     \/ Idle(t) /\ calls < MaxCalls /\ calls' = calls + 1
  /\ \E i \in ControlId :
       /\ Acquire(t, i)
       /\ mine' = [mine EXCEPT ![t] = @ \cup {i}]
       /\ job' = [job EXCEPT ![t].control = i]
  /\ Goto(t, "acquired")
  /\ ToolFrame /\ UNCHANGED audit

\* The lock_acquired entry is written after Acquire has returned.
RecordAcquired(t) ==
  /\ pc[t] = "acquired"
  /\ audit' = Append(audit, LockEntry("lock_acquired", job[t].control))
  /\ Finish(t)
  /\ ToolFrame /\ UNCHANGED <<registryVars, mine, calls>>

\* target_control_renew of the live lock, and its entry.
RenewTool(t) ==
  /\ Idle(t) /\ calls < MaxCalls
  /\ \E i \in mine[t] : Renew(t, i) /\ job' = [job EXCEPT ![t].control = i]
  /\ calls' = calls + 1
  /\ Goto(t, "renewed")
  /\ ToolFrame /\ UNCHANGED <<audit, mine>>

RecordRenewed(t) ==
  /\ pc[t] = "renewed"
  /\ audit' = Append(audit, LockEntry("lock_renewed", job[t].control))
  /\ Finish(t)
  /\ ToolFrame /\ UNCHANGED <<registryVars, mine, calls>>

\* target_control_release; with an id that is not installed it only fails.
ReleaseTool(t) ==
  /\ Idle(t)
  /\ \E i \in mine[t] : Release(t, i, "caller_released")
  /\ ToolFrame /\ UNCHANGED <<audit, pc, job, mine, calls>>

\* context_close ends the lock acquired under the context it closed.
CloseContext(t) ==
  /\ Idle(t) /\ lock # None
  /\ DropIf(t, ControlId, "context_closed")
  /\ ToolFrame /\ UNCHANGED <<audit, pc, job, mine, calls>>

\* A tool that met an expired lock reports that none is active.
ResumeLook(t) ==
  /\ pc[t] = "look"
  /\ Look(t)
  /\ Finish(t)
  /\ ToolFrame /\ UNCHANGED <<audit, mine, calls>>

TtlPasses(i) ==
  /\ Expire(i)
  /\ ToolFrame /\ UNCHANGED <<pc, job, mine, calls>>

-----------------------------------------------------------------------------
Mutation(t) ==
  \/ StartMutation(t) \/ EnterScheduler(t) \/ CheckGeneration(t) \/ CheckActive(t)
  \/ CheckValid(t) \/ Prepare(t) \/ ApplyLocally(t) \/ FailAmbiguous(t)
  \/ FailProvably(t) \/ Advance(t) \/ RecordLanded(t)

RunCommand(t) ==
  \/ StatusUnavailable(t) \/ StatusUnsupported(t) \/ Send(t) \/ DialFails(t)
  \/ Receive(t) \/ GiveUp(t)

Read(t) == StartRead(t) \/ Resynchronize(t) \/ Stamp(t) \/ ReadFails(t)

LockTool(t) ==
  \/ MeetExpired(t) \/ RunHook(t) \/ AcquireTool(t) \/ RecordAcquired(t) \/ RenewTool(t)
  \/ RecordRenewed(t) \/ ReleaseTool(t) \/ CloseContext(t) \/ ResumeLook(t)

\* Clients may stop calling, and the ids of the instance may run out; anything
\* else that stops is a deadlock.
NoMoreCalls ==
  /\ \A t \in Thread : \/ Idle(t)
                       \/ pc[t] = "acquire" /\ \A i \in ControlId : window[i] # "unissued"
  /\ UNCHANGED vars

Next ==
  \/ \E t \in Thread : Mutation(t) \/ RunCommand(t) \/ Read(t) \/ LockTool(t)
  \/ Execute \/ Disconnect
  \/ \E i \in ControlId : TtlPasses(i)
  \/ NoMoreCalls

\* What a goroutine owes once its call has started. The plugin owes nothing:
\* every wait on it ends in a deadline. sync.Mutex hands schedulerMu to a
\* starved waiter, hence the strong fairness.
Progress(t) ==
  \/ CheckGeneration(t) \/ CheckActive(t) \/ CheckValid(t) \/ Prepare(t)
  \/ ApplyLocally(t) \/ FailAmbiguous(t) \/ FailProvably(t) \/ Advance(t) \/ RecordLanded(t)
  \/ RunCommand(t) \/ Resynchronize(t) \/ Stamp(t) \/ ReadFails(t)
  \/ (MeetExpired(t) /\ UNCHANGED pc) \/ RunHook(t)

Fairness == \A t \in Thread : WF_vars(Progress(t)) /\ SF_vars(EnterScheduler(t))

Spec == Init /\ [][Next]_vars
FairSpec == Spec /\ Fairness

-----------------------------------------------------------------------------
(* Properties.                                                              *)

JobType == [kind : {"none", "read", "mutation", "local"}, op : Nat, expected : Nat,
            control : ControlId \cup {None}, current : Nat, after : Nat,
            raced : BOOLEAN, result : {"none", "ok", "partial", "error"}, seen : Nat]

PipeType == [by : Thread, op : Nat, kind : {"read", "mutation"},
             control : ControlId \cup {None}, left : BOOLEAN,
             result : {"pending", "ok", "partial", "error"}, seen : Nat]

ASSUME ConnectionAssumption == None \notin PipeType

BasisType == [gen : Nat, seen : Nat, by : {"start", "read", "mutation", "local"}]

AuditType == MutationEntry \cup LockEvent

\* Every variable keeps its type.
TypeOK ==
  /\ RegistryTypeOK
  /\ audit \in Seq(AuditType)
  /\ gen \in Nat \ {0} /\ unknown \in BOOLEAN
  /\ sched \in Thread \cup {None}
  /\ pipe \in PipeType \cup {None}
  /\ machine \in Nat
  /\ pc \in [Thread -> {"idle", "want", "check", "active", "valid", "prepare", "status",
                        "await", "ambiguous", "failed", "advance", "record", "resync",
                        "stamp", "acquire", "acquired", "renewed", "look"}]
  /\ job \in [Thread -> JobType]
  /\ basis \in [Thread -> BasisType]
  /\ mine \in [Thread -> SUBSET ControlId]
  /\ calls \in Nat
  /\ effects \in SUBSET Nat
  /\ landed \in SUBSET (ControlId \cup {None})
  /\ resyncs \in SUBSET Nat

Landed(e) == e.outcome \in {"ok", "partial"}
Mutated(e) == e.outcome # "lock_event"

\* The audit stream tells the history of the machine in order: a landed
\* mutation's entry starts at or after the generation at which the landed entry
\* before it ended (executeMutation records before it unlocks schedulerMu).
AuditTrailOrdered ==
  \A i, j \in 1..Len(audit) :
    i < j /\ Landed(audit[i]) /\ Landed(audit[j]) =>
      /\ audit[i].before < audit[i].after
      /\ audit[i].after <= audit[j].before

\* Each generation was opened exactly once: by one landed mutation (its entry
\* written, or about to be) or by one resynchronisation.
GenerationAccounted ==
  \A g \in 2..gen :
    Cardinality({i \in 1..Len(audit) : Landed(audit[i]) /\ audit[i].after = g})
      + Cardinality({t \in Thread : pc[t] = "record" /\ job[t].after = g})
      + (IF g \in resyncs THEN 1 ELSE 0) = 1

\* An entry never lies about the machine: ok and partial mutations took effect,
\* a refused or provably failed one never does, not even later; and a mutation
\* that took effect is in flight or on record as ok, partial or ambiguous.
AuditHonest ==
  /\ \A i \in 1..Len(audit) : Mutated(audit[i]) =>
       CASE audit[i].outcome \in {"ok", "partial"} -> audit[i].op \in effects
         [] audit[i].outcome \in {"failed", "conflict", "control_held"} -> audit[i].op \notin effects
         [] OTHER -> TRUE
  /\ \A op \in effects :
       \/ \E t \in Thread : job[t].op = op /\ sched = t
       \/ \E i \in 1..Len(audit) : /\ audit[i].outcome \in {"ok", "partial", "ambiguous"}
                                   /\ audit[i].op = op

\* A call whose guarded command has been sent and not yet run.
GuardedInFlight(t) ==
  /\ pc[t] = "await" /\ pipe.result = "pending"
  /\ job[t].kind = "mutation" /\ job[t].expected # NoGeneration

\* A mutation guarded by the generation an earlier native mutation of the caller
\* returned runs on the machine that mutation left behind, whatever other
\* clients, failures and late native commands did; the one exception is a
\* resynchronisation between its two looks at the target.
WriteGuardSound ==
  \A t \in Thread :
    GuardedInFlight(t) /\ basis[t].by = "mutation" =>
      machine = basis[t].seen \/ job[t].raced

\* Once a mutation under a lock has landed, and while that lock is the
\* installed, unexpired one, no command of anybody else changes the machine:
\* not one that passed the check before, not one whose client gave up.
NoForeignMutation ==
  [][\A i \in ControlId :
       lock = i /\ window[i] = "open" /\ i \in landed /\ machine' # machine
         => pipe.control = i]_vars

\* A lock that ended is reported ended exactly once, or its hook is running.
LockEndReported ==
  \A i \in ControlId :
    Cardinality({k \in 1..Len(audit) : ~Mutated(audit[k]) /\ audit[k].event = "lock_ended"
                                                        /\ audit[k].control = i})
      + Cardinality({t \in Thread : drop[t].phase = "hook" /\ drop[t].id = i})
      = IF window[i] = "ended" THEN 1 ELSE 0

\* A mutation always returns, though the plugin may never answer: deadlines,
\* and schedulerMu released on every path.
MutationReturns == \A t \in Thread : pc[t] = "want" ~> pc[t] = "idle"

\* The landed mutations of the stream, and the one whose entry is due: the
\* scheduler implements the line of revisions RevisionHistory describes.
Landings ==
  {[before |-> audit[i].before, after |-> audit[i].after] :
     i \in {k \in 1..Len(audit) : Landed(audit[k])}}
  \cup {[before |-> job[t].current, after |-> job[t].after] :
          t \in {u \in Thread : pc[u] = "record"}}

History == INSTANCE RevisionHistory
             WITH revision <- gen, known <- ~unknown, landings <- Landings

ImplementsRevisionHistory == History!Spec

-----------------------------------------------------------------------------
(* Claims of the code's comments that the code does not keep.               *)

\* target.go: "When another lock is active, acquisition fails". At most one
\* control window is open at a time.
OneOpenWindow == Cardinality({i \in ControlId : window[i] = "open"}) <= 1

\* mutation.go: "Read-only tools get the generation they observed, so a read ->
\* guarded mutation round trip is safe".
ReadRoundTripSafe ==
  \A t \in Thread :
    GuardedInFlight(t) /\ basis[t].by = "read" /\ ~job[t].raced => machine = basis[t].seen

=============================================================================
