----------------------- MODULE TargetSchedulerProofs -----------------------
(***************************************************************************)
(* The scheduler for any number of threads, control ids and calls: type    *)
(* correctness, the order of the audit trail with the inductive invariant  *)
(* it needs, and the refinement of RevisionHistory; then what the audit    *)
(* stream, the control lock and the generation guard promise its clients.  *)
(***************************************************************************)
EXTENDS TargetScheduler, FiniteSetTheorems, TLAPS

USE DEF NoGeneration

\* The steps of a call that holds schedulerMu: those only a mutation has, and
\* those runCommand shares with reads.
MutationStep == {"check", "active", "valid", "prepare", "advance", "record"}
SharedStep == {"status", "await", "ambiguous", "failed"}
Holding(t) == \/ pc[t] \in MutationStep
              \/ pc[t] \in SharedStep /\ job[t].kind = "mutation"

LandedIndex == {i \in 1..Len(audit) : Landed(audit[i])}

\* What the locals of a thread are worth at the step it is about to take.
LocalOK(t) ==
  /\ Holding(t) => sched = t /\ job[t].current \in 1..gen
  /\ pc[t] \in {"want", "check", "active", "valid", "prepare"} => job[t].kind = "mutation"
  /\ pc[t] \in {"advance", "record"} => job[t].kind \in {"mutation", "local"}
  /\ pc[t] \in SharedStep => job[t].kind \in {"read", "mutation"}
  /\ pc[t] \in {"advance", "record"} => job[t].result \in {"ok", "partial"}
  /\ pc[t] = "record" => job[t].current < job[t].after /\ job[t].after <= gen
  /\ pc[t] \in {"acquired", "renewed"} => job[t].control \in ControlId

LocalsOK == \A t \in Thread : LocalOK(t)

\* No landed entry ends after the revision a mutation in progress starts from.
TrailBehind ==
  /\ \A i \in LandedIndex : audit[i].before < audit[i].after /\ audit[i].after <= gen
  /\ \A t \in Thread : Holding(t) =>
       \A i \in LandedIndex : audit[i].after <= job[t].current

IInv == TypeOK /\ LocalsOK /\ TrailBehind /\ AuditTrailOrdered

-----------------------------------------------------------------------------
(* Types.                                                                   *)

LEMMA DropTypes ==
  /\ NoDrop \in DropType
  /\ \A i \in ControlId, r \in DropReason :
       [phase |-> "hook", id |-> i, reason |-> r] \in DropType
  /\ \A d \in DropType : d.phase = "hook" =>
       /\ d.id \in ControlId /\ d.reason \in DropReason
       /\ [d EXCEPT !.phase = "relock"] \in DropType
BY DEF DropType, NoDrop, DropReason

\* The registry's variables keep their types under each of its methods.
LEMMA RegistryStep ==
  ASSUME RegistryTypeOK, NEW t \in Thread,
         \/ DropExpired(t)
         \/ Hook(t)
         \/ \E i \in ControlId : Acquire(t, i)
         \/ \E i \in ControlId : Renew(t, i)
         \/ \E i \in ControlId : Release(t, i, "caller_released")
         \/ \E r \in DropReason : DropIf(t, ControlId, r)
         \/ Look(t)
         \/ \E i \in ControlId : Expire(i)
  PROVE  RegistryTypeOK'
<1> USE NoneAssumption, DropTypes DEF RegistryTypeOK, Fate
<1>1. CASE DropExpired(t)
  <2>1. lock \in ControlId
    BY <1>1 DEF DropExpired, LockExpired
  <2>2. "ttl_expired" \in DropReason
    BY DEF DropReason
  <2> QED
    BY <1>1, <2>1, <2>2 DEF DropExpired, DropLocked
<1>2. CASE Hook(t)
  BY <1>2 DEF Hook
<1>3. CASE \E i \in ControlId : Acquire(t, i)
  BY <1>3 DEF Acquire, Return
<1>4. CASE \E i \in ControlId : Renew(t, i)
  BY <1>4 DEF Renew, Return
<1>5. CASE \E i \in ControlId : Release(t, i, "caller_released")
  <2>1. "caller_released" \in DropReason
    BY DEF DropReason
  <2> QED
    BY <1>5, <2>1 DEF Release, DropLocked
<1>6. CASE \E r \in DropReason : DropIf(t, ControlId, r)
  BY <1>6 DEF DropIf, DropLocked, Return, Found
<1>7. CASE Look(t)
  BY <1>7 DEF Look, Return
<1>8. CASE \E i \in ControlId : Expire(i)
  BY <1>8 DEF Expire
<1> QED
  BY <1>1, <1>2, <1>3, <1>4, <1>5, <1>6, <1>7, <1>8

LEMMA CallTypes ==
  ASSUME NEW k \in {"none", "read", "mutation"}, NEW n \in Nat, NEW e \in Nat,
         NEW c \in ControlId \cup {None}
  PROVE  Call(k, n, e, c) \in JobType
BY DEF Call, JobType

LEMMA NoJobType == NoJob \in JobType
BY CallTypes DEF NoJob

LEMMA EntryTypes ==
  ASSUME NEW o \in {"ok", "partial", "failed", "conflict", "control_held", "ambiguous"},
         NEW n \in Nat, NEW b \in Nat, NEW a \in Nat
  PROVE  Entry(o, n, b, a) \in AuditType
BY DEF AuditType, MutationEntry, Entry

LEMMA LockEntryTypes ==
  ASSUME NEW i \in ControlId
  PROVE  /\ \A e \in {"lock_acquired", "lock_renewed"} : LockEntry(e, i) \in AuditType
         /\ \A r \in DropReason :
              [outcome |-> "lock_event", event |-> "lock_ended", control |-> i, reason |-> r]
                \in AuditType
BY DEF AuditType, LockEvent, LockEntry

\* The locals of a call are updated a field at a time.
LEMMA JobUpdates ==
  ASSUME job \in [Thread -> JobType], NEW t \in Thread
  PROVE  /\ \A m \in Nat : /\ [job EXCEPT ![t].current = m] \in [Thread -> JobType]
                         /\ [job EXCEPT ![t].after = m] \in [Thread -> JobType]
         /\ \A i \in ControlId : [job EXCEPT ![t].control = i] \in [Thread -> JobType]
         /\ [job EXCEPT ![t].kind = "local", ![t].result = "ok"] \in [Thread -> JobType]
         /\ [job[t] EXCEPT !.raced = TRUE] \in JobType
         /\ \A r \in {"ok", "partial", "error"}, m \in Nat :
              [job[t] EXCEPT !.result = r, !.seen = m] \in JobType
<1>1. job[t] \in JobType
  OBVIOUS
<1>2. /\ [job[t] EXCEPT !.raced = TRUE] \in JobType
      /\ \A r \in {"ok", "partial", "error"}, m \in Nat :
           [job[t] EXCEPT !.result = r, !.seen = m] \in JobType
  BY <1>1 DEF JobType
<1>3. /\ \A m \in Nat : /\ [job EXCEPT ![t].current = m] \in [Thread -> JobType]
                       /\ [job EXCEPT ![t].after = m] \in [Thread -> JobType]
      /\ \A i \in ControlId : [job EXCEPT ![t].control = i] \in [Thread -> JobType]
  BY DEF JobType
<1>4. [job[t] EXCEPT !.kind = "local", !.result = "ok"] \in JobType
  BY <1>1 DEF JobType
<1>5. [job EXCEPT ![t].kind = "local", ![t].result = "ok"]
        = [job EXCEPT ![t] = [job[t] EXCEPT !.kind = "local", !.result = "ok"]]
  OBVIOUS
<1> QED
  BY <1>2, <1>3, <1>4, <1>5

\* The end of a mutation, on every path: an entry, the unlock, the return.
LEMMA LeaveTypes ==
  ASSUME TypeOK, NEW t \in Thread, NEW e \in AuditType, Leave(t, e)
  PROVE  /\ audit' \in Seq(AuditType)
         /\ sched' \in Thread \cup {None}
         /\ job' \in [Thread -> JobType]
<1>1. audit' \in Seq(AuditType)
  BY DEF TypeOK, Leave
<1>2. job' \in [Thread -> JobType]
  BY NoJobType DEF TypeOK, Leave, Finish
<1> QED
  BY <1>1, <1>2 DEF Leave

\* Every step keeps the types; LocalsOK is what the audit entries need.
LEMMA TypeStep == ASSUME TypeOK, LocalsOK, [Next]_vars PROVE TypeOK'
<1> USE DEF TypeOK
<1>1. ASSUME NEW t \in Thread, StartRead(t) PROVE TypeOK'
  <2>1. RegistryTypeOK'
    BY <1>1 DEF StartRead, registryVars, RegistryTypeOK
  <2>2. job' \in [Thread -> JobType]
    BY <1>1, CallTypes DEF StartRead
  <2> QED
    BY <1>1, <2>1, <2>2 DEF StartRead, Goto, registryVars, targetVars, clientVars, historyVars
<1>2. ASSUME NEW t \in Thread, StartMutation(t) PROVE TypeOK'
  <2>1. RegistryTypeOK'
    BY <1>2 DEF StartMutation, registryVars, RegistryTypeOK
  <2>2. basis[t].gen \in Nat
    BY DEF BasisType
  <2>3. job' \in [Thread -> JobType]
    BY <1>2, <2>2, CallTypes DEF StartMutation
  <2> QED
    BY <1>2, <2>1, <2>2, <2>3 DEF StartMutation, Goto, registryVars, targetVars, clientVars, historyVars
<1>3. ASSUME NEW t \in Thread, EnterScheduler(t) PROVE TypeOK'
  <2>1. RegistryTypeOK'
    BY <1>3 DEF EnterScheduler, registryVars, RegistryTypeOK
  <2>2. gen \in Nat
    BY SMTT(40)
  <2>3. [job EXCEPT ![t].current = gen] \in [Thread -> JobType]
    BY <2>2, JobUpdates
  <2>4. job' \in [Thread -> JobType]
    BY <1>3, <2>3 DEF EnterScheduler
  <2> QED
    BY <1>3, <2>1, <2>2, <2>3, <2>4 DEF EnterScheduler, Goto, registryVars, targetVars, clientVars, historyVars
<1>4. ASSUME NEW t \in Thread, CheckGeneration(t) PROVE TypeOK'
  <2>1. RegistryTypeOK'
    BY <1>4 DEF CheckGeneration, registryVars, RegistryTypeOK
  <2>2. job[t].op \in Nat /\ job[t].current \in Nat
    BY DEF JobType
  <2>3. Entry("conflict", job[t].op, NoGeneration, NoGeneration) \in AuditType
    BY <2>2, EntryTypes
  <2>4. /\ audit' \in Seq(AuditType)
       /\ sched' \in Thread \cup {None}
       /\ job' \in [Thread -> JobType]
    BY <1>4, <2>3, LeaveTypes DEF CheckGeneration
  <2> QED
    BY <1>4, <2>1, <2>2, <2>3, <2>4 DEF CheckGeneration, Goto, registryVars, targetVars, clientVars, historyVars, Leave, Finish
<1>5. ASSUME NEW t \in Thread, CheckActive(t) PROVE TypeOK'
  <2>1. RegistryTypeOK'
    BY <1>5, RegistryStep DEF CheckActive
  <2> QED
    BY <1>5, <2>1 DEF CheckActive, Goto, registryVars, targetVars, clientVars, historyVars
<1>6. ASSUME NEW t \in Thread, CheckValid(t) PROVE TypeOK'
  <2>1. RegistryTypeOK'
    BY <1>6, RegistryStep DEF CheckValid
  <2>2. job[t].op \in Nat /\ job[t].current \in Nat
    BY DEF JobType
  <2>3. Entry("control_held", job[t].op, NoGeneration, NoGeneration) \in AuditType
    BY <2>2, EntryTypes
  <2>4. /\ audit' \in Seq(AuditType)
       /\ sched' \in Thread \cup {None}
       /\ job' \in [Thread -> JobType]
    BY <1>6, <2>3, LeaveTypes DEF CheckValid
  <2> QED
    BY <1>6, <2>1, <2>2, <2>3, <2>4 DEF CheckValid, Goto, registryVars, targetVars, clientVars, historyVars, Leave, Finish
<1>7. ASSUME NEW t \in Thread, Prepare(t) PROVE TypeOK'
  <2>1. RegistryTypeOK'
    BY <1>7 DEF Prepare, registryVars, RegistryTypeOK
  <2> QED
    BY <1>7, <2>1 DEF Prepare, Goto, registryVars, targetVars, clientVars, historyVars
<1>7a. ASSUME NEW t \in Thread, ApplyLocally(t) PROVE TypeOK'
  <2>1. RegistryTypeOK'
    BY <1>7a DEF ApplyLocally, registryVars, RegistryTypeOK
  <2>2. effects' \in SUBSET Nat
    BY <1>7a, SMTT(40) DEF ApplyLocally, JobType
  <2>3. job' \in [Thread -> JobType]
    BY <1>7a, JobUpdates DEF ApplyLocally
  <2> QED
    BY <1>7a, <2>1, <2>2, <2>3 DEF ApplyLocally, Goto, registryVars, targetVars, clientVars, historyVars
<1>8. ASSUME NEW t \in Thread, FailAmbiguous(t) PROVE TypeOK'
  <2>1. RegistryTypeOK'
    BY <1>8 DEF FailAmbiguous, registryVars, RegistryTypeOK
  <2>2. job[t].op \in Nat /\ job[t].current \in Nat
    BY DEF JobType
  <2>3. Entry("ambiguous", job[t].op, job[t].current, NoGeneration) \in AuditType
    BY <2>2, EntryTypes
  <2>4. /\ audit' \in Seq(AuditType)
       /\ sched' \in Thread \cup {None}
       /\ job' \in [Thread -> JobType]
    BY <1>8, <2>3, LeaveTypes DEF FailAmbiguous
  <2> QED
    BY <1>8, <2>1, <2>2, <2>3, <2>4 DEF FailAmbiguous, Goto, registryVars, targetVars, clientVars, historyVars, Leave, Finish
<1>9. ASSUME NEW t \in Thread, FailProvably(t) PROVE TypeOK'
  <2>1. RegistryTypeOK'
    BY <1>9 DEF FailProvably, registryVars, RegistryTypeOK
  <2>2. job[t].op \in Nat /\ job[t].current \in Nat
    BY DEF JobType
  <2>3. Entry("failed", job[t].op, job[t].current, job[t].current) \in AuditType
    BY <2>2, EntryTypes
  <2>4. /\ audit' \in Seq(AuditType)
       /\ sched' \in Thread \cup {None}
       /\ job' \in [Thread -> JobType]
    BY <1>9, <2>3, LeaveTypes DEF FailProvably
  <2> QED
    BY <1>9, <2>1, <2>2, <2>3, <2>4 DEF FailProvably, Goto, registryVars, targetVars, clientVars, historyVars, Leave, Finish
<1>10. ASSUME NEW t \in Thread, Advance(t) PROVE TypeOK'
  <2>1. RegistryTypeOK'
    BY <1>10 DEF Advance, registryVars, RegistryTypeOK
  <2>2. gen + 1 \in Nat \ {0}
    OBVIOUS
  <2>3. [job EXCEPT ![t].after = gen + 1] \in [Thread -> JobType]
    BY <2>2, JobUpdates
  <2>4. job' \in [Thread -> JobType]
    BY <1>10, <2>3 DEF Advance
  <2> QED
    BY <1>10, <2>1, <2>2, <2>3, <2>4 DEF Advance, Goto, registryVars, targetVars, clientVars, historyVars
<1>11. ASSUME NEW t \in Thread, RecordLanded(t) PROVE TypeOK'
  <2>1. RegistryTypeOK'
    BY <1>11 DEF RecordLanded, registryVars, RegistryTypeOK
  <2>2. /\ job[t].op \in Nat /\ job[t].current \in Nat
       /\ job[t].after \in Nat /\ job[t].seen \in Nat
    BY DEF JobType
  <2>3. job[t].result \in {"ok", "partial"}
    BY <1>11 DEF RecordLanded, LocalsOK, LocalOK
  <2>4. Entry(job[t].result, job[t].op, job[t].current, job[t].after) \in AuditType
    BY <2>2, <2>3, EntryTypes
  <2>5. /\ audit' \in Seq(AuditType)
       /\ sched' \in Thread \cup {None}
       /\ job' \in [Thread -> JobType]
    BY <1>11, <2>4, LeaveTypes DEF RecordLanded
  <2>6. job[t].kind \in {"mutation", "local"}
    BY <1>11 DEF RecordLanded, LocalsOK, LocalOK
  <2>7. basis' \in [Thread -> BasisType]
    BY <1>11, <2>2, <2>6 DEF RecordLanded, BasisType
  <2> QED
    BY <1>11, <2>1, <2>2, <2>3, <2>4, <2>5, <2>6, <2>7 DEF RecordLanded, Goto, registryVars, targetVars, clientVars, historyVars, Leave, Finish
<1>12. ASSUME NEW t \in Thread, StatusUnavailable(t) PROVE TypeOK'
  <2>1. "bridge_unavailable" \in DropReason
    BY DEF DropReason
  <2>2. RegistryTypeOK'
    BY <1>12, <2>1, RegistryStep DEF StatusUnavailable
  <2> QED
    BY <1>12, <2>1, <2>2 DEF StatusUnavailable, Goto, registryVars, targetVars, clientVars, historyVars
<1>13. ASSUME NEW t \in Thread, StatusUnsupported(t) PROVE TypeOK'
  <2>1. RegistryTypeOK'
    BY <1>13 DEF StatusUnsupported, registryVars, RegistryTypeOK
  <2> QED
    BY <1>13, <2>1 DEF StatusUnsupported, Goto, registryVars, targetVars, clientVars, historyVars
<1>14. ASSUME NEW t \in Thread, Send(t) PROVE TypeOK'
  <2>1. RegistryTypeOK'
    BY <1>14 DEF Send, registryVars, RegistryTypeOK
  <2>2. job[t].kind \in {"read", "mutation"}
    BY <1>14 DEF Send, LocalsOK, LocalOK, SharedStep
  <2>3. job[t].op \in Nat /\ job[t].control \in ControlId \cup {None}
    BY DEF JobType
  <2>4. pipe' \in PipeType
    BY <1>14, <2>2, <2>3 DEF Send, PipeType
  <2> QED
    BY <1>14, <2>1, <2>2, <2>3, <2>4 DEF Send, Goto, registryVars, targetVars, clientVars, historyVars
<1>15. ASSUME NEW t \in Thread, DialFails(t) PROVE TypeOK'
  <2>1. RegistryTypeOK'
    BY <1>15 DEF DialFails, registryVars, RegistryTypeOK
  <2> QED
    BY <1>15, <2>1 DEF DialFails, Goto, registryVars, targetVars, clientVars, historyVars
<1>16. ASSUME NEW t \in Thread, Receive(t) PROVE TypeOK'
  <2>1. RegistryTypeOK'
    BY <1>16 DEF Receive, registryVars, RegistryTypeOK
  <2>2. pipe \in PipeType
    BY <1>16 DEF Receive, AwaitsReply
  <2>3. pipe.result \in {"ok", "partial", "error"} /\ pipe.seen \in Nat
    BY <1>16, <2>2 DEF Receive, PipeType
  <2>4. job' = [job EXCEPT ![t] = [job[t] EXCEPT !.result = pipe.result, !.seen = pipe.seen]]
    BY <1>16 DEF Receive
  <2>5. [job[t] EXCEPT !.result = pipe.result, !.seen = pipe.seen] \in JobType
    BY <2>3, JobUpdates
  <2>6. job' \in [Thread -> JobType]
    BY <2>4, <2>5
  <2> QED
    BY <1>16, <2>1, <2>2, <2>3, <2>4, <2>5, <2>6 DEF Receive, Goto, registryVars, targetVars, clientVars, historyVars
<1>17. ASSUME NEW t \in Thread, GiveUp(t) PROVE TypeOK'
  <2>1. RegistryTypeOK'
    BY <1>17 DEF GiveUp, registryVars, RegistryTypeOK
  <2>2. pipe' \in PipeType
    BY <1>17 DEF GiveUp, AwaitsReply, PipeType
  <2> QED
    BY <1>17, <2>1, <2>2 DEF GiveUp, Goto, registryVars, targetVars, clientVars, historyVars
<1>18. ASSUME NEW t \in Thread, Resynchronize(t) PROVE TypeOK'
  <2>1. RegistryTypeOK'
    BY <1>18, SMTT(40) DEF Resynchronize, registryVars, RegistryTypeOK
  <2>2. \A u \in Thread : [job[u] EXCEPT !.raced = TRUE] \in JobType
    BY JobUpdates
  <2>3. job' \in [Thread -> JobType]
    BY <1>18, <2>2 DEF Resynchronize
  <2>4. gen' \in Nat \ {0} /\ resyncs' \in SUBSET Nat
    BY <1>18 DEF Resynchronize
  <2> QED
    BY <1>18, <2>1, <2>2, <2>3, <2>4 DEF Resynchronize, Goto, registryVars, targetVars, clientVars, historyVars
<1>19. ASSUME NEW t \in Thread, Stamp(t) PROVE TypeOK'
  <2>1. RegistryTypeOK'
    BY <1>19 DEF Stamp, registryVars, RegistryTypeOK
  <2>2. job[t].seen \in Nat
    BY DEF JobType
  <2>3. basis' \in [Thread -> BasisType]
    BY <1>19, <2>2 DEF Stamp, BasisType
  <2>4. job' \in [Thread -> JobType]
    BY <1>19, NoJobType DEF Stamp, Finish
  <2> QED
    BY <1>19, <2>1, <2>2, <2>3, <2>4 DEF Stamp, Goto, registryVars, targetVars, clientVars, historyVars, Finish
<1>20. ASSUME NEW t \in Thread, ReadFails(t) PROVE TypeOK'
  <2>1. RegistryTypeOK'
    BY <1>20 DEF ReadFails, registryVars, RegistryTypeOK
  <2>2. job' \in [Thread -> JobType]
    BY <1>20, NoJobType DEF ReadFails, Finish
  <2> QED
    BY <1>20, <2>1, <2>2 DEF ReadFails, Goto, registryVars, targetVars, clientVars, historyVars, Finish
<1>21. ASSUME NEW t \in Thread, MeetExpired(t) PROVE TypeOK'
  <2>1. RegistryTypeOK'
    BY <1>21, RegistryStep DEF MeetExpired
  <2> QED
    BY <1>21, <2>1 DEF MeetExpired, Goto, registryVars, targetVars, clientVars, historyVars, DropExpired, ToolFrame
<1>22. ASSUME NEW t \in Thread, RunHook(t) PROVE TypeOK'
  <2>1. RegistryTypeOK'
    BY <1>22, RegistryStep DEF RunHook
  <2>2. drop[t].id \in ControlId /\ drop[t].reason \in DropReason
    BY <1>22, DropTypes DEF RunHook, Hook, RegistryTypeOK
  <2>3. audit' \in Seq(AuditType)
    BY <1>22, <2>2, LockEntryTypes DEF RunHook, Hook
  <2> QED
    BY <1>22, <2>1, <2>2, <2>3 DEF RunHook, Goto, registryVars, targetVars, clientVars, historyVars, ToolFrame
<1>23. ASSUME NEW t \in Thread, AcquireTool(t) PROVE TypeOK'
  <2>1. RegistryTypeOK'
    BY <1>23, RegistryStep DEF AcquireTool
  <2>2. PICK i \in ControlId : job' = [job EXCEPT ![t].control = i]
    BY <1>23 DEF AcquireTool
  <2>3. [job EXCEPT ![t].control = i] \in [Thread -> JobType]
    BY <2>2, JobUpdates
  <2>4. job' \in [Thread -> JobType]
    BY <2>2, <2>3
  <2>5. mine' \in [Thread -> SUBSET ControlId]
    BY <1>23 DEF AcquireTool
  <2> QED
    BY <1>23, <2>1, <2>2, <2>3, <2>4, <2>5 DEF AcquireTool, Goto, registryVars, targetVars, clientVars, historyVars, ToolFrame
<1>24. ASSUME NEW t \in Thread, RecordAcquired(t) PROVE TypeOK'
  <2>1. RegistryTypeOK'
    BY <1>24 DEF RecordAcquired, registryVars, RegistryTypeOK
  <2>2. job[t].control \in ControlId
    BY <1>24 DEF RecordAcquired, LocalsOK, LocalOK
  <2>3. audit' \in Seq(AuditType)
    BY <1>24, <2>2, LockEntryTypes DEF RecordAcquired
  <2>4. job' \in [Thread -> JobType]
    BY <1>24, NoJobType DEF RecordAcquired, Finish
  <2> QED
    BY <1>24, <2>1, <2>2, <2>3, <2>4 DEF RecordAcquired, Goto, registryVars, targetVars, clientVars, historyVars, Finish, ToolFrame
<1>25. ASSUME NEW t \in Thread, RenewTool(t) PROVE TypeOK'
  <2>1. RegistryTypeOK'
    BY <1>25, RegistryStep DEF RenewTool
  <2>2. PICK i \in ControlId : job' = [job EXCEPT ![t].control = i]
    BY <1>25 DEF RenewTool
  <2>3. [job EXCEPT ![t].control = i] \in [Thread -> JobType]
    BY <2>2, JobUpdates
  <2>4. job' \in [Thread -> JobType]
    BY <2>2, <2>3
  <2> QED
    BY <1>25, <2>1, <2>2, <2>3, <2>4 DEF RenewTool, Goto, registryVars, targetVars, clientVars, historyVars, ToolFrame
<1>26. ASSUME NEW t \in Thread, RecordRenewed(t) PROVE TypeOK'
  <2>1. RegistryTypeOK'
    BY <1>26 DEF RecordRenewed, registryVars, RegistryTypeOK
  <2>2. job[t].control \in ControlId
    BY <1>26 DEF RecordRenewed, LocalsOK, LocalOK
  <2>3. audit' \in Seq(AuditType)
    BY <1>26, <2>2, LockEntryTypes DEF RecordRenewed
  <2>4. job' \in [Thread -> JobType]
    BY <1>26, NoJobType DEF RecordRenewed, Finish
  <2> QED
    BY <1>26, <2>1, <2>2, <2>3, <2>4 DEF RecordRenewed, Goto, registryVars, targetVars, clientVars, historyVars, Finish, ToolFrame
<1>27. ASSUME NEW t \in Thread, ReleaseTool(t) PROVE TypeOK'
  <2>1. RegistryTypeOK'
    BY <1>27, RegistryStep DEF ReleaseTool
  <2> QED
    BY <1>27, <2>1 DEF ReleaseTool, Goto, registryVars, targetVars, clientVars, historyVars, ToolFrame
<1>28. ASSUME NEW t \in Thread, CloseContext(t) PROVE TypeOK'
  <2>1. "context_closed" \in DropReason
    BY DEF DropReason
  <2>2. RegistryTypeOK'
    BY <1>28, <2>1, RegistryStep DEF CloseContext
  <2> QED
    BY <1>28, <2>1, <2>2 DEF CloseContext, Goto, registryVars, targetVars, clientVars, historyVars, ToolFrame
<1>29. ASSUME NEW t \in Thread, ResumeLook(t) PROVE TypeOK'
  <2>1. RegistryTypeOK'
    BY <1>29, RegistryStep DEF ResumeLook
  <2>2. job' \in [Thread -> JobType]
    BY <1>29, NoJobType DEF ResumeLook, Finish
  <2> QED
    BY <1>29, <2>1, <2>2 DEF ResumeLook, Goto, registryVars, targetVars, clientVars, historyVars, Finish, ToolFrame
<1>30. ASSUME Execute PROVE TypeOK'
  <2>1. RegistryTypeOK'
    BY <1>30 DEF Execute, registryVars, RegistryTypeOK
  <2>2. pipe \in PipeType /\ pipe.op \in Nat /\ pipe.control \in ControlId \cup {None}
    BY <1>30 DEF Execute, PipeType
  <2>3. machine' \in Nat
    BY <1>30 DEF Execute
  <2>4. PICK r \in {"ok", "partial", "error"} :
          pipe' = [pipe EXCEPT !.result = r, !.seen = machine']
    BY <1>30 DEF Execute
  <2>5. pipe' \in PipeType
    BY <2>2, <2>3, <2>4 DEF PipeType
  <2>6. effects' \in SUBSET Nat /\ landed' \in SUBSET (ControlId \cup {None})
    BY <1>30, <2>2 DEF Execute
  <2> QED
    BY <1>30, <2>1, <2>3, <2>5, <2>6 DEF Execute, Goto, registryVars, targetVars, clientVars, historyVars
<1>31. ASSUME Disconnect PROVE TypeOK'
  <2>1. RegistryTypeOK'
    BY <1>31 DEF Disconnect, registryVars, RegistryTypeOK
  <2> QED
    BY <1>31, <2>1 DEF Disconnect, Goto, registryVars, targetVars, clientVars, historyVars
<1>32. ASSUME NEW i \in ControlId, TtlPasses(i) PROVE TypeOK'
  <2>1. RegistryTypeOK'
    BY <1>32 DEF TtlPasses, Expire, RegistryTypeOK, Fate
  <2> QED
    BY <1>32, <2>1 DEF TtlPasses, Expire, ToolFrame, Goto, registryVars, targetVars, clientVars, historyVars
<1>33. CASE UNCHANGED vars
  BY <1>33 DEF vars, RegistryTypeOK
<1> QED
  BY <1>1, <1>2, <1>3, <1>4, <1>5, <1>6, <1>7, <1>7a, <1>8, <1>9, <1>10, <1>11, <1>12, <1>13,
     <1>14, <1>15, <1>16, <1>17, <1>18, <1>19, <1>20, <1>21, <1>22, <1>23, <1>24, <1>25,
     <1>26, <1>27, <1>28, <1>29, <1>30, <1>31, <1>32, <1>33
     DEF Next, Mutation, RunCommand, Read, LockTool, NoMoreCalls

-----------------------------------------------------------------------------
(* What a step leaves of the knowledge of the other threads.                *)

\* What a step of one thread leaves of another thread's call.
Same(u) ==
  /\ pc'[u] = pc[u]
  /\ job'[u].kind = job[u].kind
  /\ job'[u].current = job[u].current
  /\ job'[u].after = job[u].after
  /\ job'[u].result = job[u].result
  /\ job'[u].control = job[u].control

\* A step of t does not disturb what the other threads know, and t knows again
\* what it has to.
Local(t) ==
  /\ gen <= gen'
  /\ \A u \in Thread \ {t} : Same(u) /\ (sched = u => sched' = u)
  /\ LocalOK(t)'

\* A step that records no landed mutation.
Silent == \/ audit' = audit
          \/ \E e : ~Landed(e) /\ audit' = Append(audit, e)
Starts(t) == Holding(t)' => \/ job'[t].current = gen
                            \/ Holding(t) /\ job'[t].current = job[t].current
Quiet(t) == Local(t) /\ Silent /\ Starts(t)

LEMMA OthersKeepLocals ==
  ASSUME TypeOK, TypeOK', LocalsOK, NEW t \in Thread, Local(t)
  PROVE  LocalsOK'
<1> SUFFICES ASSUME NEW u \in Thread \ {t} PROVE LocalOK(u)'
  BY DEF LocalsOK, Local
<1>1. Same(u) /\ LocalOK(u) /\ gen <= gen' /\ (sched = u => sched' = u)
  BY DEF Local, LocalsOK
<1>2. /\ gen \in Nat /\ gen' \in Nat
      /\ job[u].current \in Nat /\ job[u].after \in Nat
  BY DEF TypeOK, JobType
<1>3. Holding(u)' <=> Holding(u)
  BY <1>1 DEF Same, Holding
<1> QED
  BY <1>1, <1>2, <1>3 DEF Same, LocalOK

-----------------------------------------------------------------------------
(* The steps of the scheduler, seen by the invariant.                       *)

LEMMA Fields ==
  ASSUME TypeOK, NEW t \in Thread
  PROVE  /\ job[t].current \in Nat /\ job[t].after \in Nat
         /\ job[t].control \in ControlId \cup {None}
         /\ gen \in Nat /\ gen >= 1
         /\ DOMAIN pc = Thread /\ job \in [Thread -> JobType]
BY DEF TypeOK, JobType

\* A call has started or ended: its locals are those of Call or NoJob.
LEMMA CallFields ==
  /\ \A k, n, e, c : /\ Call(k, n, e, c).kind = k
                     /\ Call(k, n, e, c).current = NoGeneration
  /\ NoJob.kind = "none"
BY DEF Call, NoJob

LEMMA QuietSteps ==
  ASSUME TypeOK, LocalsOK, NEW t \in Thread,
         StartRead(t) \/ StartMutation(t) \/ EnterScheduler(t) \/
         CheckGeneration(t) \/ CheckActive(t) \/ CheckValid(t) \/ Prepare(t) \/
         ApplyLocally(t) \/ FailAmbiguous(t) \/ FailProvably(t) \/ Advance(t) \/
         StatusUnavailable(t) \/ StatusUnsupported(t) \/ Send(t) \/ DialFails(t)
         \/ Receive(t) \/ GiveUp(t) \/ Resynchronize(t) \/ Stamp(t) \/
         ReadFails(t) \/ MeetExpired(t) \/ RunHook(t) \/ AcquireTool(t) \/
         RecordAcquired(t) \/ RenewTool(t) \/ RecordRenewed(t) \/ ReleaseTool(t)
         \/ CloseContext(t) \/ ResumeLook(t)
  PROVE  Quiet(t)
<1> USE Fields
<1>a. LocalOK(t)
  BY DEF LocalsOK
<1> USE <1>a
<1>1. ASSUME StartRead(t) PROVE Quiet(t)
  <2>1. \A u \in Thread \ {t} : Same(u) /\ (sched = u => sched' = u)
    BY <1>1 DEF StartRead, Idle, Same, Goto
  <2>2. gen <= gen'
    BY <1>1 DEF StartRead, Idle, targetVars
  <2>3. LocalOK(t)'
    BY <1>1, CallFields DEF StartRead, Idle, targetVars, Goto, LocalOK, Holding,
      MutationStep, SharedStep
  <2>4. Silent
    BY <1>1 DEF StartRead, Idle, Silent, Landed, Entry, LockEntry
  <2>5. Starts(t)
    BY <1>1, CallFields DEF StartRead, Idle, targetVars, Starts, Goto, Holding,
      MutationStep, SharedStep
  <2> QED
    BY <2>1, <2>2, <2>3, <2>4, <2>5 DEF Quiet, Local
<1>2. ASSUME StartMutation(t) PROVE Quiet(t)
  <2>1. \A u \in Thread \ {t} : Same(u) /\ (sched = u => sched' = u)
    BY <1>2 DEF StartMutation, Idle, Same, Goto
  <2>2. gen <= gen'
    BY <1>2 DEF StartMutation, Idle, targetVars
  <2>3. LocalOK(t)'
    BY <1>2, CallFields DEF StartMutation, Idle, targetVars, Goto, LocalOK, Holding,
      MutationStep, SharedStep
  <2>4. Silent
    BY <1>2 DEF StartMutation, Idle, Silent, Landed, Entry, LockEntry
  <2>5. Starts(t)
    BY <1>2, CallFields DEF StartMutation, Idle, targetVars, Starts, Goto, Holding,
      MutationStep, SharedStep
  <2> QED
    BY <2>1, <2>2, <2>3, <2>4, <2>5 DEF Quiet, Local
<1>3. ASSUME EnterScheduler(t) PROVE Quiet(t)
  <2>1. \A u \in Thread \ {t} : Same(u) /\ (sched = u => sched' = u)
    BY <1>3, NoneAssumption DEF EnterScheduler, Same, Goto, JobType
  <2>2. gen <= gen'
    BY <1>3 DEF EnterScheduler, targetVars
  <2>3. LocalOK(t)'
    BY <1>3, CallFields DEF EnterScheduler, targetVars, Goto, LocalOK, Holding,
      MutationStep, SharedStep, JobType
  <2>4. Silent
    BY <1>3 DEF EnterScheduler, Silent, Landed, Entry, LockEntry
  <2>5. Starts(t)
    BY <1>3, CallFields DEF EnterScheduler, targetVars, Starts, Goto, Holding,
      MutationStep, SharedStep, JobType
  <2> QED
    BY <2>1, <2>2, <2>3, <2>4, <2>5 DEF Quiet, Local
<1>4. ASSUME CheckGeneration(t) PROVE Quiet(t)
  <2>1. \A u \in Thread \ {t} : Same(u) /\ (sched = u => sched' = u)
    BY <1>4, LocalOK(t) DEF CheckGeneration, Leave, Finish, Same, Goto, LocalOK,
      Holding, MutationStep, SharedStep
  <2>2. gen <= gen'
    BY <1>4 DEF CheckGeneration, Leave, Finish, targetVars
  <2>3. LocalOK(t)'
    BY <1>4, CallFields DEF CheckGeneration, Leave, Finish, targetVars, Goto, LocalOK,
      Holding, MutationStep, SharedStep
  <2>4. Silent
    BY <1>4 DEF CheckGeneration, Leave, Finish, Silent, Landed, Entry, LockEntry
  <2>5. Starts(t)
    BY <1>4, CallFields DEF CheckGeneration, Leave, Finish, targetVars, Starts, Goto,
      Holding, MutationStep, SharedStep
  <2> QED
    BY <2>1, <2>2, <2>3, <2>4, <2>5 DEF Quiet, Local
<1>5. ASSUME CheckActive(t) PROVE Quiet(t)
  <2>1. \A u \in Thread \ {t} : Same(u) /\ (sched = u => sched' = u)
    BY <1>5 DEF CheckActive, Same, Goto
  <2>2. gen <= gen'
    BY <1>5 DEF CheckActive, targetVars
  <2>3. LocalOK(t)'
    BY <1>5, CallFields DEF CheckActive, targetVars, Goto, LocalOK, Holding,
      MutationStep, SharedStep
  <2>4. Silent
    BY <1>5 DEF CheckActive, Silent, Landed, Entry, LockEntry
  <2>5. Starts(t)
    BY <1>5, CallFields DEF CheckActive, targetVars, Starts, Goto, Holding,
      MutationStep, SharedStep
  <2> QED
    BY <2>1, <2>2, <2>3, <2>4, <2>5 DEF Quiet, Local
<1>6. ASSUME CheckValid(t) PROVE Quiet(t)
  <2>1. \A u \in Thread \ {t} : Same(u) /\ (sched = u => sched' = u)
    BY <1>6, LocalOK(t) DEF CheckValid, Leave, Finish, Same, Goto, LocalOK, Holding,
      MutationStep, SharedStep
  <2>2. gen <= gen'
    BY <1>6 DEF CheckValid, Leave, Finish, targetVars
  <2>3. LocalOK(t)'
    BY <1>6, CallFields DEF CheckValid, Leave, Finish, targetVars, Goto, LocalOK,
      Holding, MutationStep, SharedStep
  <2>4. Silent
    BY <1>6 DEF CheckValid, Leave, Finish, Silent, Landed, Entry, LockEntry
  <2>5. Starts(t)
    BY <1>6, CallFields DEF CheckValid, Leave, Finish, targetVars, Starts, Goto,
      Holding, MutationStep, SharedStep
  <2> QED
    BY <2>1, <2>2, <2>3, <2>4, <2>5 DEF Quiet, Local
<1>7. ASSUME Prepare(t) PROVE Quiet(t)
  <2>1. \A u \in Thread \ {t} : Same(u) /\ (sched = u => sched' = u)
    BY <1>7 DEF Prepare, Same, Goto
  <2>2. gen <= gen'
    BY <1>7 DEF Prepare, targetVars
  <2>3. LocalOK(t)'
    BY <1>7, CallFields DEF Prepare, targetVars, Goto, LocalOK, Holding, MutationStep,
      SharedStep
  <2>4. Silent
    BY <1>7 DEF Prepare, Silent, Landed, Entry, LockEntry
  <2>5. Starts(t)
    BY <1>7, CallFields DEF Prepare, targetVars, Starts, Goto, Holding, MutationStep,
      SharedStep
  <2> QED
    BY <2>1, <2>2, <2>3, <2>4, <2>5 DEF Quiet, Local
<1>7a. ASSUME ApplyLocally(t) PROVE Quiet(t)
  <2>1. \A u \in Thread \ {t} : Same(u) /\ (sched = u => sched' = u)
    BY <1>7a DEF ApplyLocally, Same, Goto
  <2>2. gen <= gen'
    BY <1>7a DEF ApplyLocally, targetVars
  <2>3. LocalOK(t)'
    BY <1>7a DEF ApplyLocally, targetVars, Goto, LocalOK, Holding, MutationStep,
      SharedStep
  <2>4. Silent
    BY <1>7a DEF ApplyLocally, Silent
  <2>5. Starts(t)
    BY <1>7a DEF ApplyLocally, targetVars, Starts, Goto, Holding, MutationStep,
      SharedStep
  <2> QED
    BY <2>1, <2>2, <2>3, <2>4, <2>5 DEF Quiet, Local
<1>8. ASSUME FailAmbiguous(t) PROVE Quiet(t)
  <2>1. \A u \in Thread \ {t} : Same(u) /\ (sched = u => sched' = u)
    BY <1>8, LocalOK(t) DEF FailAmbiguous, Leave, Finish, Same, Goto, LocalOK, Holding,
      MutationStep, SharedStep
  <2>2. gen <= gen'
    BY <1>8 DEF FailAmbiguous, Leave, Finish, targetVars
  <2>3. LocalOK(t)'
    BY <1>8, CallFields DEF FailAmbiguous, Leave, Finish, targetVars, Goto, LocalOK,
      Holding, MutationStep, SharedStep
  <2>4. Silent
    BY <1>8 DEF FailAmbiguous, Leave, Finish, Silent, Landed, Entry, LockEntry
  <2>5. Starts(t)
    BY <1>8, CallFields DEF FailAmbiguous, Leave, Finish, targetVars, Starts, Goto,
      Holding, MutationStep, SharedStep
  <2> QED
    BY <2>1, <2>2, <2>3, <2>4, <2>5 DEF Quiet, Local
<1>9. ASSUME FailProvably(t) PROVE Quiet(t)
  <2>1. \A u \in Thread \ {t} : Same(u) /\ (sched = u => sched' = u)
    BY <1>9, LocalOK(t) DEF FailProvably, Leave, Finish, Same, Goto, LocalOK, Holding,
      MutationStep, SharedStep
  <2>2. gen <= gen'
    BY <1>9 DEF FailProvably, Leave, Finish, targetVars
  <2>3. LocalOK(t)'
    BY <1>9, CallFields DEF FailProvably, Leave, Finish, targetVars, Goto, LocalOK,
      Holding, MutationStep, SharedStep
  <2>4. Silent
    BY <1>9 DEF FailProvably, Leave, Finish, Silent, Landed, Entry, LockEntry
  <2>5. Starts(t)
    BY <1>9, CallFields DEF FailProvably, Leave, Finish, targetVars, Starts, Goto,
      Holding, MutationStep, SharedStep
  <2> QED
    BY <2>1, <2>2, <2>3, <2>4, <2>5 DEF Quiet, Local
<1>10. ASSUME Advance(t) PROVE Quiet(t)
  <2>1. \A u \in Thread \ {t} : Same(u) /\ (sched = u => sched' = u)
    BY <1>10 DEF Advance, Same, Goto, JobType
  <2>2. gen <= gen'
    BY <1>10 DEF Advance, targetVars
  <2>3. LocalOK(t)'
    BY <1>10, CallFields DEF Advance, targetVars, Goto, LocalOK, Holding, MutationStep,
      SharedStep, JobType
  <2>4. Silent
    BY <1>10 DEF Advance, Silent, Landed, Entry, LockEntry
  <2>5. Starts(t)
    BY <1>10, CallFields DEF Advance, targetVars, Starts, Goto, Holding, MutationStep,
      SharedStep, JobType
  <2> QED
    BY <2>1, <2>2, <2>3, <2>4, <2>5 DEF Quiet, Local
<1>11. ASSUME StatusUnavailable(t) PROVE Quiet(t)
  <2>1. \A u \in Thread \ {t} : Same(u) /\ (sched = u => sched' = u)
    BY <1>11 DEF StatusUnavailable, Same, Goto
  <2>2. gen <= gen'
    BY <1>11 DEF StatusUnavailable, targetVars
  <2>3. LocalOK(t)'
    BY <1>11, CallFields DEF StatusUnavailable, targetVars, Goto, LocalOK, Holding,
      MutationStep, SharedStep
  <2>4. Silent
    BY <1>11 DEF StatusUnavailable, Silent, Landed, Entry, LockEntry
  <2>5. Starts(t)
    BY <1>11, CallFields DEF StatusUnavailable, targetVars, Starts, Goto, Holding,
      MutationStep, SharedStep
  <2> QED
    BY <2>1, <2>2, <2>3, <2>4, <2>5 DEF Quiet, Local
<1>12. ASSUME StatusUnsupported(t) PROVE Quiet(t)
  <2>1. \A u \in Thread \ {t} : Same(u) /\ (sched = u => sched' = u)
    BY <1>12 DEF StatusUnsupported, Same, Goto
  <2>2. gen <= gen'
    BY <1>12 DEF StatusUnsupported, targetVars
  <2>3. LocalOK(t)'
    BY <1>12, CallFields DEF StatusUnsupported, targetVars, Goto, LocalOK, Holding,
      MutationStep, SharedStep
  <2>4. Silent
    BY <1>12 DEF StatusUnsupported, Silent, Landed, Entry, LockEntry
  <2>5. Starts(t)
    BY <1>12, CallFields DEF StatusUnsupported, targetVars, Starts, Goto, Holding,
      MutationStep, SharedStep
  <2> QED
    BY <2>1, <2>2, <2>3, <2>4, <2>5 DEF Quiet, Local
<1>13. ASSUME Send(t) PROVE Quiet(t)
  <2>1. \A u \in Thread \ {t} : Same(u) /\ (sched = u => sched' = u)
    BY <1>13 DEF Send, Same, Goto
  <2>2. gen <= gen'
    BY <1>13 DEF Send, targetVars
  <2>3. LocalOK(t)'
    BY <1>13, CallFields DEF Send, targetVars, Goto, LocalOK, Holding, MutationStep,
      SharedStep
  <2>4. Silent
    BY <1>13 DEF Send, Silent, Landed, Entry, LockEntry
  <2>5. Starts(t)
    BY <1>13, CallFields DEF Send, targetVars, Starts, Goto, Holding, MutationStep,
      SharedStep
  <2> QED
    BY <2>1, <2>2, <2>3, <2>4, <2>5 DEF Quiet, Local
<1>14. ASSUME DialFails(t) PROVE Quiet(t)
  <2>1. \A u \in Thread \ {t} : Same(u) /\ (sched = u => sched' = u)
    BY <1>14 DEF DialFails, Same, Goto
  <2>2. gen <= gen'
    BY <1>14 DEF DialFails, targetVars
  <2>3. LocalOK(t)'
    BY <1>14, CallFields DEF DialFails, targetVars, Goto, LocalOK, Holding,
      MutationStep, SharedStep
  <2>4. Silent
    BY <1>14 DEF DialFails, Silent, Landed, Entry, LockEntry
  <2>5. Starts(t)
    BY <1>14, CallFields DEF DialFails, targetVars, Starts, Goto, Holding, MutationStep,
      SharedStep
  <2> QED
    BY <2>1, <2>2, <2>3, <2>4, <2>5 DEF Quiet, Local
<1>15. ASSUME Receive(t) PROVE Quiet(t)
  <2>1. \A u \in Thread \ {t} : Same(u) /\ (sched = u => sched' = u)
    BY <1>15 DEF Receive, AwaitsReply, Same, Goto, JobType
  <2>2. gen <= gen'
    BY <1>15 DEF Receive, AwaitsReply, targetVars
  <2>3. LocalOK(t)'
    BY <1>15, CallFields DEF Receive, AwaitsReply, targetVars, Goto, LocalOK, Holding,
      MutationStep, SharedStep, JobType, PipeType
  <2>4. Silent
    BY <1>15 DEF Receive, AwaitsReply, Silent, Landed, Entry, LockEntry
  <2>5. Starts(t)
    BY <1>15, CallFields DEF Receive, AwaitsReply, targetVars, Starts, Goto, Holding,
      MutationStep, SharedStep, JobType
  <2> QED
    BY <2>1, <2>2, <2>3, <2>4, <2>5 DEF Quiet, Local
<1>16. ASSUME GiveUp(t) PROVE Quiet(t)
  <2>1. \A u \in Thread \ {t} : Same(u) /\ (sched = u => sched' = u)
    BY <1>16 DEF GiveUp, AwaitsReply, Same, Goto
  <2>2. gen <= gen'
    BY <1>16 DEF GiveUp, AwaitsReply, targetVars
  <2>3. LocalOK(t)'
    BY <1>16, CallFields DEF GiveUp, AwaitsReply, targetVars, Goto, LocalOK, Holding,
      MutationStep, SharedStep
  <2>4. Silent
    BY <1>16 DEF GiveUp, AwaitsReply, Silent, Landed, Entry, LockEntry
  <2>5. Starts(t)
    BY <1>16, CallFields DEF GiveUp, AwaitsReply, targetVars, Starts, Goto, Holding,
      MutationStep, SharedStep
  <2> QED
    BY <2>1, <2>2, <2>3, <2>4, <2>5 DEF Quiet, Local
<1>17. ASSUME Resynchronize(t) PROVE Quiet(t)
  <2>1. \A u \in Thread \ {t} : Same(u) /\ (sched = u => sched' = u)
    BY <1>17 DEF Resynchronize, Same, Goto, JobType
  <2>2. gen <= gen'
    BY <1>17 DEF Resynchronize, targetVars
  <2>3. LocalOK(t)'
    BY <1>17, CallFields DEF Resynchronize, targetVars, Goto, LocalOK, Holding,
      MutationStep, SharedStep, JobType
  <2>4. Silent
    BY <1>17 DEF Resynchronize, Silent, Landed, Entry, LockEntry
  <2>5. Starts(t)
    BY <1>17, CallFields DEF Resynchronize, targetVars, Starts, Goto, Holding,
      MutationStep, SharedStep, JobType
  <2> QED
    BY <2>1, <2>2, <2>3, <2>4, <2>5 DEF Quiet, Local
<1>18. ASSUME Stamp(t) PROVE Quiet(t)
  <2>1. \A u \in Thread \ {t} : Same(u) /\ (sched = u => sched' = u)
    BY <1>18 DEF Stamp, Finish, Same, Goto
  <2>2. gen <= gen'
    BY <1>18 DEF Stamp, Finish, targetVars
  <2>3. LocalOK(t)'
    BY <1>18, CallFields DEF Stamp, Finish, targetVars, Goto, LocalOK, Holding,
      MutationStep, SharedStep
  <2>4. Silent
    BY <1>18 DEF Stamp, Finish, Silent, Landed, Entry, LockEntry
  <2>5. Starts(t)
    BY <1>18, CallFields DEF Stamp, Finish, targetVars, Starts, Goto, Holding,
      MutationStep, SharedStep
  <2> QED
    BY <2>1, <2>2, <2>3, <2>4, <2>5 DEF Quiet, Local
<1>19. ASSUME ReadFails(t) PROVE Quiet(t)
  <2>1. \A u \in Thread \ {t} : Same(u) /\ (sched = u => sched' = u)
    BY <1>19 DEF ReadFails, Finish, Same, Goto
  <2>2. gen <= gen'
    BY <1>19 DEF ReadFails, Finish, targetVars
  <2>3. LocalOK(t)'
    BY <1>19, CallFields DEF ReadFails, Finish, targetVars, Goto, LocalOK, Holding,
      MutationStep, SharedStep
  <2>4. Silent
    BY <1>19 DEF ReadFails, Finish, Silent, Landed, Entry, LockEntry
  <2>5. Starts(t)
    BY <1>19, CallFields DEF ReadFails, Finish, targetVars, Starts, Goto, Holding,
      MutationStep, SharedStep
  <2> QED
    BY <2>1, <2>2, <2>3, <2>4, <2>5 DEF Quiet, Local
<1>20. ASSUME MeetExpired(t) PROVE Quiet(t)
  <2>1. \A u \in Thread \ {t} : Same(u) /\ (sched = u => sched' = u)
    BY <1>20 DEF MeetExpired, ToolFrame, Idle, DropExpired, Same, Goto
  <2>2. gen <= gen'
    BY <1>20 DEF MeetExpired, ToolFrame, Idle, DropExpired, targetVars
  <2>3. LocalOK(t)'
    BY <1>20, CallFields DEF MeetExpired, ToolFrame, Idle, DropExpired, targetVars,
      Goto, LocalOK, Holding, MutationStep, SharedStep
  <2>4. Silent
    BY <1>20 DEF MeetExpired, ToolFrame, Idle, DropExpired, Silent, Landed, Entry,
      LockEntry
  <2>5. Starts(t)
    BY <1>20, CallFields DEF MeetExpired, ToolFrame, Idle, DropExpired, targetVars,
      Starts, Goto, Holding, MutationStep, SharedStep
  <2> QED
    BY <2>1, <2>2, <2>3, <2>4, <2>5 DEF Quiet, Local
<1>21. ASSUME RunHook(t) PROVE Quiet(t)
  <2>1. \A u \in Thread \ {t} : Same(u) /\ (sched = u => sched' = u)
    BY <1>21 DEF RunHook, ToolFrame, Hook, Same, Goto
  <2>2. gen <= gen'
    BY <1>21 DEF RunHook, ToolFrame, Hook, targetVars
  <2>3. LocalOK(t)'
    BY <1>21, CallFields DEF RunHook, ToolFrame, Hook, targetVars, Goto, LocalOK,
      Holding, MutationStep, SharedStep
  <2>4. Silent
    BY <1>21 DEF RunHook, ToolFrame, Hook, Silent, Landed, Entry, LockEntry
  <2>5. Starts(t)
    BY <1>21, CallFields DEF RunHook, ToolFrame, Hook, targetVars, Starts, Goto,
      Holding, MutationStep, SharedStep
  <2> QED
    BY <2>1, <2>2, <2>3, <2>4, <2>5 DEF Quiet, Local
<1>22. ASSUME AcquireTool(t) PROVE Quiet(t)
  <2>1. \A u \in Thread \ {t} : Same(u) /\ (sched = u => sched' = u)
    BY <1>22 DEF AcquireTool, ToolFrame, Idle, Same, Goto, JobType
  <2>2. gen <= gen'
    BY <1>22 DEF AcquireTool, ToolFrame, Idle, targetVars
  <2>3. LocalOK(t)'
    BY <1>22, CallFields DEF AcquireTool, ToolFrame, Idle, targetVars, Goto, LocalOK,
      Holding, MutationStep, SharedStep, JobType
  <2>4. Silent
    BY <1>22 DEF AcquireTool, ToolFrame, Idle, Silent, Landed, Entry, LockEntry
  <2>5. Starts(t)
    BY <1>22, CallFields DEF AcquireTool, ToolFrame, Idle, targetVars, Starts, Goto,
      Holding, MutationStep, SharedStep, JobType
  <2> QED
    BY <2>1, <2>2, <2>3, <2>4, <2>5 DEF Quiet, Local
<1>23. ASSUME RecordAcquired(t) PROVE Quiet(t)
  <2>1. \A u \in Thread \ {t} : Same(u) /\ (sched = u => sched' = u)
    BY <1>23 DEF RecordAcquired, Finish, ToolFrame, Same, Goto
  <2>2. gen <= gen'
    BY <1>23 DEF RecordAcquired, Finish, ToolFrame, targetVars
  <2>3. LocalOK(t)'
    BY <1>23, CallFields DEF RecordAcquired, Finish, ToolFrame, targetVars, Goto,
      LocalOK, Holding, MutationStep, SharedStep
  <2>4. Silent
    BY <1>23 DEF RecordAcquired, Finish, ToolFrame, Silent, Landed, Entry, LockEntry
  <2>5. Starts(t)
    BY <1>23, CallFields DEF RecordAcquired, Finish, ToolFrame, targetVars, Starts,
      Goto, Holding, MutationStep, SharedStep
  <2> QED
    BY <2>1, <2>2, <2>3, <2>4, <2>5 DEF Quiet, Local
<1>24. ASSUME RenewTool(t) PROVE Quiet(t)
  <2>1. \A u \in Thread \ {t} : Same(u) /\ (sched = u => sched' = u)
    BY <1>24 DEF RenewTool, ToolFrame, Idle, Same, Goto, JobType
  <2>2. gen <= gen'
    BY <1>24 DEF RenewTool, ToolFrame, Idle, targetVars
  <2>3. LocalOK(t)'
    BY <1>24, CallFields DEF RenewTool, ToolFrame, Idle, targetVars, Goto, LocalOK,
      Holding, MutationStep, SharedStep, JobType, TypeOK
  <2>4. Silent
    BY <1>24 DEF RenewTool, ToolFrame, Idle, Silent, Landed, Entry, LockEntry
  <2>5. Starts(t)
    BY <1>24, CallFields DEF RenewTool, ToolFrame, Idle, targetVars, Starts, Goto,
      Holding, MutationStep, SharedStep, JobType
  <2> QED
    BY <2>1, <2>2, <2>3, <2>4, <2>5 DEF Quiet, Local
<1>25. ASSUME RecordRenewed(t) PROVE Quiet(t)
  <2>1. \A u \in Thread \ {t} : Same(u) /\ (sched = u => sched' = u)
    BY <1>25 DEF RecordRenewed, Finish, ToolFrame, Same, Goto
  <2>2. gen <= gen'
    BY <1>25 DEF RecordRenewed, Finish, ToolFrame, targetVars
  <2>3. LocalOK(t)'
    BY <1>25, CallFields DEF RecordRenewed, Finish, ToolFrame, targetVars, Goto,
      LocalOK, Holding, MutationStep, SharedStep
  <2>4. Silent
    BY <1>25 DEF RecordRenewed, Finish, ToolFrame, Silent, Landed, Entry, LockEntry
  <2>5. Starts(t)
    BY <1>25, CallFields DEF RecordRenewed, Finish, ToolFrame, targetVars, Starts, Goto,
      Holding, MutationStep, SharedStep
  <2> QED
    BY <2>1, <2>2, <2>3, <2>4, <2>5 DEF Quiet, Local
<1>26. ASSUME ReleaseTool(t) PROVE Quiet(t)
  <2>1. \A u \in Thread \ {t} : Same(u) /\ (sched = u => sched' = u)
    BY <1>26 DEF ReleaseTool, ToolFrame, Idle, Same, Goto
  <2>2. gen <= gen'
    BY <1>26 DEF ReleaseTool, ToolFrame, Idle, targetVars
  <2>3. LocalOK(t)'
    BY <1>26, CallFields DEF ReleaseTool, ToolFrame, Idle, targetVars, Goto, LocalOK,
      Holding, MutationStep, SharedStep
  <2>4. Silent
    BY <1>26 DEF ReleaseTool, ToolFrame, Idle, Silent, Landed, Entry, LockEntry
  <2>5. Starts(t)
    BY <1>26, CallFields DEF ReleaseTool, ToolFrame, Idle, targetVars, Starts, Goto,
      Holding, MutationStep, SharedStep
  <2> QED
    BY <2>1, <2>2, <2>3, <2>4, <2>5 DEF Quiet, Local
<1>27. ASSUME CloseContext(t) PROVE Quiet(t)
  <2>1. \A u \in Thread \ {t} : Same(u) /\ (sched = u => sched' = u)
    BY <1>27 DEF CloseContext, ToolFrame, Idle, Same, Goto
  <2>2. gen <= gen'
    BY <1>27 DEF CloseContext, ToolFrame, Idle, targetVars
  <2>3. LocalOK(t)'
    BY <1>27, CallFields DEF CloseContext, ToolFrame, Idle, targetVars, Goto, LocalOK,
      Holding, MutationStep, SharedStep
  <2>4. Silent
    BY <1>27 DEF CloseContext, ToolFrame, Idle, Silent, Landed, Entry, LockEntry
  <2>5. Starts(t)
    BY <1>27, CallFields DEF CloseContext, ToolFrame, Idle, targetVars, Starts, Goto,
      Holding, MutationStep, SharedStep
  <2> QED
    BY <2>1, <2>2, <2>3, <2>4, <2>5 DEF Quiet, Local
<1>28. ASSUME ResumeLook(t) PROVE Quiet(t)
  <2>1. \A u \in Thread \ {t} : Same(u) /\ (sched = u => sched' = u)
    BY <1>28 DEF ResumeLook, Finish, ToolFrame, Same, Goto
  <2>2. gen <= gen'
    BY <1>28 DEF ResumeLook, Finish, ToolFrame, targetVars
  <2>3. LocalOK(t)'
    BY <1>28, CallFields DEF ResumeLook, Finish, ToolFrame, targetVars, Goto, LocalOK,
      Holding, MutationStep, SharedStep
  <2>4. Silent
    BY <1>28 DEF ResumeLook, Finish, ToolFrame, Silent, Landed, Entry, LockEntry
  <2>5. Starts(t)
    BY <1>28, CallFields DEF ResumeLook, Finish, ToolFrame, targetVars, Starts, Goto,
      Holding, MutationStep, SharedStep
  <2> QED
    BY <2>1, <2>2, <2>3, <2>4, <2>5 DEF Quiet, Local
<1> QED
  BY <1>1, <1>2, <1>3, <1>4, <1>5, <1>6, <1>7, <1>7a, <1>8, <1>9, <1>10, <1>11, <1>12, <1>13,
     <1>14, <1>15, <1>16, <1>17, <1>18, <1>19, <1>20, <1>21, <1>22, <1>23, <1>24, <1>25,
     <1>26, <1>27, <1>28

\* A mutation that landed enters the record.
LEMMA LandedStep ==
  ASSUME TypeOK, LocalsOK, NEW t \in Thread, RecordLanded(t)
  PROVE  /\ Local(t) /\ ~Holding(t)'
         /\ Holding(t) /\ gen' = gen
         /\ \E e : /\ audit' = Append(audit, e)
                   /\ Landed(e)
                   /\ e.before = job[t].current /\ e.after = job[t].after
<1> USE Fields
<1>1. LocalOK(t)
  BY DEF LocalsOK
<1>2. Holding(t) /\ sched = t
  BY <1>1 DEF RecordLanded, LocalOK, Holding, MutationStep
<1>3. \A u \in Thread \ {t} : Same(u) /\ (sched = u => sched' = u)
  BY <1>2 DEF RecordLanded, Leave, Finish, Same, Goto
<1>4. gen' = gen
  BY DEF RecordLanded, targetVars
<1>5. LocalOK(t)' /\ ~Holding(t)'
  BY CallFields DEF RecordLanded, Leave, Finish, Goto, LocalOK, Holding, MutationStep, SharedStep
<1>6. /\ audit' = Append(audit, Entry(job[t].result, job[t].op, job[t].current, job[t].after))
      /\ job[t].result \in {"ok", "partial"}
  BY <1>1 DEF RecordLanded, Leave, LocalOK
<1> QED
  BY <1>2, <1>3, <1>4, <1>5, <1>6 DEF Local, Landed, Entry

\* The rest of the system's steps: those of the plugin and of time.
Still == UNCHANGED <<gen, pc, job, sched, audit>>

LEMMA StillSteps ==
  ASSUME Execute \/ Disconnect \/ (\E i \in ControlId : TtlPasses(i)) \/ UNCHANGED vars
  PROVE  Still
BY DEF Execute, Disconnect, TtlPasses, Expire, ToolFrame, targetVars, vars, Still

LEMMA StepKinds ==
  ASSUME TypeOK, LocalsOK, [Next]_vars
  PROVE  Still \/ \E t \in Thread : Quiet(t) \/ RecordLanded(t)
<1>1. CASE Execute \/ Disconnect \/ (\E i \in ControlId : TtlPasses(i)) \/ UNCHANGED vars
  BY <1>1, StillSteps
<1>2. ASSUME NEW t \in Thread, Mutation(t) \/ RunCommand(t) \/ Read(t) \/ LockTool(t)
      PROVE  Quiet(t) \/ RecordLanded(t)
  BY <1>2, QuietSteps DEF Mutation, RunCommand, Read, LockTool
<1> QED
  BY <1>1, <1>2 DEF Next, NoMoreCalls

LEMMA LocalsStep ==
  ASSUME TypeOK, TypeOK', LocalsOK, [Next]_vars
  PROVE  LocalsOK'
<1>1. CASE Still
  BY <1>1 DEF Still, LocalsOK, LocalOK, Holding
<1>2. ASSUME NEW t \in Thread, Quiet(t) \/ RecordLanded(t) PROVE LocalsOK'
  BY <1>2, LandedStep, OthersKeepLocals DEF Quiet
<1> QED
  BY <1>1, <1>2, StepKinds

-----------------------------------------------------------------------------
(* The trail.                                                               *)

\* The landed entries of the stream, which only RecordLanded adds to.
LEMMA SilentTrail ==
  ASSUME TypeOK, Silent
  PROVE  /\ LandedIndex' = LandedIndex
         /\ \A i \in LandedIndex : audit'[i] = audit[i]
<1>1. audit \in Seq(AuditType)
  BY DEF TypeOK
<1>2. CASE audit' = audit
  BY <1>2 DEF LandedIndex
<1>3. ASSUME NEW e, ~Landed(e), audit' = Append(audit, e)
      PROVE  /\ LandedIndex' = LandedIndex
             /\ \A i \in LandedIndex : audit'[i] = audit[i]
  <2>1. Len(audit') = Len(audit) + 1 /\ Len(audit) \in Nat
    BY <1>1, <1>3
  <2>2. audit'[Len(audit) + 1] = e /\ \A i \in 1..Len(audit) : audit'[i] = audit[i]
    BY <1>1, <1>3
  <2> QED
    BY <1>3, <2>1, <2>2 DEF LandedIndex
<1> QED
  BY <1>2, <1>3 DEF Silent

LEMMA EntryFields ==
  ASSUME TypeOK, NEW i \in LandedIndex
  PROVE  audit[i].before \in Nat /\ audit[i].after \in Nat
<1>1. audit[i] \in AuditType /\ Landed(audit[i])
  BY DEF TypeOK, LandedIndex
<1> QED
  BY <1>1 DEF AuditType, MutationEntry, LockEvent, Landed

LEMMA TrailStep ==
  ASSUME IInv, TypeOK', [Next]_vars
  PROVE  TrailBehind' /\ AuditTrailOrdered'
<1> USE DEF IInv
<1>0. gen \in Nat /\ gen' \in Nat
  BY DEF TypeOK
<1>1. CASE Still
  BY <1>1 DEF Still, TrailBehind, LandedIndex, Holding, AuditTrailOrdered
<1>2. ASSUME NEW t \in Thread, Quiet(t) PROVE TrailBehind' /\ AuditTrailOrdered'
  <2>1. /\ LandedIndex' = LandedIndex
        /\ \A i \in LandedIndex : audit'[i] = audit[i]
    BY <1>2, SilentTrail DEF Quiet
  <2>2. gen <= gen'
    BY <1>2 DEF Quiet, Local
  <2>3. AuditTrailOrdered'
    <3>1. \A i, j \in LandedIndex :
            i < j => audit[i].before < audit[i].after /\ audit[i].after <= audit[j].before
      BY DEF AuditTrailOrdered, LandedIndex
    <3> QED
      BY <2>1, <3>1 DEF AuditTrailOrdered, LandedIndex
  <2>4. \A i \in LandedIndex' : audit'[i].before < audit'[i].after /\ audit'[i].after <= gen'
    BY <1>0, <2>1, <2>2, EntryFields DEF TrailBehind
  <2>5. ASSUME NEW u \in Thread, Holding(u)', NEW i \in LandedIndex
        PROVE  audit[i].after <= job'[u].current
    <3>1. CASE u = t
      BY <1>2, <2>5, <3>1 DEF Quiet, Starts, TrailBehind
    <3>2. CASE u # t
      BY <1>2, <2>5, <3>2 DEF Quiet, Local, Same, Holding, TrailBehind
    <3> QED
      BY <3>1, <3>2
  <2> QED
    BY <2>1, <2>3, <2>4, <2>5 DEF TrailBehind
<1>3. ASSUME NEW t \in Thread, RecordLanded(t) PROVE TrailBehind' /\ AuditTrailOrdered'
  <2>1. /\ Local(t) /\ ~Holding(t)' /\ Holding(t) /\ gen' = gen
    BY <1>3, LandedStep
  <2>2. PICK e : /\ audit' = Append(audit, e)
                 /\ Landed(e)
                 /\ e.before = job[t].current /\ e.after = job[t].after
    BY <1>3, LandedStep
  <2>3. audit \in Seq(AuditType)
    BY DEF TypeOK
  <2>4. Len(audit') = Len(audit) + 1 /\ Len(audit) \in Nat
    BY <2>2, <2>3
  <2>5. audit'[Len(audit) + 1] = e /\ \A i \in 1..Len(audit) : audit'[i] = audit[i]
    BY <2>2, <2>3
  <2>6. LandedIndex' = LandedIndex \cup {Len(audit) + 1}
    BY <2>2, <2>4, <2>5 DEF LandedIndex
  <2>7. e.before < e.after /\ e.after <= gen /\ e.before \in Nat /\ e.after \in Nat
    BY <1>3, <2>2, Fields DEF LocalsOK, LocalOK, RecordLanded
  <2>8. \A i \in LandedIndex : i < Len(audit) + 1 /\ audit[i].after <= e.before
    BY <2>1, <2>2, <2>4 DEF TrailBehind, LandedIndex
  <2>9. \A i, j \in LandedIndex' : i < j =>
          audit'[i].before < audit'[i].after /\ audit'[i].after <= audit'[j].before
    <3>1. \A i, j \in LandedIndex :
            i < j => audit[i].before < audit[i].after /\ audit[i].after <= audit[j].before
      BY DEF AuditTrailOrdered, LandedIndex
    <3>2. \A i \in LandedIndex : i \in 1..Len(audit) /\ audit[i].before < audit[i].after
      BY DEF TrailBehind, LandedIndex
    <3> QED
      BY <2>4, <2>5, <2>6, <2>8, <3>1, <3>2
  <2>10. AuditTrailOrdered'
    BY <2>9 DEF AuditTrailOrdered, LandedIndex
  <2>11. \A i \in LandedIndex' : audit'[i].before < audit'[i].after /\ audit'[i].after <= gen'
    <3>1. \A i \in LandedIndex : /\ i \in 1..Len(audit)
                                 /\ audit[i].before < audit[i].after /\ audit[i].after <= gen
      BY DEF TrailBehind, LandedIndex
    <3> QED
      BY <2>1, <2>5, <2>6, <2>7, <3>1
  <2>12. \A u \in Thread : ~Holding(u)'
    <3>1. \A u \in Thread \ {t} : Holding(u)' => Holding(u)
      BY <2>1 DEF Local, Same, Holding
    <3>2. \A u \in Thread : Holding(u) => sched = u
      BY DEF LocalsOK, LocalOK
    <3> QED
      BY <2>1, <3>1, <3>2
  <2> QED
    BY <2>10, <2>11, <2>12 DEF TrailBehind
<1> QED
  BY <1>1, <1>2, <1>3, StepKinds

-----------------------------------------------------------------------------
(* The theorems.                                                            *)

LEMMA InitInv == ASSUME Init PROVE IInv
<1>1. TypeOK
  <2>1. RegistryTypeOK
    BY DropTypes DEF Init, RegistryInit, RegistryTypeOK, Fate
  <2>2. job \in [Thread -> JobType]
    BY NoJobType DEF Init
  <2>3. basis \in [Thread -> BasisType]
    BY DEF Init, BasisType
  <2>4. audit \in Seq(AuditType)
    BY DEF Init
  <2>5. unknown \in BOOLEAN
    BY Zenon DEF Init
  <2>6. /\ gen \in Nat \ {0} /\ machine \in Nat /\ calls \in Nat
        /\ effects \in SUBSET Nat /\ resyncs \in SUBSET Nat
        /\ landed \in SUBSET (ControlId \cup {None})
        /\ mine \in [Thread -> SUBSET ControlId]
    BY DEF Init
  <2> QED
    BY <2>1, <2>2, <2>3, <2>4, <2>5, <2>6 DEF Init, TypeOK
<1>2. LocalsOK
  BY CallFields DEF Init, LocalsOK, LocalOK, Holding, MutationStep, SharedStep
<1>3. Len(audit) = 0
  BY DEF Init
<1>4. TrailBehind /\ AuditTrailOrdered
  BY <1>3 DEF Init, TrailBehind, LandedIndex, Holding, MutationStep, SharedStep, AuditTrailOrdered
<1> QED
  BY <1>1, <1>2, <1>4 DEF IInv

\* The scheduler's inductive invariant (executeMutation, mutation.go).
THEOREM Inductive == Spec => []IInv
<1>1. Init => IInv
  BY InitInv
<1>2. IInv /\ [Next]_vars => IInv'
  <2> SUFFICES ASSUME IInv, [Next]_vars PROVE IInv'
    OBVIOUS
  <2>1. TypeOK'
    BY TypeStep DEF IInv
  <2>2. LocalsOK'
    BY <2>1, LocalsStep DEF IInv
  <2>3. TrailBehind' /\ AuditTrailOrdered'
    BY <2>1, TrailStep
  <2> QED
    BY <2>1, <2>2, <2>3 DEF IInv
<1> QED
  BY <1>1, <1>2, PTL DEF Spec

\* Every variable of the scheduler, the target, the control registry and the
\* plugin's pipe keeps its type.
THEOREM TypeCorrect == Spec => []TypeOK
BY Inductive, PTL DEF IInv

\* The audit stream is in the order of the machine's revisions: the landed
\* mutations of executeMutation never overlap and never go back.
THEOREM TrailOrdered == Spec => []AuditTrailOrdered
BY Inductive, PTL DEF IInv

-----------------------------------------------------------------------------
(* The refinement of RevisionHistory, action by action.                     *)

Neutral(t) ==
  /\ UNCHANGED <<gen, unknown>>
  /\ pc[t] = "record" \/ pc'[t] = "record" => Same(t)

LEMMA NeutralSteps ==
  ASSUME TypeOK, NEW t \in Thread,
         StartRead(t) \/ StartMutation(t) \/ EnterScheduler(t) \/ CheckGeneration(t) \/
         CheckActive(t) \/ CheckValid(t) \/ Prepare(t) \/ ApplyLocally(t) \/ FailProvably(t) \/
         StatusUnavailable(t) \/ StatusUnsupported(t) \/ Send(t) \/ DialFails(t) \/
         Receive(t) \/ GiveUp(t) \/ Stamp(t) \/ ReadFails(t) \/ MeetExpired(t) \/
         RunHook(t) \/ AcquireTool(t) \/ RecordAcquired(t) \/ RenewTool(t) \/
         RecordRenewed(t) \/ ReleaseTool(t) \/ CloseContext(t) \/ ResumeLook(t)
  PROVE  Neutral(t)
<1>1. CASE StartRead(t)
  BY <1>1, Fields DEF StartRead, Idle, Goto, targetVars, Neutral, Same
<1>2. CASE StartMutation(t)
  BY <1>2, Fields DEF StartMutation, Idle, Goto, targetVars, Neutral, Same
<1>3. CASE EnterScheduler(t)
  BY <1>3, Fields DEF EnterScheduler, Goto, targetVars, Neutral, Same
<1>4. CASE CheckGeneration(t)
  BY <1>4, Fields DEF CheckGeneration, Leave, Finish, Goto, targetVars, Neutral, Same
<1>5. CASE CheckActive(t)
  BY <1>5, Fields DEF CheckActive, Goto, targetVars, Neutral, Same
<1>6. CASE CheckValid(t)
  BY <1>6, Fields DEF CheckValid, Leave, Finish, Goto, targetVars, Neutral, Same
<1>7. CASE Prepare(t)
  BY <1>7, Fields DEF Prepare, Goto, targetVars, Neutral, Same
<1>7a. CASE ApplyLocally(t)
  BY <1>7a, Fields DEF ApplyLocally, Goto, targetVars, Neutral, Same
<1>8. CASE FailProvably(t)
  BY <1>8, Fields DEF FailProvably, Leave, Finish, Goto, targetVars, Neutral, Same
<1>9. CASE StatusUnavailable(t)
  BY <1>9, Fields DEF StatusUnavailable, Goto, targetVars, Neutral, Same
<1>10. CASE StatusUnsupported(t)
  BY <1>10, Fields DEF StatusUnsupported, Goto, targetVars, Neutral, Same
<1>11. CASE Send(t)
  BY <1>11, Fields DEF Send, Goto, targetVars, Neutral, Same
<1>12. CASE DialFails(t)
  BY <1>12, Fields DEF DialFails, Goto, targetVars, Neutral, Same
<1>13. CASE Receive(t)
  BY <1>13, Fields DEF Receive, AwaitsReply, Goto, targetVars, Neutral, Same
<1>14. CASE GiveUp(t)
  BY <1>14, Fields DEF GiveUp, AwaitsReply, Goto, targetVars, Neutral, Same
<1>15. CASE Stamp(t)
  BY <1>15, Fields DEF Stamp, Finish, Goto, targetVars, Neutral, Same
<1>16. CASE ReadFails(t)
  BY <1>16, Fields DEF ReadFails, Finish, Goto, targetVars, Neutral, Same
<1>17. CASE MeetExpired(t)
  BY <1>17, Fields DEF MeetExpired, ToolFrame, Idle, DropExpired, Goto, targetVars,
     Neutral, Same
<1>18. CASE RunHook(t)
  BY <1>18, Fields DEF RunHook, ToolFrame, Hook, Goto, targetVars, Neutral, Same
<1>19. CASE AcquireTool(t)
  BY <1>19, Fields DEF AcquireTool, ToolFrame, Idle, Goto, targetVars, Neutral, Same
<1>20. CASE RecordAcquired(t)
  BY <1>20, Fields DEF RecordAcquired, Finish, ToolFrame, Goto, targetVars, Neutral,
     Same
<1>21. CASE RenewTool(t)
  BY <1>21, Fields DEF RenewTool, ToolFrame, Idle, Goto, targetVars, Neutral, Same
<1>22. CASE RecordRenewed(t)
  BY <1>22, Fields DEF RecordRenewed, Finish, ToolFrame, Goto, targetVars, Neutral, Same
<1>23. CASE ReleaseTool(t)
  BY <1>23, Fields DEF ReleaseTool, ToolFrame, Idle, Goto, targetVars, Neutral, Same
<1>24. CASE CloseContext(t)
  BY <1>24, Fields DEF CloseContext, ToolFrame, Idle, Goto, targetVars, Neutral, Same
<1>25. CASE ResumeLook(t)
  BY <1>25, Fields DEF ResumeLook, Finish, ToolFrame, Goto, targetVars, Neutral, Same
<1> QED
  BY <1>1, <1>2, <1>3, <1>4, <1>5, <1>6, <1>7, <1>7a, <1>8, <1>9, <1>10, <1>11, <1>12, <1>13,
     <1>14, <1>15, <1>16, <1>17, <1>18, <1>19, <1>20, <1>21, <1>22, <1>23, <1>24, <1>25

-----------------------------------------------------------------------------
(* The landed mutations: those on record, and the one whose entry is due.   *)

Pair(b, a) == [before |-> b, after |-> a]
Recorded == {Pair(audit[i].before, audit[i].after) : i \in LandedIndex}
Due == {Pair(job[t].current, job[t].after) : t \in {u \in Thread : pc[u] = "record"}}

LEMMA LandingsParts == Landings = Recorded \cup Due /\ Landings' = Recorded' \cup Due'
BY DEF Landings, Recorded, Due, Pair, LandedIndex

LEMMA SilentLandings ==
  ASSUME TypeOK, Silent,
         \A u \in Thread : pc[u] = "record" \/ pc'[u] = "record" => Same(u)
  PROVE  Landings' = Landings
<1>1. Recorded' = Recorded
  BY SilentTrail DEF Recorded
<1>2. Due' = Due
  BY DEF Due, Same
<1> QED
  BY <1>1, <1>2, LandingsParts

LEMMA StillLandings ==
  ASSUME Still PROVE Landings' = Landings
BY DEF Still, Landings

LEMMA RecordLandings ==
  ASSUME IInv, NEW t \in Thread, RecordLanded(t)
  PROVE  Landings' = Landings
<1> USE DEF IInv
<1>1. /\ Local(t) /\ ~Holding(t)' /\ Holding(t)
  BY LandedStep
<1>2. PICK e : /\ audit' = Append(audit, e)
               /\ Landed(e)
               /\ e.before = job[t].current /\ e.after = job[t].after
  BY LandedStep
<1>3. audit \in Seq(AuditType)
  BY DEF TypeOK
<1>4. Len(audit') = Len(audit) + 1 /\ Len(audit) \in Nat
  BY <1>2, <1>3
<1>5. audit'[Len(audit) + 1] = e /\ \A i \in 1..Len(audit) : audit'[i] = audit[i]
  BY <1>2, <1>3
<1>6. LandedIndex' = LandedIndex \cup {Len(audit) + 1}
  BY <1>2, <1>4, <1>5 DEF LandedIndex
<1>7. \A i \in LandedIndex : audit'[i] = audit[i]
  BY <1>5 DEF LandedIndex
<1>8. Recorded' = Recorded \cup {Pair(e.before, e.after)}
  BY <1>5, <1>6, <1>7 DEF Recorded
<1>9. \A u \in Thread : pc[u] = "record" <=> u = t
  BY <1>1 DEF LocalsOK, LocalOK, Holding, MutationStep, RecordLanded
<1>10. Due = {Pair(e.before, e.after)}
  BY <1>2, <1>9 DEF Due
<1>11. \A u \in Thread : pc'[u] # "record"
  BY <1>1, <1>9 DEF Local, Same, Holding, MutationStep
<1>12. Due' = {}
  BY <1>11 DEF Due
<1> QED
  BY <1>8, <1>10, <1>12, LandingsParts

-----------------------------------------------------------------------------
(* The steps that change the history.                                       *)

LEMMA AdvanceLands ==
  ASSUME IInv, IInv', NEW t \in Thread, Advance(t)
  PROVE  History!Land
<1> USE DEF IInv
<1>1. Quiet(t) /\ Holding(t) /\ LocalOK(t) /\ sched = t
  BY QuietSteps DEF Advance, Holding, MutationStep, LocalsOK, LocalOK
<1>2. job[t].current \in 1..gen
  BY <1>1 DEF LocalOK
<1>3. \A u \in Thread : pc[u] # "record"
  BY <1>1 DEF LocalsOK, LocalOK, Holding, MutationStep, Advance
<1>4. gen \in Nat /\ job \in [Thread -> JobType] /\ pc'[t] = "record"
      /\ gen' = gen + 1 /\ ~unknown'
  BY DEF TypeOK, Advance, Goto
<1>5. job'[t].current = job[t].current /\ job'[t].after = gen + 1
  BY <1>4 DEF Advance, JobType
<1>6. \A u \in Thread \ {t} : pc'[u] # "record"
  BY <1>1, <1>3 DEF Quiet, Local, Same
<1>7. Due = {} /\ Due' = {Pair(job[t].current, gen + 1)}
  BY <1>3, <1>4, <1>5, <1>6 DEF Due
<1>8. Recorded' = Recorded
  BY <1>1, SilentTrail DEF Quiet, Recorded
<1>9. Landings' = Landings \cup {Pair(job[t].current, gen + 1)} /\ Landings = Recorded
  BY <1>7, <1>8, LandingsParts
<1>10. \A l \in Landings : l.after <= job[t].current
  BY <1>1, <1>9 DEF Recorded, Pair, TrailBehind
<1>11. (~unknown') = TRUE
  BY <1>4
<1>12. /\ \E b \in 1..gen :
            /\ \A l \in Landings : l.after <= b
            /\ Landings' = Landings \cup {[before |-> b, after |-> gen + 1]}
       /\ gen' = gen + 1
  BY <1>2, <1>4, <1>9, <1>10 DEF Pair
<1> QED
  BY <1>11, <1>12 DEF History!Land

LEMMA ResynchronizeObserves ==
  ASSUME TypeOK, LocalsOK, NEW t \in Thread, Resynchronize(t)
  PROVE  History!Observe \/ UNCHANGED <<gen, ~unknown, Landings>>
<1>1. Quiet(t)
  BY QuietSteps
<1>2. \A u \in Thread : pc[u] = "record" \/ pc'[u] = "record" => Same(u)
  BY <1>1, Fields DEF Resynchronize, Goto, Quiet, Local
<1>3. Landings' = Landings
  BY <1>1, <1>2, SilentLandings DEF Quiet
<1>4. unknown \in BOOLEAN
  BY DEF TypeOK
<1>5. CASE unknown
  <2>1. gen' = gen + 1 /\ ~unknown'
    BY <1>5 DEF Resynchronize
  <2>2. (~unknown') = TRUE /\ ~~unknown
    BY <1>5, <2>1
  <2> QED
    BY <1>3, <2>1, <2>2 DEF History!Observe
<1>6. CASE ~unknown
  <2>1. gen' = gen /\ ~unknown'
    BY <1>6 DEF Resynchronize
  <2>2. (~unknown') = (~unknown)
    BY <1>6, <2>1
  <2> QED
    BY <1>3, <2>1, <2>2
<1> QED
  BY <1>5, <1>6

LEMMA AmbiguityLoses ==
  ASSUME TypeOK, LocalsOK, NEW t \in Thread, FailAmbiguous(t)
  PROVE  History!Lose
<1>1. Quiet(t)
  BY QuietSteps
<1>2. \A u \in Thread : pc[u] = "record" \/ pc'[u] = "record" => Same(u)
  BY <1>1, Fields DEF FailAmbiguous, Leave, Finish, Goto, Quiet, Local
<1>3. Landings' = Landings
  BY <1>1, <1>2, SilentLandings DEF Quiet
<1>4. gen' = gen /\ unknown'
  BY DEF FailAmbiguous
<1>5. (~unknown') = FALSE
  BY <1>4
<1> QED
  BY <1>3, <1>4, <1>5 DEF History!Lose

LEMMA HistoryStep ==
  ASSUME IInv, IInv', [Next]_vars
  PROVE  [History!Next]_<<gen, ~unknown, Landings>>
<1> USE DEF IInv
<1>1. CASE Execute \/ Disconnect \/ (\E i \in ControlId : TtlPasses(i)) \/ UNCHANGED vars
  <2>1. Landings' = Landings
    BY <1>1, StillSteps, StillLandings
  <2>2. UNCHANGED <<gen, unknown>>
    BY <1>1 DEF Execute, Disconnect, TtlPasses, ToolFrame, targetVars, vars
  <2> QED
    BY <2>1, <2>2
<1>2. ASSUME NEW t \in Thread, Mutation(t) \/ RunCommand(t) \/ Read(t) \/ LockTool(t)
      PROVE  [History!Next]_<<gen, ~unknown, Landings>>
  <2>1. CASE Advance(t)
    BY <2>1, AdvanceLands DEF History!Next
  <2>2. CASE FailAmbiguous(t)
    BY <2>2, AmbiguityLoses DEF History!Next
  <2>3. CASE Resynchronize(t)
    BY <2>3, ResynchronizeObserves DEF History!Next
  <2>4. CASE RecordLanded(t)
    <3>1. Landings' = Landings
      BY <2>4, RecordLandings
    <3>2. UNCHANGED <<gen, unknown>>
      BY <2>4 DEF RecordLanded, targetVars
    <3> QED
      BY <3>1, <3>2
  <2>5. ASSUME Neutral(t), Quiet(t) PROVE UNCHANGED <<gen, ~unknown, Landings>>
    <3>1. \A u \in Thread : pc[u] = "record" \/ pc'[u] = "record" => Same(u)
      BY <2>5 DEF Neutral, Quiet, Local
    <3>2. Landings' = Landings
      BY <2>5, <3>1, SilentLandings DEF Quiet
    <3> QED
      BY <2>5, <3>2 DEF Neutral
  <2> QED
    BY <1>2, <2>1, <2>2, <2>3, <2>4, <2>5, NeutralSteps, QuietSteps
       DEF Mutation, RunCommand, Read, LockTool
<1> QED
  BY <1>1, <1>2 DEF Next, NoMoreCalls

LEMMA HistoryInit == ASSUME Init PROVE History!Init
<1>1. Landings = {}
  BY DEF Init, Landings
<1>2. (~unknown) = TRUE
  BY DEF Init
<1> QED
  BY <1>1, <1>2 DEF Init, History!Init

\* Every behaviour of the scheduler, with its threads, failures and late
\* commands, is a line of revisions as RevisionHistory describes it: what
\* Target (target.go) and executeMutation (mutation.go) promise together.
THEOREM Refinement == Spec => ImplementsRevisionHistory
<1>1. Init => History!Init
  BY HistoryInit
<1>2. IInv /\ IInv' /\ [Next]_vars => [History!Next]_<<gen, ~unknown, Landings>>
  BY HistoryStep
<1> QED
  BY <1>1, <1>2, Inductive, PTL DEF Spec, ImplementsRevisionHistory, History!Spec

-----------------------------------------------------------------------------
(* The honesty of the audit stream.                                         *)

\* Steps at which a thread serves no numbered call, those at which the call's
\* command has provably not run, and those at which it has.
RestStep == {"idle", "acquire", "acquired", "renewed", "look"}
UnsentStep == {"want", "check", "active", "valid", "prepare", "status", "failed"}
DoneStep == {"advance", "record"}

Refused(e) == e.outcome \in {"failed", "conflict", "control_held"}
MutatedIndex == {k \in 1..Len(audit) : Mutated(audit[k])}

\* The number of a call is its identity, on record as in flight.
NumbersOK ==
  /\ \A t \in Thread : IF pc[t] \in RestStep THEN job[t].op = 0 ELSE job[t].op \in 1..calls
  /\ \A t, u \in Thread : job[t].op # 0 /\ job[t].op = job[u].op => t = u
  /\ effects \subseteq 1..calls
  /\ \A k \in MutatedIndex :
       audit[k].op \in 1..calls /\ \A t \in Thread : job[t].op # audit[k].op

\* The command in the pipe is that of the call waiting for it; or its client
\* has left, and then it is an ambiguous failure, about to be recorded or on
\* record.
Withdrawn == /\ pc[pipe.by] = "ambiguous"
             /\ job[pipe.by].op = pipe.op /\ job[pipe.by].kind = "mutation"
             /\ job[pipe.by].control = pipe.control
Abandoned == \E k \in MutatedIndex : audit[k].outcome = "ambiguous" /\ audit[k].op = pipe.op

PipeOK ==
  /\ \A t \in Thread : pc[t] = "await" => pipe # None /\ pipe.by = t /\ ~pipe.left
  /\ pipe # None =>
       /\ pipe.op \in 1..calls
       /\ ~pipe.left => /\ pc[pipe.by] = "await"
                        /\ job[pipe.by].op = pipe.op /\ job[pipe.by].kind = pipe.kind
                        /\ job[pipe.by].control = pipe.control
       /\ pipe.left /\ pipe.kind = "mutation" => Withdrawn \/ Abandoned
       /\ IF pipe.kind = "mutation" /\ pipe.result \in {"ok", "partial"}
          THEN pipe.op \in effects /\ pipe.seen = machine
          ELSE pipe.op \notin effects

\* What a call has done to the machine, at each of its steps.
EffectsOK ==
  \A t \in Thread :
    /\ pc[t] \in UnsentStep => /\ job[t].op \notin effects
                               /\ pipe # None => pipe.op # job[t].op
    /\ pc[t] \in DoneStep => job[t].op \in effects
    /\ pc[t] \in {"resync", "stamp"} => job[t].kind = "read"
    /\ job[t].kind = "read" => job[t].op \notin effects

\* A refused mutation will not run later either.
RefusalsFinal ==
  \A k \in MutatedIndex :
    Refused(audit[k]) /\ pipe # None => pipe.op # audit[k].op

\* AuditHonest, said of the entries of mutations alone.
EntriesHonest ==
  \A k \in MutatedIndex : /\ Landed(audit[k]) => audit[k].op \in effects
                          /\ Refused(audit[k]) => audit[k].op \notin effects
EffectsKnown ==
  \A op \in effects :
    \/ \E t \in Thread : job[t].op = op /\ sched = t
    \/ \E k \in MutatedIndex : /\ audit[k].outcome \in {"ok", "partial", "ambiguous"}
                               /\ audit[k].op = op

AuditInv == NumbersOK /\ PipeOK /\ EffectsOK /\ RefusalsFinal /\ EntriesHonest /\ EffectsKnown

-----------------------------------------------------------------------------
(* Generations.                                                             *)

LandedAt(g) == {i \in LandedIndex : audit[i].after = g}
DueAt(g) == {t \in Thread : pc[t] = "record" /\ job[t].after = g}

OpenedOnce(g) ==
  \/ (\E i \in LandedAt(g) : LandedAt(g) = {i}) /\ DueAt(g) = {} /\ g \notin resyncs
  \/ LandedAt(g) = {} /\ (\E t \in DueAt(g) : DueAt(g) = {t}) /\ g \notin resyncs
  \/ LandedAt(g) = {} /\ DueAt(g) = {} /\ g \in resyncs

GenerationInv == resyncs \subseteq 2..gen /\ \A g \in 2..gen : OpenedOnce(g)

-----------------------------------------------------------------------------
(* The lock.                                                                *)

EndedAt(i) == {k \in 1..Len(audit) : ~Mutated(audit[k]) /\ audit[k].event = "lock_ended"
                                                       /\ audit[k].control = i}
EndingAt(i) == {t \in Thread : drop[t].phase = "hook" /\ drop[t].id = i}

ReportedOnce(i) ==
  IF window[i] = "ended"
  THEN \/ (\E k \in EndedAt(i) : EndedAt(i) = {k}) /\ EndingAt(i) = {}
       \/ EndedAt(i) = {} /\ (\E t \in EndingAt(i) : EndingAt(i) = {t})
  ELSE EndedAt(i) = {} /\ EndingAt(i) = {}

LockInv ==
  /\ lock # None => window[lock] \in {"open", "expired"}
  /\ \A i \in ControlId : ReportedOnce(i)

\* Where a thread may be suspended in the drop hook or just behind it.
DropStep == {"idle", "active", "valid", "status", "failed", "acquire", "look"}

Presented(i) == i \in landed \/ (pipe # None /\ pipe.kind = "mutation" /\ pipe.control = i)

SuspendedOK == \A t \in Thread : drop[t] # NoDrop => pc[t] \in DropStep

\* An id in anybody's hands has been issued.
Issued == {i \in ControlId : window[i] # "unissued"}
IssuedOK ==
  /\ \A t \in Thread : mine[t] \subseteq Issued /\ job[t].control \in Issued \cup {None}
  /\ \A i \in ControlId : Presented(i) => i \in Issued

\* Once a command under the installed lock was sent, everything behind the
\* check presents it too.
BehindCheck(t) ==
  /\ Holding(t) /\ pc[t] \in {"active", "valid"} => drop[t] = NoDrop
  /\ Holding(t) /\ pc[t] \in {"prepare", "status"} => job[t].control = lock
WindowHeld ==
  lock # None /\ window[lock] = "open" /\ Presented(lock) =>
    /\ \A t \in Thread : BehindCheck(t)
    /\ pipe # None /\ pipe.kind = "mutation" /\ pipe.result = "pending" => pipe.control = lock

ControlInv == SuspendedOK /\ IssuedOK /\ WindowHeld

-----------------------------------------------------------------------------
(* The generation guard.                                                    *)

\* A native command of t has changed the machine and t has not told yet.
Untold(t) ==
  /\ job[t].kind = "mutation"
  /\ \/ pc[t] = "await" /\ pipe.result \in {"ok", "partial"}
     \/ pc[t] \in {"ambiguous", "advance"}

\* A mutation command that outlived its call.
Orphan == pipe # None /\ pipe.left /\ pipe.kind = "mutation" /\ ~Withdrawn

OnCurrent(t) == basis[t].by = "mutation" /\ basis[t].gen = gen

\* What a landed native command saw is the machine, until its call returns.
SeenOK ==
  \A t \in Thread : pc[t] \in DoneStep /\ job[t].kind = "mutation" =>
    job[t].seen = machine /\ ~Orphan

\* A trusted generation a mutation returned still describes the machine, or the
\* call that changed it is about to say so.
MachineKnown ==
  \A t \in Thread :
    /\ basis[t].gen <= gen
    /\ OnCurrent(t) /\ ~unknown => /\ ~Orphan
                                   /\ machine = basis[t].seen \/ \E u \in Thread : Untold(u)

GuardedStep == {"active", "valid", "prepare", "status", "await"}

\* A guard that was checked still holds, but for the raced call.
GuardKept ==
  \A t \in Thread :
    /\ pc[t] \notin RestStep /\ job[t].kind = "mutation" =>
         job[t].expected \in {NoGeneration, basis[t].gen}
    /\ pc[t] = "check" => job[t].raced \/ job[t].current = gen
    /\ pc[t] \in GuardedStep /\ job[t].kind = "mutation" /\ job[t].expected # NoGeneration =>
         job[t].raced \/ (~unknown /\ job[t].expected = gen)

GuardInv == SeenOK /\ MachineKnown /\ GuardKept

-----------------------------------------------------------------------------
(* The audit stream: steps that change what no call has done.               *)

\* The stream is left alone or told of the lock.
NoEntry == audit' = audit \/ \E e : ~Mutated(e) /\ audit' = Append(audit, e)

\* t goes on with its call, or with a call that has no number.
Proceeds(t) ==
  /\ UNCHANGED <<effects, pipe, machine>>
  /\ calls' \in Nat /\ calls <= calls'
  /\ NoEntry
  /\ \A u \in Thread :
       /\ job'[u].op = job[u].op
       /\ pc[u] \notin RestStep => job'[u].kind = job[u].kind
       /\ pc[u] \in {"await", "ambiguous"} => job'[u].control = job[u].control
       /\ u # t => pc'[u] = pc[u]
       /\ sched = u => sched' = u
  /\ \/ pc'[t] = pc[t]
     \/ /\ pc[t] \notin {"await", "ambiguous"} /\ pc'[t] # "await"
        /\ (pc[t] \in RestStep) <=> (pc'[t] \in RestStep)
        /\ pc'[t] \in UnsentStep => pc[t] \in UnsentStep
        /\ pc'[t] \in DoneStep => pc[t] \in DoneStep
        /\ pc'[t] \in {"resync", "stamp"} => pc[t] \in {"resync", "stamp"}

LEMMA ProceedingSteps ==
  ASSUME IInv, AuditInv, NEW t \in Thread,
         EnterScheduler(t) \/ CheckActive(t) \/ Prepare(t) \/ Advance(t) \/
         StatusUnavailable(t) \/ StatusUnsupported(t) \/ DialFails(t) \/
         Resynchronize(t) \/ MeetExpired(t) \/ RunHook(t) \/ AcquireTool(t) \/
         RecordAcquired(t) \/ RenewTool(t) \/ RecordRenewed(t) \/
         ReleaseTool(t) \/ CloseContext(t) \/ ResumeLook(t)
  PROVE  Proceeds(t)
<1>1. /\ calls \in Nat /\ calls + 1 \in Nat /\ calls <= calls + 1
      /\ DOMAIN pc = Thread /\ job \in [Thread -> JobType] /\ None \notin Thread
  BY NoneAssumption DEF IInv, TypeOK
<1>2. pc[t] \in RestStep => job[t].op = 0 /\ NoJob.op = 0
  BY <1>1 DEF AuditInv, NumbersOK, NoJob, Call
<1> USE <1>1, <1>2 DEF Proceeds, NoEntry, RestStep, UnsentStep, DoneStep, Goto,
                 targetVars, clientVars, historyVars
<1>3. CASE EnterScheduler(t)
  BY <1>3 DEF EnterScheduler
<1>4. CASE CheckActive(t)
  BY <1>4 DEF CheckActive, Look
<1>5. CASE Prepare(t)
  BY <1>5 DEF Prepare
<1>6. CASE Advance(t)
  BY <1>6 DEF Advance
<1>7. CASE StatusUnavailable(t)
  BY <1>7 DEF StatusUnavailable
<1>8. CASE StatusUnsupported(t)
  BY <1>8 DEF StatusUnsupported
<1>9. CASE DialFails(t)
  BY <1>9 DEF DialFails
<1>10. CASE Resynchronize(t)
  BY <1>10 DEF Resynchronize
<1>11. CASE MeetExpired(t)
  BY <1>11 DEF MeetExpired, DropExpired, ToolFrame, Idle
<1>12. CASE RunHook(t)
  BY <1>12 DEF RunHook, Hook, ToolFrame, Mutated
<1>13. CASE AcquireTool(t)
  BY <1>13 DEF AcquireTool, ToolFrame, Idle, JobType
<1>14. CASE RecordAcquired(t)
  BY <1>14 DEF RecordAcquired, Finish, ToolFrame, Mutated, LockEntry
<1>15. CASE RenewTool(t)
  BY <1>15 DEF RenewTool, ToolFrame, Idle
<1>16. CASE RecordRenewed(t)
  BY <1>16 DEF RecordRenewed, Finish, ToolFrame, Mutated, LockEntry
<1>17. CASE ReleaseTool(t)
  BY <1>17 DEF ReleaseTool, ToolFrame
<1>18. CASE CloseContext(t)
  BY <1>18 DEF CloseContext, ToolFrame
<1>19. CASE ResumeLook(t)
  BY <1>19 DEF ResumeLook, Finish, ToolFrame
<1> QED
  BY <1>3, <1>4, <1>5, <1>6, <1>7, <1>8, <1>9, <1>10, <1>11, <1>12, <1>13, <1>14, <1>15, <1>16, <1>17, <1>18, <1>19

-----------------------------------------------------------------------------
(* The audit stream: the invariant is kept.                                 *)

LEMMA NoEntryKeeps ==
  ASSUME TypeOK, NoEntry
  PROVE  MutatedIndex' = MutatedIndex /\ \A k \in MutatedIndex : audit'[k] = audit[k]
<1>1. CASE audit' = audit
  BY <1>1 DEF MutatedIndex
<1>2. ASSUME NEW e, ~Mutated(e), audit' = Append(audit, e)
      PROVE  MutatedIndex' = MutatedIndex /\ \A k \in MutatedIndex : audit'[k] = audit[k]
  <2>1. Len(audit') = Len(audit) + 1 /\ Len(audit) \in Nat
    BY <1>2 DEF TypeOK
  <2>2. audit'[Len(audit) + 1] = e /\ \A k \in 1..Len(audit) : audit'[k] = audit[k]
    BY <1>2 DEF TypeOK
  <2> QED
    BY <1>2, <2>1, <2>2 DEF MutatedIndex
<1> QED
  BY <1>1, <1>2 DEF NoEntry

LEMMA EntryAdded ==
  ASSUME TypeOK, NEW e, Mutated(e), audit' = Append(audit, e)
  PROVE  /\ MutatedIndex' = MutatedIndex \cup {Len(audit) + 1}
         /\ audit'[Len(audit) + 1] = e
         /\ \A k \in MutatedIndex : audit'[k] = audit[k]
<1>1. Len(audit') = Len(audit) + 1 /\ Len(audit) \in Nat
  BY DEF TypeOK
<1>2. audit'[Len(audit) + 1] = e /\ \A k \in 1..Len(audit) : audit'[k] = audit[k]
  BY DEF TypeOK
<1> QED
  BY <1>1, <1>2 DEF MutatedIndex

LEMMA ProceedsKeeps ==
  ASSUME IInv, AuditInv, NEW t \in Thread, Proceeds(t)
  PROVE  AuditInv'
<1> USE DEF AuditInv
<1>0. /\ MutatedIndex' = MutatedIndex /\ \A k \in MutatedIndex : audit'[k] = audit[k]
      /\ pipe # None => pipe.by \in Thread
  BY NoEntryKeeps DEF IInv, Proceeds, TypeOK, PipeType
<1>1. NumbersOK'
  <2>1. \A n \in 1..calls : n \in 1..calls'
    BY DEF Proceeds, IInv, TypeOK
  <2>2. \A u \in Thread : (pc[u] \in RestStep) <=> (pc'[u] \in RestStep)
    BY DEF Proceeds
  <2>3. \A u \in Thread : job'[u].op = job[u].op
    BY DEF Proceeds
  <2>4. \A u \in Thread : IF pc'[u] \in RestStep THEN job'[u].op = 0 ELSE job'[u].op \in 1..calls'
    BY <2>1, <2>2, <2>3 DEF NumbersOK
  <2> QED
    BY <1>0, <2>1, <2>3, <2>4 DEF NumbersOK, Proceeds
<1>2. PipeOK'
  <2>1. \A u \in Thread : pc'[u] = "await" => pc[u] = "await"
    BY DEF Proceeds
  <2>2. \A u \in Thread : pc[u] \in {"await", "ambiguous"} =>
          pc'[u] = pc[u] /\ job'[u].kind = job[u].kind /\ job'[u].control = job[u].control
    BY DEF Proceeds, RestStep
  <2> QED
    BY <1>0, <2>1, <2>2 DEF PipeOK, Withdrawn, Abandoned, Proceeds, IInv, TypeOK
<1>3. EffectsOK'
  BY DEF EffectsOK, NumbersOK, Proceeds, RestStep, UnsentStep, DoneStep
<1>4. RefusalsFinal'
  BY <1>0 DEF RefusalsFinal, Proceeds
<1>5. EntriesHonest' /\ EffectsKnown'
  BY <1>0 DEF EntriesHonest, EffectsKnown, Proceeds
<1> QED
  BY <1>1, <1>2, <1>3, <1>4, <1>5

\* A call starts under a number of its own.
LEMMA BeginKeeps ==
  ASSUME IInv, AuditInv, NEW t \in Thread, StartRead(t) \/ StartMutation(t)
  PROVE  AuditInv'
<1> USE DEF AuditInv
<1>1. /\ calls \in Nat /\ calls' = calls + 1
      /\ UNCHANGED <<effects, pipe, machine, audit, sched>>
      /\ \A u \in Thread \ {t} : pc'[u] = pc[u] /\ job'[u] = job[u]
      /\ pc[t] \in RestStep /\ pc'[t] \in {"want", "status"}
      /\ job'[t].op = calls + 1
  BY DEF StartRead, StartMutation, Goto, Idle, RestStep, Call, IInv, TypeOK,
         historyVars, registryVars, targetVars
<1>2. /\ MutatedIndex' = MutatedIndex
      /\ \A n \in 1..calls : n \in 1..calls' /\ n # calls + 1
      /\ calls + 1 # 0 /\ calls + 1 \in 1..calls'
  BY <1>1 DEF MutatedIndex
<1>3. pipe # None => pipe.by \in Thread
  BY DEF IInv, TypeOK, PipeType
<1>4. NumbersOK'
  <2>1. \A u \in Thread : IF pc'[u] \in RestStep THEN job'[u].op = 0 ELSE job'[u].op \in 1..calls'
    BY <1>1, <1>2 DEF NumbersOK, RestStep
  <2>2. \A u, v \in Thread : job'[u].op # 0 /\ job'[u].op = job'[v].op => u = v
    <3>1. \A u \in Thread \ {t} : job'[u].op = job[u].op /\ job[u].op # calls + 1
      BY <1>1, <1>2 DEF NumbersOK
    <3> QED
      BY <1>1, <3>1 DEF NumbersOK
  <2> QED
    BY <1>1, <1>2, <2>1, <2>2 DEF NumbersOK
<1>5. PipeOK'
  BY <1>1, <1>2, <1>3 DEF PipeOK, Withdrawn, Abandoned, RestStep
<1>6. EffectsOK'
  BY <1>1, <1>2 DEF EffectsOK, NumbersOK, PipeOK, UnsentStep, DoneStep
<1>7. RefusalsFinal' /\ EntriesHonest'
  BY <1>1, <1>2 DEF RefusalsFinal, EntriesHonest
<1>8. EffectsKnown'
  <2>1. \A op \in effects : op # job[t].op
    BY <1>1 DEF NumbersOK
  <2> QED
    BY <1>1, <1>2, <2>1 DEF EffectsKnown
<1> QED
  BY <1>4, <1>5, <1>6, <1>7, <1>8

\* A mutation ends with an entry that says what became of it.
Closes(t, e) ==
  /\ Leave(t, e) /\ Mutated(e) /\ e.op = job[t].op /\ Holding(t)
  /\ UNCHANGED <<effects, pipe, machine, calls>>
  /\ \/ pc[t] \in UnsentStep /\ Refused(e)
     \/ pc[t] = "ambiguous" /\ e.outcome = "ambiguous"
     \/ pc[t] = "record" /\ Landed(e)

LEMMA ClosingSteps ==
  ASSUME IInv, NEW t \in Thread,
         \/ CheckGeneration(t) /\ Refuses(t)
         \/ CheckValid(t) /\ ~Valid(t, job[t].control)
         \/ FailAmbiguous(t) \/ FailProvably(t) \/ RecordLanded(t)
  PROVE  \E e : Closes(t, e)
<1> USE DEF Closes, Entry, Mutated, Refused, Landed, Holding, MutationStep, SharedStep, UnsentStep,
            clientVars, historyVars
<1>1. CASE CheckGeneration(t) /\ Refuses(t)
  BY <1>1 DEF CheckGeneration
<1>2. CASE CheckValid(t) /\ ~Valid(t, job[t].control)
  BY <1>2 DEF CheckValid
<1>3. CASE FailAmbiguous(t)
  BY <1>3 DEF FailAmbiguous
<1>4. CASE FailProvably(t)
  BY <1>4 DEF FailProvably
<1>5. CASE RecordLanded(t)
  BY <1>5 DEF RecordLanded, IInv, LocalsOK, LocalOK
<1> QED
  BY <1>1, <1>2, <1>3, <1>4, <1>5

LEMMA CloseKeeps ==
  ASSUME IInv, AuditInv, NEW t \in Thread, NEW e, Closes(t, e)
  PROVE  AuditInv'
<1> USE DEF AuditInv
<1>1. /\ UNCHANGED <<effects, pipe, machine, calls>>
      /\ \A u \in Thread \ {t} : pc'[u] = pc[u] /\ job'[u] = job[u]
      /\ pc[t] \notin RestStep /\ pc'[t] = "idle" /\ job'[t] = NoJob
      /\ NoJob.op = 0 /\ NoJob.kind = "none"
      /\ sched = t
  BY DEF Closes, Leave, Finish, Goto, RestStep, NoJob, Call, Holding, MutationStep, SharedStep,
         IInv, TypeOK, LocalsOK, LocalOK
<1>2. /\ MutatedIndex' = MutatedIndex \cup {Len(audit) + 1}
      /\ audit'[Len(audit) + 1] = e
      /\ \A k \in MutatedIndex : audit'[k] = audit[k]
  BY EntryAdded DEF Closes, Leave, IInv
<1>3. /\ calls \in Nat /\ sched \in Thread
      /\ pipe # None => pipe.by \in Thread
  BY <1>1 DEF IInv, TypeOK, PipeType
<1>4. e.op = job[t].op /\ e.op \in 1..calls /\ e.op # 0
  BY <1>1, <1>3 DEF Closes, NumbersOK
<1>5. NumbersOK'
  <2>1. \A u \in Thread : job'[u].op # e.op
    BY <1>1, <1>4 DEF NumbersOK
  <2>2. \A k \in MutatedIndex, u \in Thread : job'[u].op # audit[k].op
    BY <1>1, <1>3 DEF NumbersOK
  <2>3. \A u \in Thread : IF pc'[u] \in RestStep THEN job'[u].op = 0 ELSE job'[u].op \in 1..calls'
    BY <1>1 DEF NumbersOK, RestStep
  <2>4. \A u, v \in Thread : job'[u].op # 0 /\ job'[u].op = job'[v].op => u = v
    BY <1>1 DEF NumbersOK
  <2> QED
    BY <1>1, <1>2, <1>4, <2>1, <2>2, <2>3, <2>4 DEF NumbersOK
<1>6. PipeOK'
  <2>1. pc[t] # "await"
    BY DEF Closes, UnsentStep
  <2>2. pipe # None /\ pipe.left /\ pipe.kind = "mutation" => Withdrawn' \/ Abandoned'
    <3>1. CASE pipe # None /\ Abandoned
      BY <1>1, <1>2, <3>1 DEF Abandoned
    <3>2. CASE pipe # None /\ Withdrawn /\ pipe.by # t
      BY <1>1, <1>3, <3>2 DEF Withdrawn
    <3>3. CASE pipe # None /\ Withdrawn /\ pipe.by = t
      BY <1>1, <1>2, <1>4, <3>3 DEF Closes, Withdrawn, Abandoned, UnsentStep
    <3> QED
      BY <3>1, <3>2, <3>3 DEF PipeOK
  <2> QED
    BY <1>1, <1>3, <2>1, <2>2 DEF PipeOK
<1>7. EffectsOK'
  BY <1>1 DEF EffectsOK, UnsentStep, DoneStep
<1>8. RefusalsFinal'
  BY <1>1, <1>2, <1>4 DEF RefusalsFinal, Closes, EffectsOK, Refused, Landed
<1>9. EntriesHonest'
  BY <1>1, <1>2, <1>4 DEF EntriesHonest, Closes, EffectsOK, Refused, Landed, DoneStep
<1>10. EffectsKnown'
  <2>1. e.op \in effects => e.outcome \in {"ok", "partial", "ambiguous"}
    BY <1>4 DEF Closes, EffectsOK, Landed
  <2>2. \A op \in effects : op = e.op \/ \E k \in MutatedIndex :
          audit[k].outcome \in {"ok", "partial", "ambiguous"} /\ audit[k].op = op
    BY <1>1, <1>3, <1>4 DEF EffectsKnown
  <2> QED
    BY <1>1, <1>2, <2>1, <2>2 DEF EffectsKnown
<1> QED
  BY <1>5, <1>6, <1>7, <1>8, <1>9, <1>10

\* A read ends, with its answer or without.
LEMMA ReturnKeeps ==
  ASSUME IInv, AuditInv, NEW t \in Thread, Stamp(t) \/ ReadFails(t)
  PROVE  AuditInv'
<1> USE DEF AuditInv
<1>1. /\ UNCHANGED <<effects, pipe, machine, calls, audit, sched>>
      /\ \A u \in Thread \ {t} : pc'[u] = pc[u] /\ job'[u] = job[u]
      /\ pc[t] \notin RestStep /\ pc[t] # "await" /\ pc'[t] = "idle" /\ job'[t] = NoJob
      /\ job[t].kind = "read" /\ NoJob.op = 0 /\ NoJob.kind = "none"
  BY DEF Stamp, ReadFails, Finish, Goto, RestStep, NoJob, Call, EffectsOK, IInv, TypeOK,
         clientVars, historyVars
<1>2. MutatedIndex' = MutatedIndex /\ (pipe # None => pipe.by \in Thread)
  BY <1>1 DEF MutatedIndex, IInv, TypeOK, PipeType
<1>3. NumbersOK'
  <2>1. \A u \in Thread : IF pc'[u] \in RestStep THEN job'[u].op = 0 ELSE job'[u].op \in 1..calls'
    BY <1>1 DEF NumbersOK, RestStep
  <2>2. \A u, v \in Thread : job'[u].op # 0 /\ job'[u].op = job'[v].op => u = v
    BY <1>1 DEF NumbersOK
  <2>3. \A k \in MutatedIndex, u \in Thread : job'[u].op # audit[k].op
    BY <1>1 DEF NumbersOK, IInv, TypeOK
  <2> QED
    BY <1>1, <1>2, <2>1, <2>2, <2>3 DEF NumbersOK
<1>4. PipeOK'
  BY <1>1, <1>2 DEF PipeOK, Withdrawn, Abandoned
<1>5. EffectsOK' /\ RefusalsFinal' /\ EntriesHonest'
  BY <1>1, <1>2 DEF EffectsOK, RefusalsFinal, EntriesHonest, UnsentStep, DoneStep
<1>6. EffectsKnown'
  BY <1>1, <1>2 DEF EffectsKnown, EffectsOK
<1> QED
  BY <1>3, <1>4, <1>5, <1>6

\* memory_freeze_remove and memory_freeze_clear take effect in prepare().
LEMMA LocalKeeps ==
  ASSUME IInv, AuditInv, NEW t \in Thread, ApplyLocally(t)
  PROVE  AuditInv'
<1> USE DEF AuditInv
<1>1. /\ UNCHANGED <<pipe, machine, calls, audit, sched>>
      /\ \A u \in Thread \ {t} : pc'[u] = pc[u] /\ job'[u] = job[u]
      /\ pc[t] = "prepare" /\ pc'[t] = "advance"
      /\ job'[t].op = job[t].op /\ job'[t].kind = "local"
      /\ effects' = effects \cup {job[t].op}
      /\ sched = t
  BY DEF ApplyLocally, Goto, clientVars, IInv, TypeOK, JobType, LocalsOK, LocalOK, Holding,
         MutationStep
<1>2. /\ MutatedIndex' = MutatedIndex /\ (pipe # None => pipe.by \in Thread)
      /\ job[t].op \in 1..calls /\ job[t].op # 0
  BY <1>1 DEF MutatedIndex, NumbersOK, RestStep, IInv, TypeOK, PipeType
<1>3. pipe # None => pipe.op # job[t].op
  BY <1>1 DEF EffectsOK, UnsentStep
<1>4. NumbersOK'
  <2>1. \A u \in Thread : IF pc'[u] \in RestStep THEN job'[u].op = 0 ELSE job'[u].op \in 1..calls'
    BY <1>1, <1>2 DEF NumbersOK, RestStep
  <2>2. \A u \in Thread : job'[u].op = job[u].op
    BY <1>1
  <2>3. effects' \subseteq 1..calls
    BY <1>1, <1>2 DEF NumbersOK
  <2> QED
    BY <1>1, <1>2, <2>1, <2>2, <2>3 DEF NumbersOK
<1>5. PipeOK'
  BY <1>1, <1>2, <1>3 DEF PipeOK, Withdrawn, Abandoned
<1>6. EffectsOK'
  <2>1. \A u \in Thread \ {t} : job[u].op # job[t].op
    BY <1>2 DEF NumbersOK
  <2>2. ASSUME NEW u \in Thread \ {t}
        PROVE  /\ pc'[u] \in UnsentStep => /\ job'[u].op \notin effects'
                                           /\ pipe' # None => pipe'.op # job'[u].op
               /\ pc'[u] \in DoneStep => job'[u].op \in effects'
               /\ pc'[u] \in {"resync", "stamp"} => job'[u].kind = "read"
               /\ job'[u].kind = "read" => job'[u].op \notin effects'
    BY <1>1, <2>1 DEF EffectsOK
  <2> QED
    BY <1>1, <2>2 DEF EffectsOK, UnsentStep, DoneStep
<1>7. RefusalsFinal' /\ EntriesHonest'
  BY <1>1, <1>2 DEF RefusalsFinal, EntriesHonest, NumbersOK
<1>8. EffectsKnown'
  BY <1>1, <1>2 DEF EffectsKnown
<1> QED
  BY <1>4, <1>5, <1>6, <1>7, <1>8

\* runCommand up to the end of the exchange: what moves is the pipe.
LEMMA ExchangeKeeps ==
  ASSUME IInv, AuditInv, NEW t \in Thread, Send(t) \/ Receive(t) \/ GiveUp(t)
  PROVE  AuditInv'
<1> USE DEF AuditInv
<1>1. /\ UNCHANGED <<effects, machine, calls, audit, sched>>
      /\ \A u \in Thread \ {t} : pc'[u] = pc[u] /\ job'[u] = job[u]
      /\ job'[t].op = job[t].op /\ job'[t].kind = job[t].kind /\ job'[t].control = job[t].control
      /\ pc[t] \notin RestStep /\ pc'[t] \notin RestStep /\ pc'[t] # "stamp"
  <2> USE DEF Goto, RestStep, clientVars, historyVars, IInv, TypeOK
  <2>1. CASE Send(t)
    BY <2>1 DEF Send
  <2>2. CASE Receive(t)
    BY <2>2, SMTT(40) DEF Receive, AwaitsReply, JobType
  <2>3. CASE GiveUp(t)
    BY <2>3 DEF GiveUp, AwaitsReply
  <2> QED
    BY <2>1, <2>2, <2>3
<1>2. /\ MutatedIndex' = MutatedIndex /\ (pipe # None => pipe.by \in Thread)
      /\ job[t].op \in 1..calls /\ job[t].op # 0
      /\ \A u \in Thread \ {t} : job[u].op # job[t].op
  <2>1. job[t].op \in 1..calls /\ job[t].op # 0
    BY <1>1 DEF NumbersOK, IInv, TypeOK
  <2> QED
    BY <1>1, <2>1 DEF MutatedIndex, NumbersOK, IInv, TypeOK, PipeType
<1>3. NumbersOK' /\ EntriesHonest' /\ EffectsKnown'
  <2>1. \A u \in Thread : job'[u].op = job[u].op /\ ((pc[u] \in RestStep) <=> (pc'[u] \in RestStep))
    BY <1>1
  <2> QED
    BY <1>1, <1>2, <2>1 DEF NumbersOK, EntriesHonest, EffectsKnown
<1>4. CASE Send(t)
  <2>1. /\ pc[t] = "status" /\ pc'[t] = "await" /\ pipe = None
        /\ pipe' = [by |-> t, op |-> job[t].op, kind |-> job[t].kind, control |-> job[t].control,
                    result |-> "pending", seen |-> 0, left |-> FALSE]
        /\ job' = job /\ None \notin Thread
    BY <1>4, NoneAssumption DEF Send, Goto, IInv, TypeOK
  <2>2. job[t].op \notin effects /\ pipe' # None
    <3>1. job[t].kind \in {"read", "mutation"}
      BY <2>1 DEF IInv, LocalsOK, LocalOK, SharedStep
    <3>2. pipe' \in PipeType
      BY <2>1, <3>1 DEF IInv, TypeOK, JobType, PipeType
    <3> QED
      BY <2>1, <3>2, ConnectionAssumption DEF EffectsOK, UnsentStep
  <2>3. PipeOK'
    BY <1>1, <1>2, <2>1, <2>2 DEF PipeOK
  <2>4. EffectsOK'
    BY <1>1, <1>2, <2>1, <2>2 DEF EffectsOK, UnsentStep, DoneStep
  <2>5. RefusalsFinal'
    BY <1>1, <1>2, <2>1 DEF RefusalsFinal, NumbersOK
  <2> QED
    BY <1>3, <2>3, <2>4, <2>5
<1>5. CASE Receive(t)
  <2>1. /\ pc[t] = "await" /\ pipe # None /\ pipe.by = t /\ ~pipe.left /\ pipe' = None
        /\ pipe.result # "pending"
        /\ pc'[t] \in {"failed", "advance", "ambiguous", "resync"}
        /\ pc'[t] \in {"failed"} => pipe.result = "error" \/ job[t].kind # "mutation"
        /\ pc'[t] = "advance" => job[t].kind = "mutation" /\ pipe.result \in {"ok", "partial"}
        /\ pc'[t] = "resync" => job[t].kind # "mutation"
    BY <1>5 DEF Receive, AwaitsReply, Goto, IInv, TypeOK
  <2>2. /\ pipe.op = job[t].op /\ pipe.kind = job[t].kind
        /\ IF job[t].kind = "mutation" /\ pipe.result \in {"ok", "partial"}
           THEN job[t].op \in effects ELSE job[t].op \notin effects
    BY <2>1 DEF PipeOK
  <2>3. PipeOK'
    BY <1>1, <1>2, <2>1 DEF PipeOK
  <2>4. job[t].kind \in {"read", "mutation"}
    BY <2>1 DEF IInv, LocalsOK, LocalOK, SharedStep
  <2>5. EffectsOK'
    BY <1>1, <2>1, <2>2, <2>4 DEF EffectsOK, UnsentStep, DoneStep
  <2>6. RefusalsFinal'
    BY <2>1 DEF RefusalsFinal
  <2> QED
    BY <1>3, <2>3, <2>5, <2>6
<1>6. CASE GiveUp(t)
  <2>1. /\ pc[t] = "await" /\ pipe # None /\ pipe.by = t /\ ~pipe.left
        /\ pc'[t] = "ambiguous" /\ job' = job
        /\ pipe \in PipeType /\ pipe' = [pipe EXCEPT !.left = TRUE]
    BY <1>6 DEF GiveUp, AwaitsReply, Goto, IInv, TypeOK
  <2>2. /\ pipe' # None /\ pipe'.left /\ pipe'.by = t /\ pipe'.op = pipe.op
        /\ pipe'.kind = pipe.kind /\ pipe'.control = pipe.control /\ pipe'.result = pipe.result
        /\ pipe'.seen = pipe.seen
    BY <2>1, ConnectionAssumption DEF PipeType
  <2>3. PipeOK'
    BY <1>1, <1>2, <2>1, <2>2 DEF PipeOK, Withdrawn
  <2>4. EffectsOK'
    BY <1>1, <1>2, <2>1, <2>2 DEF EffectsOK, UnsentStep, DoneStep
  <2>5. RefusalsFinal'
    BY <1>1, <1>2, <2>1, <2>2 DEF RefusalsFinal
  <2> QED
    BY <1>3, <2>3, <2>4, <2>5
<1> QED
  BY <1>4, <1>5, <1>6

\* The plugin runs the command in the pipe, or drops the connection.
LEMMA PluginKeeps ==
  ASSUME IInv, AuditInv, Execute \/ Disconnect
  PROVE  AuditInv'
<1> USE DEF AuditInv
<1>1. UNCHANGED <<calls, audit, sched, pc, job>> /\ MutatedIndex' = MutatedIndex
  BY DEF Execute, Disconnect, clientVars, MutatedIndex
<1>2. pipe # None /\ pipe \in PipeType /\ pipe.by \in Thread /\ machine \in Nat
  BY DEF Execute, Disconnect, IInv, TypeOK, PipeType
<1>3. CASE Disconnect
  <2>1. UNCHANGED <<effects, machine>> /\ pipe.left /\ pipe' = None
    BY <1>3 DEF Disconnect, historyVars
  <2>2. PipeOK'
    BY <1>1, <2>1 DEF PipeOK
  <2> QED
    BY <1>1, <2>1, <2>2 DEF NumbersOK, EffectsOK, RefusalsFinal, EntriesHonest, EffectsKnown
<1>4. CASE Execute
  <2>1. PICK r \in {"ok", "error", "partial"} :
          /\ r = "partial" => pipe.kind = "mutation"
          /\ pipe.result = "pending"
          /\ effects' = IF pipe.kind = "mutation" /\ r # "error"
                        THEN effects \cup {pipe.op} ELSE effects
          /\ machine' \in {machine, machine + 1}
          /\ pipe' = [pipe EXCEPT !.result = r, !.seen = machine']
    BY <1>4 DEF Execute
  <2>2. /\ pipe'.by = pipe.by /\ pipe'.op = pipe.op /\ pipe'.kind = pipe.kind
        /\ pipe'.control = pipe.control /\ pipe'.left = pipe.left
        /\ pipe'.result = r /\ pipe'.seen = machine' /\ pipe' # None
    <3>1. machine' \in Nat
      BY <1>2, <2>1
    <3>2. pipe' \in PipeType
      BY <1>2, <2>1, <3>1 DEF PipeType
    <3> QED
      BY <1>2, <2>1, <3>2, ConnectionAssumption DEF PipeType
  <2>3. pipe.op \in 1..calls /\ pipe.op \notin effects
    BY <1>2, <2>1 DEF PipeOK
  <2>4. NumbersOK'
    BY <1>1, <2>1, <2>3 DEF NumbersOK
  <2>5. PipeOK'
    <3>1. Withdrawn' = Withdrawn /\ Abandoned' = Abandoned
      BY <1>1, <2>2 DEF Withdrawn, Abandoned
    <3> QED
      BY <1>1, <1>2, <2>1, <2>2, <2>3, <3>1 DEF PipeOK
  <2>6. EffectsOK'
    <3>1. ASSUME NEW u \in Thread, job[u].op = pipe.op, pipe.kind = "mutation"
          PROVE  pc[u] \notin UnsentStep /\ job[u].kind # "read"
      <4>1. pc[u] \notin UnsentStep
        BY <1>2, <3>1 DEF EffectsOK
      <4>2. job[u].op # 0
        BY <2>3, <3>1 DEF IInv, TypeOK
      <4>3. CASE ~pipe.left \/ Withdrawn
        <5>1. \A v \in Thread : job[v].op = job[u].op => v = u
          BY <4>2 DEF NumbersOK
        <5>2. job[pipe.by].op = pipe.op /\ job[pipe.by].kind = "mutation"
          BY <1>2, <3>1, <4>3 DEF PipeOK, Withdrawn
        <5> QED
          BY <1>2, <3>1, <4>1, <5>1, <5>2
      <4>4. CASE Abandoned
        BY <3>1, <4>4 DEF Abandoned, NumbersOK
      <4> QED
        BY <1>2, <3>1, <4>1, <4>3, <4>4 DEF PipeOK
    <3> QED
      BY <1>1, <1>2, <2>1, <2>2, <3>1 DEF EffectsOK
  <2>7. RefusalsFinal' /\ EntriesHonest'
    BY <1>1, <1>2, <2>1, <2>2 DEF RefusalsFinal, EntriesHonest
  <2>8. EffectsKnown'
    <3>1. pipe.kind = "mutation" => \/ job[pipe.by].op = pipe.op /\ sched = pipe.by
                                    \/ Abandoned
      BY <1>2 DEF PipeOK, Withdrawn, IInv, LocalsOK, LocalOK, Holding, SharedStep
    <3> QED
      BY <1>1, <1>2, <2>1, <3>1 DEF EffectsKnown, Abandoned
  <2> QED
    BY <2>4, <2>5, <2>6, <2>7, <2>8
<1> QED
  BY <1>3, <1>4

\* A check that lets the call pass.
LEMMA PassingSteps ==
  ASSUME IInv, NEW t \in Thread,
         \/ CheckGeneration(t) /\ ~Refuses(t)
         \/ CheckValid(t) /\ Valid(t, job[t].control)
  PROVE  Proceeds(t)
<1>1. calls \in Nat /\ DOMAIN pc = Thread
  BY DEF IInv, TypeOK
<1> USE <1>1 DEF Proceeds, NoEntry, RestStep, UnsentStep, DoneStep, Goto, clientVars, historyVars
<1>2. CASE CheckGeneration(t) /\ ~Refuses(t)
  BY <1>2 DEF CheckGeneration
<1>3. CASE CheckValid(t) /\ Valid(t, job[t].control)
  BY <1>3 DEF CheckValid
<1> QED
  BY <1>2, <1>3

LEMMA AuditStep == ASSUME IInv, AuditInv, [Next]_vars PROVE AuditInv'
<1>1. ASSUME NEW t \in Thread, Mutation(t) PROVE AuditInv'
  <2>1. CASE StartMutation(t)
    BY <2>1, BeginKeeps
  <2>2. CASE ApplyLocally(t)
    BY <2>2, LocalKeeps
  <2>3. CASE EnterScheduler(t) \/ CheckActive(t) \/ Prepare(t) \/ Advance(t)
    BY <2>3, ProceedingSteps, ProceedsKeeps
  <2>4. CASE CheckGeneration(t) \/ CheckValid(t)
    BY <2>4, PassingSteps, ProceedsKeeps, ClosingSteps, CloseKeeps
  <2>5. CASE FailAmbiguous(t) \/ FailProvably(t) \/ RecordLanded(t)
    BY <2>5, ClosingSteps, CloseKeeps
  <2> QED
    BY <1>1, <2>1, <2>2, <2>3, <2>4, <2>5 DEF Mutation
<1>2. ASSUME NEW t \in Thread, RunCommand(t) PROVE AuditInv'
  <2>1. CASE Send(t) \/ Receive(t) \/ GiveUp(t)
    BY <2>1, ExchangeKeeps
  <2>2. CASE StatusUnavailable(t) \/ StatusUnsupported(t) \/ DialFails(t)
    BY <2>2, ProceedingSteps, ProceedsKeeps
  <2> QED
    BY <1>2, <2>1, <2>2 DEF RunCommand
<1>3. ASSUME NEW t \in Thread, Read(t) PROVE AuditInv'
  <2>1. CASE Resynchronize(t)
    BY <2>1, ProceedingSteps, ProceedsKeeps
  <2> QED
    BY <1>3, <2>1, BeginKeeps, ReturnKeeps DEF Read
<1>4. ASSUME NEW t \in Thread, LockTool(t) PROVE AuditInv'
  BY <1>4, ProceedingSteps, ProceedsKeeps DEF LockTool
<1>5. CASE Execute \/ Disconnect
  BY <1>5, PluginKeeps
<1>6. CASE (\E i \in ControlId : TtlPasses(i)) \/ UNCHANGED vars
  <2>1. UNCHANGED <<effects, pipe, machine, calls, audit, sched, pc, job>>
    BY <1>6 DEF TtlPasses, Expire, ToolFrame, historyVars, vars
  <2>2. MutatedIndex' = MutatedIndex /\ Withdrawn' = Withdrawn /\ Abandoned' = Abandoned
    BY <2>1 DEF MutatedIndex, Withdrawn, Abandoned
  <2> QED
    BY <2>1, <2>2 DEF AuditInv, NumbersOK, PipeOK, EffectsOK, RefusalsFinal, EntriesHonest,
                      EffectsKnown
<1> QED
  BY <1>1, <1>2, <1>3, <1>4, <1>5, <1>6 DEF Next, NoMoreCalls

LEMMA AuditInit == ASSUME Init PROVE AuditInv
<1>1. Len(audit) = 0 /\ MutatedIndex = {}
  BY DEF Init, MutatedIndex
<1>2. \A t \in Thread : pc[t] = "idle" /\ job[t].op = 0 /\ job[t].kind = "none"
  BY DEF Init, NoJob, Call
<1> QED
  BY <1>1, <1>2 DEF Init, AuditInv, NumbersOK, PipeOK, EffectsOK, RefusalsFinal, EntriesHonest,
     EffectsKnown, RestStep, UnsentStep, DoneStep

LEMMA AuditInductive == Spec => []AuditInv
<1>1. Init => AuditInv
  BY AuditInit
<1>2. IInv /\ AuditInv /\ [Next]_vars => AuditInv'
  BY AuditStep
<1> QED
  BY <1>1, <1>2, Inductive, PTL DEF Spec

\* The audit stream is honest about the machine: what executeMutation records
\* as ok or partial took effect, what it records as refused or failed never
\* does, and every effect is on record or its mutation still under way.
THEOREM AuditIsHonest == Spec => []AuditHonest
<1>1. AuditInv => AuditHonest
  <2> SUFFICES ASSUME AuditInv PROVE AuditHonest
    OBVIOUS
  <2>1. \A i \in 1..Len(audit) : Mutated(audit[i]) => i \in MutatedIndex
    BY DEF MutatedIndex
  <2>2. \A i \in 1..Len(audit) : Mutated(audit[i]) =>
          /\ audit[i].outcome \in {"ok", "partial"} => audit[i].op \in effects
          /\ audit[i].outcome \in {"failed", "conflict", "control_held"} => audit[i].op \notin effects
    BY <2>1 DEF AuditInv, EntriesHonest, Landed, Refused
  <2>3. \A op \in effects :
          \/ \E t \in Thread : job[t].op = op /\ sched = t
          \/ \E i \in 1..Len(audit) : /\ audit[i].outcome \in {"ok", "partial", "ambiguous"}
                                      /\ audit[i].op = op
    BY DEF AuditInv, EffectsKnown, MutatedIndex
  <2> QED
    BY <2>2, <2>3 DEF AuditHonest
<1> QED
  BY <1>1, AuditInductive, PTL

-----------------------------------------------------------------------------
(* The control lock: what a step does to the registry.                      *)

NoEnd == \/ audit' = audit
         \/ \E e : (Mutated(e) \/ e.event # "lock_ended") /\ audit' = Append(audit, e)

\* The registry is left alone, but for a method that returns after its hook.
Rests(t) ==
  /\ NoEnd /\ UNCHANGED <<lock, window>>
  /\ \/ drop' = drop
     \/ drop[t].phase # "hook" /\ drop' = [drop EXCEPT ![t] = NoDrop]

Installs(t) ==
  /\ NoEnd
  /\ drop[t].phase # "hook" /\ drop' = [drop EXCEPT ![t] = NoDrop]
  /\ \E i \in ControlId : /\ window[i] = "unissued" /\ window' = [window EXCEPT ![i] = "open"]
                          /\ lock' = i

Ends(t) ==
  /\ NoEnd
  /\ lock # None /\ drop[t].phase # "hook"
  /\ \E r \in DropReason : DropLocked(t, r)

LEMMA SettledStates ==
  \A t \in Thread : /\ Settled(t) => drop[t].phase # "hook"
                    /\ drop[t] = NoDrop => drop[t].phase # "hook"
                    /\ Found(t) \in ControlId => drop[t] # NoDrop \/ lock # None
                    /\ drop[t].phase = "relock" => Found(t) = None
BY NoneAssumption DEF Settled, NoDrop, Found

\* The methods, used by the calls below.
LEMMA Methods ==
  ASSUME NEW t \in Thread, NoEnd
  PROVE  /\ Look(t) => Rests(t)
         /\ \A i : Renew(t, i) => Rests(t)
         /\ \A i \in ControlId : Acquire(t, i) => Installs(t)
         /\ \A i \in ControlId, r \in DropReason : Release(t, i, r) => Ends(t)
         /\ \A r \in DropReason : DropIf(t, ControlId, r) => Rests(t) \/ Ends(t)
         /\ DropExpired(t) => Ends(t)
         /\ UNCHANGED registryVars => Rests(t)
<1> USE SettledStates, NoneAssumption DEF Rests, Installs, Ends, Return
<1>1. Look(t) => Rests(t)
  BY DEF Look
<1>2. \A i : Renew(t, i) => Rests(t)
  BY DEF Renew
<1>3. \A i \in ControlId : Acquire(t, i) => Installs(t)
  BY DEF Acquire
<1>4. \A i \in ControlId, r \in DropReason : Release(t, i, r) => Ends(t)
  BY DEF Release
<1>5. \A r \in DropReason : DropIf(t, ControlId, r) => Rests(t) \/ Ends(t)
  BY DEF DropIf, Found
<1>6. DropExpired(t) => Ends(t)
  <2>1. "ttl_expired" \in DropReason
    BY DEF DropReason
  <2> QED
    BY <2>1 DEF DropExpired, LockExpired
<1>7. UNCHANGED registryVars => Rests(t)
  BY DEF registryVars
<1> QED
  BY <1>1, <1>2, <1>3, <1>4, <1>5, <1>6, <1>7

LEMMA RegistryKinds ==
  ASSUME IInv, NEW t \in Thread, Mutation(t) \/ RunCommand(t) \/ Read(t) \/ LockTool(t)
  PROVE  Rests(t) \/ Installs(t) \/ Ends(t) \/ Hook(t)
<1> USE Methods DEF NoEnd, Mutated
<1>1. CASE StartMutation(t) \/ EnterScheduler(t) \/ Prepare(t) \/ ApplyLocally(t) \/ Advance(t)
  BY <1>1 DEF StartMutation, EnterScheduler, Prepare, ApplyLocally, Advance
<1>2. CASE FailAmbiguous(t) \/ FailProvably(t) \/ RecordLanded(t)
  <2>1. \A o, n, b, a : o # "lock_event" => Mutated(Entry(o, n, b, a))
    BY DEF Entry
  <2>2. UNCHANGED registryVars
    BY <1>2 DEF FailAmbiguous, FailProvably, RecordLanded
  <2>3. NoEnd
    <3>1. CASE FailAmbiguous(t)
      BY <2>1, <3>1 DEF FailAmbiguous, Leave
    <3>2. CASE FailProvably(t)
      BY <2>1, <3>2 DEF FailProvably, Leave
    <3>3. CASE RecordLanded(t)
      BY <2>1, <3>3 DEF RecordLanded, Leave, IInv, LocalsOK, LocalOK
    <3> QED
      BY <1>2, <3>1, <3>2, <3>3
  <2> QED
    BY <2>2, <2>3
<1>3. CASE CheckGeneration(t)
  BY <1>3 DEF CheckGeneration, Leave, Entry
<1>4. CASE CheckActive(t) \/ CheckValid(t)
  BY <1>4 DEF CheckActive, CheckValid, Leave, Entry
<1>5. CASE StatusUnavailable(t)
  <2>1. "bridge_unavailable" \in DropReason
    BY DEF DropReason
  <2> QED
    BY <1>5, <2>1 DEF StatusUnavailable
<1>6. CASE StatusUnsupported(t) \/ Send(t) \/ DialFails(t) \/ Receive(t) \/ GiveUp(t)
  BY <1>6 DEF StatusUnsupported, Send, DialFails, Receive, GiveUp
<1>7. CASE Read(t)
  BY <1>7 DEF Read, StartRead, Resynchronize, Stamp, ReadFails
<1>8. CASE MeetExpired(t)
  BY <1>8 DEF MeetExpired, DropExpired
<1>9. CASE RunHook(t)
  BY <1>9 DEF RunHook
<1>10. CASE AcquireTool(t) \/ RenewTool(t) \/ ResumeLook(t)
  BY <1>10 DEF AcquireTool, RenewTool, ResumeLook
<1>11. CASE RecordAcquired(t) \/ RecordRenewed(t)
  BY <1>11 DEF RecordAcquired, RecordRenewed, LockEntry
<1>12. CASE ReleaseTool(t) \/ CloseContext(t)
  <2>1. "caller_released" \in DropReason /\ "context_closed" \in DropReason
    BY DEF DropReason
  <2> QED
    BY <1>12, <2>1 DEF ReleaseTool, CloseContext, IInv, TypeOK
<1> QED
  BY <1>1, <1>2, <1>3, <1>4, <1>5, <1>6, <1>7, <1>8, <1>9, <1>10, <1>11, <1>12
     DEF Mutation, RunCommand, LockTool

-----------------------------------------------------------------------------
(* The control lock: an end is reported once.                               *)

LEMMA NoEndKeeps ==
  ASSUME TypeOK, NoEnd, NEW i
  PROVE  EndedAt(i)' = EndedAt(i)
<1>1. CASE audit' = audit
  BY <1>1 DEF EndedAt, Mutated
<1>2. ASSUME NEW e, Mutated(e) \/ e.event # "lock_ended", audit' = Append(audit, e)
      PROVE  EndedAt(i)' = EndedAt(i)
  <2>1. Len(audit') = Len(audit) + 1 /\ Len(audit) \in Nat
    BY <1>2 DEF TypeOK
  <2>2. audit'[Len(audit) + 1] = e /\ \A k \in 1..Len(audit) : audit'[k] = audit[k]
    BY <1>2 DEF TypeOK
  <2> QED
    BY <1>2, <2>1, <2>2 DEF EndedAt
<1> QED
  BY <1>1, <1>2 DEF NoEnd

\* What the registry's own variables owe to each other in a step of t.
LEMMA LockKeeps ==
  ASSUME TypeOK, LockInv, NEW t \in Thread, Rests(t) \/ Installs(t) \/ Ends(t) \/ Hook(t)
  PROVE  LockInv'
<1> USE NoneAssumption DEF LockInv
<1>1. /\ lock \in ControlId \cup {None} /\ window \in [ControlId -> Fate]
      /\ drop \in [Thread -> DropType] /\ NoDrop.phase = "none"
      /\ audit \in Seq(AuditType)
  BY DEF TypeOK, RegistryTypeOK, NoDrop
<1>2. CASE Rests(t)
  <2>1. \A i \in ControlId : EndedAt(i)' = EndedAt(i)
    BY <1>2, NoEndKeeps DEF Rests
  <2>2. \A i \in ControlId : EndingAt(i)' = EndingAt(i)
    BY <1>1, <1>2 DEF Rests, EndingAt
  <2> QED
    BY <1>2, <2>1, <2>2 DEF Rests, ReportedOnce
<1>3. CASE Installs(t)
  <2>1. \A i \in ControlId : EndedAt(i)' = EndedAt(i)
    BY <1>3, NoEndKeeps DEF Installs
  <2>2. \A i \in ControlId : EndingAt(i)' = EndingAt(i)
    BY <1>1, <1>3 DEF Installs, EndingAt
  <2>3. \A i \in ControlId : window'[i] = "ended" <=> window[i] = "ended"
    BY <1>1, <1>3 DEF Installs
  <2>4. \A i \in ControlId : ReportedOnce(i)'
    BY <2>1, <2>2, <2>3 DEF ReportedOnce
  <2>5. lock' # None => window'[lock'] \in {"open", "expired"}
    BY <1>1, <1>3 DEF Installs
  <2> QED
    BY <2>4, <2>5
<1>4. CASE Ends(t)
  <2>1. PICK r \in DropReason : DropLocked(t, r)
    BY <1>4 DEF Ends
  <2>2. lock \in ControlId /\ window[lock] # "ended" /\ drop[t].phase # "hook"
    BY <1>1, <1>4 DEF Ends
  <2>3. /\ window' = [window EXCEPT ![lock] = "ended"] /\ lock' = None
        /\ drop' = [drop EXCEPT ![t] = [phase |-> "hook", id |-> lock, reason |-> r]]
    BY <2>1 DEF DropLocked
  <2>4. \A i \in ControlId : EndedAt(i)' = EndedAt(i)
    BY <1>4, NoEndKeeps DEF Ends
  <2>5. \A i \in ControlId \ {lock} : EndingAt(i)' = EndingAt(i)
    BY <1>1, <2>2, <2>3 DEF EndingAt
  <2>6. EndedAt(lock) = {} /\ EndingAt(lock) = {}
    BY <2>2 DEF ReportedOnce
  <2>7. {u \in Thread : drop'[u].phase = "hook" /\ drop'[u].id = lock} = {t}
    BY <1>1, <2>2, <2>3, <2>6 DEF EndingAt
  <2>8. ASSUME NEW i \in ControlId PROVE ReportedOnce(i)'
    <3>1. CASE i = lock
      BY <1>1, <2>3, <2>4, <2>6, <2>7, <3>1 DEF ReportedOnce, EndingAt
    <3>2. CASE i # lock
      BY <1>1, <2>3, <2>4, <2>5, <3>2 DEF ReportedOnce
    <3> QED
      BY <3>1, <3>2
  <2> QED
    BY <2>3, <2>8
<1>5. CASE Hook(t)
  <2> DEFINE j == drop[t].id
             e == [outcome |-> "lock_event", event |-> "lock_ended",
                   control |-> drop[t].id, reason |-> drop[t].reason]
  <2>1. /\ audit' = Append(audit, e) /\ UNCHANGED <<lock, window>>
        /\ drop[t].phase = "hook" /\ j \in ControlId
        /\ ~Mutated(e) /\ e.event = "lock_ended" /\ e.control = j
        /\ drop'[t].phase # "hook" /\ \A u \in Thread \ {t} : drop'[u] = drop[u]
    <3>1. audit' = Append(audit, e) /\ UNCHANGED <<lock, window>> /\ drop[t].phase = "hook"
      BY <1>5 DEF Hook
    <3>2. j \in ControlId /\ [drop[t] EXCEPT !.phase = "relock"].phase = "relock"
      BY <1>1, <3>1, DropTypes DEF DropType, NoDrop
    <3>3. drop'[t].phase # "hook" /\ \A u \in Thread \ {t} : drop'[u] = drop[u]
      BY <1>1, <1>5, <3>2 DEF Hook
    <3> QED
      BY <3>1, <3>2, <3>3 DEF Mutated
  <2>2. Len(audit') = Len(audit) + 1 /\ Len(audit) \in Nat
    BY <1>1, <2>1
  <2>3. audit'[Len(audit) + 1] = e /\ \A k \in 1..Len(audit) : audit'[k] = audit[k]
    BY <1>1, <2>1
  <2> HIDE DEF e, j
  <2>4. \A i \in ControlId \ {j} : EndedAt(i)' = EndedAt(i) /\ EndingAt(i)' = EndingAt(i)
    BY <2>1, <2>2, <2>3 DEF EndedAt, EndingAt, j
  <2>5. t \in EndingAt(j)
    BY <2>1 DEF EndingAt, j
  <2>6. window[j] = "ended" /\ EndedAt(j) = {} /\ EndingAt(j) = {t}
    BY <2>1, <2>5 DEF ReportedOnce
  <2>7. {k \in 1..Len(audit') : ~Mutated(audit'[k]) /\ audit'[k].event = "lock_ended"
                                                   /\ audit'[k].control = j} = {Len(audit) + 1}
    BY <2>1, <2>2, <2>3, <2>6 DEF EndedAt
  <2>8. {u \in Thread : drop'[u].phase = "hook" /\ drop'[u].id = j} = {}
    BY <2>1, <2>6 DEF EndingAt
  <2>9. ASSUME NEW i \in ControlId PROVE ReportedOnce(i)'
    <3>1. CASE i = j
      BY <2>1, <2>2, <2>6, <2>7, <2>8, <3>1 DEF ReportedOnce, EndedAt, EndingAt
    <3>2. CASE i # j
      BY <2>1, <2>2, <2>4, <3>2 DEF ReportedOnce
    <3> QED
      BY <3>1, <3>2
  <2> QED
    BY <2>1, <2>9
<1> QED
  BY <1>2, <1>3, <1>4, <1>5

LEMMA LockStep == ASSUME IInv, LockInv, [Next]_vars PROVE LockInv'
<1>0. TypeOK
  BY DEF IInv
<1>1. ASSUME NEW t \in Thread, Mutation(t) \/ RunCommand(t) \/ Read(t) \/ LockTool(t)
      PROVE  LockInv'
  <2>1. Rests(t) \/ Installs(t) \/ Ends(t) \/ Hook(t)
    BY <1>1, RegistryKinds
  <2> QED
    BY <1>0, <2>1, LockKeeps
<1>2. CASE Execute \/ Disconnect \/ UNCHANGED vars
  <2>1. UNCHANGED <<lock, window, drop, audit>>
    BY <1>2 DEF Execute, Disconnect, vars, registryVars
  <2>2. \A i \in ControlId : EndedAt(i)' = EndedAt(i) /\ EndingAt(i)' = EndingAt(i)
    BY <2>1 DEF EndedAt, EndingAt
  <2> QED
    BY <2>1, <2>2 DEF LockInv, ReportedOnce
<1>3. ASSUME NEW i \in ControlId, TtlPasses(i) PROVE LockInv'
  <2>1. /\ UNCHANGED <<lock, drop, audit>> /\ window[i] = "open"
        /\ window' = [window EXCEPT ![i] = "expired"]
        /\ window \in [ControlId -> Fate]
    BY <1>0, <1>3 DEF TtlPasses, Expire, TypeOK, RegistryTypeOK
  <2>2. \A k \in ControlId : /\ EndedAt(k)' = EndedAt(k) /\ EndingAt(k)' = EndingAt(k)
                             /\ (window'[k] = "ended") <=> (window[k] = "ended")
    BY <2>1 DEF EndedAt, EndingAt
  <2>3. \A k \in ControlId : ReportedOnce(k)'
    BY <2>1, <2>2 DEF LockInv, ReportedOnce
  <2> QED
    BY <1>0, <2>1, <2>3 DEF LockInv, TypeOK, RegistryTypeOK
<1> QED
  BY <1>1, <1>2, <1>3 DEF Next, NoMoreCalls

LEMMA LockInductive == Spec => []LockInv
<1>1. Init => LockInv
  <2> SUFFICES ASSUME Init PROVE LockInv
    OBVIOUS
  <2>1. Len(audit) = 0 /\ \A t \in Thread : drop[t].phase = "none"
    BY DEF Init, RegistryInit, NoDrop
  <2> QED
    BY <2>1 DEF Init, RegistryInit, LockInv, ReportedOnce, EndedAt, EndingAt
<1>2. IInv /\ LockInv /\ [Next]_vars => LockInv'
  BY LockStep
<1> QED
  BY <1>1, <1>2, Inductive, PTL DEF Spec

\* dropLocked runs the drop hook once for every lock it ends (target.go): one
\* lock_ended entry, or one thread on its way to write it, and none for a lock
\* that has not ended.
THEOREM LockEndsAreReported == Spec => []LockEndReported
<1>1. LockInv => LockEndReported
  <2> SUFFICES ASSUME LockInv, NEW i \in ControlId
               PROVE  Cardinality(EndedAt(i)) + Cardinality(EndingAt(i))
                        = IF window[i] = "ended" THEN 1 ELSE 0
    BY DEF LockEndReported, EndedAt, EndingAt
  <2>1. Cardinality({}) = 0 /\ \A x : Cardinality({x}) = 1
    BY FS_EmptySet, FS_Singleton
  <2>2. ReportedOnce(i)
    BY DEF LockInv
  <2>3. CASE window[i] # "ended"
    BY <2>1, <2>2, <2>3 DEF ReportedOnce
  <2>4. CASE window[i] = "ended" /\ EndingAt(i) = {}
    <3>1. Cardinality(EndedAt(i)) = 1
      BY <2>1, <2>2, <2>4 DEF ReportedOnce
    <3> QED
      BY <2>1, <2>4, <3>1
  <2>5. CASE window[i] = "ended" /\ EndingAt(i) # {}
    <3>1. Cardinality(EndingAt(i)) = 1 /\ EndedAt(i) = {}
      BY <2>1, <2>2, <2>5 DEF ReportedOnce
    <3> QED
      BY <2>1, <2>5, <3>1
  <2> QED
    BY <2>3, <2>4, <2>5
<1> QED
  BY <1>1, LockInductive, PTL

-----------------------------------------------------------------------------
(* Generations: each is opened once.                                        *)

LEMMA SameAccounts ==
  ASSUME TypeOK, Silent,
         \A u \in Thread : pc[u] = "record" \/ pc'[u] = "record" => Same(u)
  PROVE  \A g : LandedAt(g)' = LandedAt(g) /\ DueAt(g)' = DueAt(g)
<1>1. \A g : LandedAt(g)' = LandedAt(g)
  BY SilentTrail DEF LandedAt
<1>2. \A g : DueAt(g)' = DueAt(g)
  BY DEF DueAt, Same
<1> QED
  BY <1>1, <1>2

LEMMA AccountsKept ==
  ASSUME GenerationInv, UNCHANGED <<gen, resyncs>>,
         \A g : LandedAt(g)' = LandedAt(g) /\ DueAt(g)' = DueAt(g)
  PROVE  GenerationInv'
BY DEF GenerationInv, OpenedOnce

\* Only Advance and ResynchronizeIfUnknown open a generation.
LEMMA NothingOpened ==
  ASSUME TypeOK, LocalsOK, GenerationInv, NEW t \in Thread, Neutral(t), Quiet(t), resyncs' = resyncs
  PROVE  GenerationInv'
<1>1. \A u \in Thread : pc[u] = "record" \/ pc'[u] = "record" => Same(u)
  BY DEF Neutral, Quiet, Local
<1>2. Silent /\ UNCHANGED <<gen, resyncs>>
  BY DEF Neutral, Quiet
<1> QED
  BY <1>1, <1>2, SameAccounts, AccountsKept

\* What is on record, due or resynchronised is of a generation opened before.
LEMMA NextUnopened ==
  ASSUME IInv, GenerationInv
  PROVE  /\ LandedAt(gen + 1) = {} /\ DueAt(gen + 1) = {} /\ gen + 1 \notin resyncs
         /\ gen \in Nat /\ gen >= 1
<1>1. gen \in Nat /\ gen >= 1
  BY DEF IInv, TypeOK
<1>2. \A i \in LandedIndex : audit[i].after # gen + 1
  <2> SUFFICES ASSUME NEW i \in LandedIndex PROVE audit[i].after # gen + 1
    OBVIOUS
  <2>1. audit[i].after \in Nat /\ audit[i].after <= gen
    BY EntryFields DEF IInv, TrailBehind
  <2> QED
    BY <1>1, <2>1
<1>3. \A t \in Thread : pc[t] = "record" => job[t].after # gen + 1
  <2> SUFFICES ASSUME NEW t \in Thread, pc[t] = "record" PROVE job[t].after # gen + 1
    OBVIOUS
  <2>1. job[t].after \in Nat /\ job[t].after <= gen
    BY Fields DEF IInv, LocalsOK, LocalOK
  <2> QED
    BY <1>1, <2>1
<1>4. gen + 1 \notin resyncs
  BY <1>1 DEF GenerationInv
<1> QED
  BY <1>1, <1>2, <1>3, <1>4 DEF LandedAt, DueAt

LEMMA AdvanceOpens ==
  ASSUME IInv, GenerationInv, NEW t \in Thread, Advance(t)
  PROVE  GenerationInv'
<1>1. Quiet(t) /\ TypeOK /\ job \in [Thread -> JobType] /\ DOMAIN pc = Thread
  BY QuietSteps, Fields DEF IInv
<1>2. /\ gen' = gen + 1 /\ resyncs' = resyncs /\ pc[t] = "advance" /\ pc'[t] = "record"
      /\ job'[t].after = gen + 1
      /\ \A u \in Thread \ {t} : Same(u)
  BY <1>1 DEF Advance, Goto, historyVars, Quiet, Local, JobType
<1>3. \A g : LandedAt(g)' = LandedAt(g)
  BY <1>1, SilentTrail DEF LandedAt, Quiet
<1>4. \A g : g # gen + 1 => DueAt(g)' = DueAt(g)
  BY <1>2 DEF DueAt, Same
<1>5. ASSUME NEW g, g = gen + 1 PROVE DueAt(g)' = {t}
  <2>1. \A u \in Thread \ {t} : ~(pc'[u] = "record" /\ job'[u].after = g)
    BY <1>2, <1>5, NextUnopened DEF DueAt, Same
  <2> QED
    BY <1>2, <1>5, <2>1 DEF DueAt
<1>6. ASSUME NEW g \in 2..gen' PROVE OpenedOnce(g)'
  <2>1. CASE g = gen + 1
    BY <1>2, <1>3, <1>5, <2>1, NextUnopened DEF OpenedOnce
  <2>2. CASE g # gen + 1
    <3>1. g \in 2..gen
      BY <1>2, <2>2, NextUnopened
    <3>2. OpenedOnce(g)
      BY <3>1 DEF GenerationInv
    <3> QED
      BY <1>2, <1>3, <1>4, <2>2, <3>2 DEF OpenedOnce
  <2> QED
    BY <2>1, <2>2
<1>7. resyncs' \subseteq 2..gen'
  BY <1>2, NextUnopened DEF GenerationInv
<1> QED
  BY <1>6, <1>7 DEF GenerationInv

LEMMA ResynchronizeOpens ==
  ASSUME IInv, GenerationInv, NEW t \in Thread, Resynchronize(t)
  PROVE  GenerationInv'
<1>1. Quiet(t) /\ TypeOK
  BY QuietSteps DEF IInv
<1>2. \A u \in Thread : pc[u] = "record" \/ pc'[u] = "record" => Same(u)
  BY <1>1, Fields DEF Resynchronize, Goto, Quiet, Local
<1>3. \A g : LandedAt(g)' = LandedAt(g) /\ DueAt(g)' = DueAt(g)
  BY <1>1, <1>2, SameAccounts DEF Quiet
<1>4. CASE ~unknown
  BY <1>3, <1>4, AccountsKept DEF Resynchronize
<1>5. CASE unknown
  <2>1. gen' = gen + 1 /\ resyncs' = resyncs \cup {gen + 1}
    BY <1>5 DEF Resynchronize
  <2>2. ASSUME NEW g \in 2..gen' PROVE OpenedOnce(g)'
    <3>1. CASE g = gen + 1
      BY <1>3, <2>1, <3>1, NextUnopened DEF OpenedOnce
    <3>2. CASE g # gen + 1
      <4>1. g \in 2..gen /\ OpenedOnce(g)
        BY <2>1, <3>2, NextUnopened DEF GenerationInv
      <4> QED
        BY <1>3, <2>1, <3>2, <4>1 DEF OpenedOnce
    <3> QED
      BY <3>1, <3>2
  <2>3. resyncs' \subseteq 2..gen'
    <3>1. gen \in Nat /\ gen >= 1 /\ resyncs \subseteq 2..gen
      BY NextUnopened DEF GenerationInv
    <3> QED
      BY <2>1, <3>1
  <2> QED
    BY <2>2, <2>3 DEF GenerationInv
<1> QED
  BY <1>4, <1>5

\* The entry takes the place of the mutation whose entry was due.
LEMMA RecordAccounts ==
  ASSUME IInv, GenerationInv, NEW t \in Thread, RecordLanded(t)
  PROVE  GenerationInv'
<1> DEFINE a == job[t].after
           n == Len(audit) + 1
<1>1. /\ Local(t) /\ gen' = gen /\ resyncs' = resyncs /\ pc[t] = "record" /\ pc'[t] = "idle"
      /\ \A u \in Thread \ {t} : Same(u)
      /\ a \in 2..gen
  <2>1. Local(t) /\ gen' = gen
    BY LandedStep DEF IInv
  <2>2. pc[t] = "record" /\ pc'[t] = "idle" /\ resyncs' = resyncs
    BY Fields DEF RecordLanded, Leave, Finish, Goto, historyVars, IInv
  <2>3. a \in 2..gen
    BY <2>2, Fields DEF IInv, LocalsOK, LocalOK, Holding, MutationStep
  <2> QED
    BY <2>1, <2>2, <2>3 DEF Local
<1>2. PICK e : audit' = Append(audit, e) /\ Landed(e) /\ e.after = a
  BY LandedStep DEF IInv
<1>3. Len(audit') = n /\ Len(audit) \in Nat
  BY <1>2 DEF IInv, TypeOK
<1>4. audit'[n] = e /\ \A i \in 1..Len(audit) : audit'[i] = audit[i]
  BY <1>2 DEF IInv, TypeOK
<1> HIDE DEF a, n
<1>5. \A g : g # a => LandedAt(g)' = LandedAt(g) /\ DueAt(g)' = DueAt(g)
  <2>1. \A g : g # a => LandedAt(g)' = LandedAt(g)
    BY <1>2, <1>3, <1>4 DEF LandedAt, LandedIndex, n
  <2>2. \A g : g # a => DueAt(g)' = DueAt(g)
    BY <1>1 DEF DueAt, Same, a
  <2> QED
    BY <2>1, <2>2
<1>6. DueAt(a) = {t} /\ LandedAt(a) = {} /\ a \notin resyncs
  <2>1. t \in DueAt(a)
    BY <1>1 DEF DueAt, a
  <2> QED
    BY <1>1, <2>1 DEF GenerationInv, OpenedOnce
<1>7. {i \in LandedIndex' : audit'[i].after = a} = {n}
  BY <1>2, <1>3, <1>4, <1>6 DEF LandedAt, LandedIndex, n
<1>8. {u \in Thread : pc'[u] = "record" /\ job'[u].after = a} = {}
  BY <1>1, <1>6 DEF DueAt, Same
<1>9. ASSUME NEW g \in 2..gen PROVE OpenedOnce(g)'
  <2>1. CASE g = a
    BY <1>1, <1>6, <1>7, <1>8, <2>1 DEF OpenedOnce, LandedAt, DueAt
  <2>2. CASE g # a
    BY <1>1, <1>5, <2>2 DEF OpenedOnce, GenerationInv
  <2> QED
    BY <2>1, <2>2
<1> QED
  BY <1>1, <1>9 DEF GenerationInv

LEMMA ResyncsKept ==
  ASSUME NEW t \in Thread, Mutation(t) \/ RunCommand(t) \/ Read(t) \/ LockTool(t), ~Resynchronize(t)
  PROVE  resyncs' = resyncs
<1> USE DEF historyVars, ToolFrame
<1>1. CASE Mutation(t)
  BY <1>1 DEF Mutation, StartMutation, EnterScheduler, CheckGeneration, CheckActive, CheckValid,
     Prepare, ApplyLocally, FailAmbiguous, FailProvably, Advance, RecordLanded
<1>2. CASE RunCommand(t)
  BY <1>2 DEF RunCommand, StatusUnavailable, StatusUnsupported, Send, DialFails, Receive, GiveUp
<1>3. CASE Read(t)
  BY <1>3 DEF Read, StartRead, Stamp, ReadFails
<1>4. CASE LockTool(t)
  BY <1>4 DEF LockTool, MeetExpired, RunHook, AcquireTool, RecordAcquired, RenewTool, RecordRenewed,
     ReleaseTool, CloseContext, ResumeLook
<1> QED
  BY <1>1, <1>2, <1>3, <1>4

LEMMA GenerationStep == ASSUME IInv, GenerationInv, [Next]_vars PROVE GenerationInv'
<1>1. CASE Execute \/ Disconnect \/ (\E i \in ControlId : TtlPasses(i)) \/ UNCHANGED vars
  <2>1. Still /\ resyncs' = resyncs
    BY <1>1, StillSteps DEF Execute, Disconnect, TtlPasses, ToolFrame, historyVars, vars
  <2>2. \A g : LandedAt(g)' = LandedAt(g) /\ DueAt(g)' = DueAt(g)
    BY <2>1 DEF Still, LandedAt, LandedIndex, DueAt
  <2> QED
    BY <2>1, <2>2, AccountsKept DEF Still
<1>2. ASSUME NEW t \in Thread, Mutation(t) \/ RunCommand(t) \/ Read(t) \/ LockTool(t)
      PROVE  GenerationInv'
  <2>1. CASE Advance(t)
    BY <2>1, AdvanceOpens
  <2>2. CASE Resynchronize(t)
    BY <2>2, ResynchronizeOpens
  <2>3. CASE RecordLanded(t)
    BY <2>3, RecordAccounts
  <2>4. CASE FailAmbiguous(t)
    <3>1. Quiet(t) /\ UNCHANGED <<gen, resyncs>>
      BY <2>4, QuietSteps DEF IInv, FailAmbiguous, historyVars
    <3>2. \A u \in Thread : pc[u] = "record" \/ pc'[u] = "record" => Same(u)
      BY <2>4, <3>1, Fields DEF IInv, FailAmbiguous, Leave, Finish, Goto, Quiet, Local
    <3> QED
      BY <3>1, <3>2, SameAccounts, AccountsKept DEF IInv, Quiet
  <2>5. ASSUME ~Advance(t), ~Resynchronize(t), ~RecordLanded(t), ~FailAmbiguous(t)
        PROVE  GenerationInv'
    <3>1. Neutral(t) /\ Quiet(t)
      BY <1>2, <2>5, NeutralSteps, QuietSteps DEF IInv, Mutation, RunCommand, Read, LockTool
    <3>2. resyncs' = resyncs
      BY <1>2, <2>5, ResyncsKept
    <3> QED
      BY <3>1, <3>2, NothingOpened DEF IInv
  <2> QED
    BY <2>1, <2>2, <2>3, <2>4, <2>5
<1> QED
  BY <1>1, <1>2 DEF Next, NoMoreCalls

LEMMA GenerationInductive == Spec => []GenerationInv
<1>1. Init => GenerationInv
  BY DEF Init, GenerationInv
<1>2. IInv /\ GenerationInv /\ [Next]_vars => GenerationInv'
  BY GenerationStep
<1> QED
  BY <1>1, <1>2, Inductive, PTL DEF Spec

\* Every generation of the target was opened by exactly one landed mutation or
\* resynchronisation: no number is skipped and none is given twice.
THEOREM GenerationsAreAccounted == Spec => []GenerationAccounted
<1>1. GenerationInv => GenerationAccounted
  <2> SUFFICES ASSUME GenerationInv, NEW g \in 2..gen
               PROVE  Cardinality(LandedAt(g)) + Cardinality(DueAt(g))
                        + (IF g \in resyncs THEN 1 ELSE 0) = 1
    <3>1. \A g \in 2..gen :
            LandedAt(g) = {i \in 1..Len(audit) : Landed(audit[i]) /\ audit[i].after = g}
      BY DEF LandedAt, LandedIndex
    <3> QED
      BY <3>1 DEF GenerationAccounted, DueAt
  <2>1. Cardinality({}) = 0 /\ \A x : Cardinality({x}) = 1
    BY FS_EmptySet, FS_Singleton
  <2>2. OpenedOnce(g)
    BY DEF GenerationInv
  <2>3. CASE g \in resyncs
    BY <2>1, <2>2, <2>3 DEF OpenedOnce
  <2>4. CASE g \notin resyncs /\ DueAt(g) = {}
    <3>1. Cardinality(LandedAt(g)) = 1
      BY <2>1, <2>2, <2>4 DEF OpenedOnce
    <3> QED
      BY <2>1, <2>4, <3>1
  <2>5. CASE g \notin resyncs /\ DueAt(g) # {}
    <3>1. Cardinality(DueAt(g)) = 1 /\ LandedAt(g) = {}
      BY <2>1, <2>2, <2>5 DEF OpenedOnce
    <3> QED
      BY <2>1, <2>5, <3>1
  <2> QED
    BY <2>3, <2>4, <2>5
<1> QED
  BY <1>1, GenerationInductive, PTL

-----------------------------------------------------------------------------
(* The control window: nobody else's command.                               *)

\* What a step of t leaves of the other calls, as far as the lock goes.
LEMMA OthersStay ==
  ASSUME IInv, NEW t \in Thread, Mutation(t) \/ RunCommand(t) \/ Read(t) \/ LockTool(t)
  PROVE  \A u \in Thread \ {t} : Same(u) /\ drop'[u] = drop[u] /\ (Holding(u)' <=> Holding(u))
<1>1. Local(t)
  BY QuietSteps, LandedStep DEF IInv, Quiet, Mutation, RunCommand, Read, LockTool
<1>2. \A u \in Thread \ {t} : drop'[u] = drop[u]
  <2>1. drop \in [Thread -> DropType]
    BY DEF IInv, TypeOK, RegistryTypeOK
  <2> QED
    BY <2>1, RegistryKinds DEF Rests, Installs, Ends, Hook, DropLocked
<1> QED
  BY <1>1, <1>2 DEF Local, Same, Holding

LEMMA SuspendedStep ==
  ASSUME IInv, SuspendedOK, NEW t \in Thread, Mutation(t) \/ RunCommand(t) \/ Read(t) \/ LockTool(t)
  PROVE  SuspendedOK'
<1>1. /\ DOMAIN pc = Thread /\ drop \in [Thread -> DropType] /\ NoDrop.phase = "none"
      /\ pc[t] \notin DropStep => drop[t] = NoDrop
      /\ \A u \in Thread \ {t} : drop'[u] # NoDrop => pc'[u] \in DropStep
  BY OthersStay DEF IInv, TypeOK, RegistryTypeOK, SuspendedOK, NoDrop, Same
<1> SUFFICES drop'[t] # NoDrop => pc'[t] \in DropStep
  BY <1>1 DEF SuspendedOK
<1> USE <1>1 DEF DropStep, Goto, Finish, registryVars
<1>2. CASE Mutation(t)
  BY <1>2 DEF Mutation, StartMutation, Idle, EnterScheduler, CheckGeneration, CheckActive, CheckValid,
     Prepare, ApplyLocally, FailAmbiguous, FailProvably, Advance, RecordLanded, Look, Return
<1>3. CASE RunCommand(t)
  BY <1>3 DEF RunCommand, StatusUnavailable, StatusUnsupported, Send, DialFails, Receive, GiveUp,
     AwaitsReply
<1>4. CASE Read(t)
  BY <1>4 DEF Read, StartRead, Idle, Resynchronize, Stamp, ReadFails
<1>5. CASE MeetExpired(t) \/ RunHook(t)
  BY <1>5 DEF MeetExpired, Idle, RunHook, Hook, SuspendedOK
<1>6. CASE AcquireTool(t) \/ RecordAcquired(t) \/ RenewTool(t) \/ RecordRenewed(t) \/ ResumeLook(t)
  BY <1>6 DEF AcquireTool, Acquire, RecordAcquired, RenewTool, Renew, RecordRenewed, ResumeLook, Look,
     Return
<1>7. CASE ReleaseTool(t) \/ CloseContext(t)
  BY <1>7 DEF ReleaseTool, CloseContext, Idle
<1> QED
  BY <1>2, <1>3, <1>4, <1>5, <1>6, <1>7 DEF LockTool

\* Only a command that is sent presents an id.
LEMMA PresentedStep ==
  ASSUME IInv, NEW t \in Thread, Mutation(t) \/ RunCommand(t) \/ Read(t) \/ LockTool(t),
         NEW i, Presented(i)'
  PROVE  Presented(i) \/ (Send(t) /\ job[t].kind = "mutation" /\ job[t].control = i)
<1> USE DEF Presented, historyVars, ToolFrame
<1>1. CASE Mutation(t)
  BY <1>1 DEF Mutation, StartMutation, EnterScheduler, CheckGeneration, CheckActive, CheckValid,
     Prepare, ApplyLocally, FailAmbiguous, FailProvably, Advance, RecordLanded
<1>2. CASE Receive(t) \/ GiveUp(t)
  BY <1>2 DEF Receive, GiveUp, AwaitsReply, IInv, TypeOK, PipeType
<1>3. CASE StatusUnavailable(t) \/ StatusUnsupported(t) \/ DialFails(t)
  BY <1>3 DEF StatusUnavailable, StatusUnsupported, DialFails
<1>4. CASE Send(t)
  BY <1>4 DEF Send
<1>5. CASE Read(t)
  BY <1>5 DEF Read, StartRead, Resynchronize, Stamp, ReadFails
<1>6. CASE LockTool(t)
  BY <1>6 DEF LockTool, MeetExpired, RunHook, AcquireTool, RecordAcquired, RenewTool, RecordRenewed,
     ReleaseTool, CloseContext, ResumeLook
<1> QED
  BY <1>1, <1>2, <1>3, <1>4, <1>5, <1>6 DEF RunCommand

\* An id is issued once, and a caller presents only ids it was given.
LEMMA IssuedGrows ==
  ASSUME IInv, NEW t \in Thread, Mutation(t) \/ RunCommand(t) \/ Read(t) \/ LockTool(t)
  PROVE  Issued \subseteq Issued'
<1>1. window \in [ControlId -> Fate] /\ lock \in ControlId \cup {None}
  BY DEF IInv, TypeOK, RegistryTypeOK
<1> QED
  BY <1>1, RegistryKinds DEF Rests, Installs, Ends, Hook, DropLocked, Issued

LEMMA IssuedStep ==
  ASSUME IInv, IssuedOK, NEW t \in Thread, Mutation(t) \/ RunCommand(t) \/ Read(t) \/ LockTool(t)
  PROVE  IssuedOK'
<1>1. Issued \subseteq Issued'
  BY IssuedGrows
<1>2. /\ mine \in [Thread -> SUBSET ControlId] /\ job \in [Thread -> JobType] /\ NoJob.control = None
      /\ window \in [ControlId -> Fate]
      /\ mine[t] \subseteq Issued /\ job[t].control \in Issued \cup {None}
  BY DEF IInv, TypeOK, RegistryTypeOK, IssuedOK, NoJob, Call
<1>3. \A i \in ControlId : Presented(i)' => i \in Issued'
  BY <1>1, PresentedStep, NoneAssumption DEF IssuedOK
<1>4. ASSUME NEW u \in Thread \ {t}
      PROVE  mine'[u] \subseteq Issued' /\ job'[u].control \in Issued' \cup {None}
  <2>1. job'[u].control = job[u].control
    BY OthersStay DEF Same
  <2>2. mine'[u] = mine[u]
    BY <1>2 DEF Mutation, StartMutation, EnterScheduler, CheckGeneration, CheckActive, CheckValid,
       Prepare, ApplyLocally, FailAmbiguous, FailProvably, Advance, RecordLanded, RunCommand,
       StatusUnavailable, StatusUnsupported, Send, DialFails, Receive, GiveUp, Read, StartRead,
       Resynchronize, Stamp, ReadFails, LockTool, MeetExpired, RunHook, AcquireTool, RecordAcquired,
       RenewTool, RecordRenewed, ReleaseTool, CloseContext, ResumeLook, clientVars, ToolFrame
  <2> QED
    BY <1>1, <2>1, <2>2 DEF IssuedOK
<1>5. mine'[t] \subseteq Issued' /\ job'[t].control \in Issued' \cup {None}
  <2> USE <1>1, <1>2 DEF clientVars, ToolFrame, Finish, Leave
  <2>1. CASE StartMutation(t)
    BY <2>1 DEF StartMutation, Call
  <2>2. CASE EnterScheduler(t) \/ CheckGeneration(t) \/ CheckActive(t) \/ CheckValid(t) \/ Prepare(t)
             \/ ApplyLocally(t) \/ FailAmbiguous(t) \/ FailProvably(t) \/ Advance(t) \/ RecordLanded(t)
    <3>1. mine' = mine
      BY <2>2 DEF EnterScheduler, CheckGeneration, CheckActive, CheckValid, Prepare, ApplyLocally,
         FailAmbiguous, FailProvably, Advance, RecordLanded
    <3>2. CASE EnterScheduler(t) \/ CheckActive(t) \/ Prepare(t) \/ Advance(t)
      <4>1. job'[t].control = job[t].control
        <5>1. CASE EnterScheduler(t)
          BY <5>1 DEF EnterScheduler
        <5>2. CASE Advance(t)
          BY <5>2 DEF Advance
        <5> QED
          BY <3>2, <5>1, <5>2 DEF CheckActive, Prepare
      <4> QED
        BY <3>1, <4>1
    <3>3. CASE ApplyLocally(t)
      <4>1. job'[t].control = job[t].control
        BY <3>3 DEF ApplyLocally
      <4> QED
        BY <3>1, <4>1
    <3>4. CASE CheckGeneration(t) \/ CheckValid(t) \/ FailAmbiguous(t) \/ FailProvably(t) \/ RecordLanded(t)
      <4>1. job'[t].control \in {job[t].control, None}
        BY <3>4 DEF CheckGeneration, CheckValid, FailAmbiguous, FailProvably, RecordLanded
      <4> QED
        BY <3>1, <4>1
    <3> QED
      BY <2>2, <3>2, <3>3, <3>4
  <2>3. CASE RunCommand(t)
    <3>1. mine' = mine
      BY <2>3 DEF RunCommand, StatusUnavailable, StatusUnsupported, Send, DialFails, Receive, GiveUp
    <3>2. job'[t].control = job[t].control
      <4>1. CASE Receive(t)
        BY <4>1 DEF Receive
      <4> QED
        BY <2>3, <4>1 DEF RunCommand, StatusUnavailable, StatusUnsupported, Send, DialFails, GiveUp
    <3> QED
      BY <3>1, <3>2
  <2>4. CASE Read(t)
    <3>1. mine' = mine
      BY <2>4 DEF Read, StartRead, Resynchronize, Stamp, ReadFails
    <3>2. CASE Resynchronize(t)
      <4>1. job'[t].control = job[t].control
        BY <3>2 DEF Resynchronize
      <4> QED
        BY <3>1, <4>1
    <3>3. CASE StartRead(t) \/ Stamp(t) \/ ReadFails(t)
      <4>1. job'[t].control = None
        BY <3>3 DEF StartRead, Call, Stamp, ReadFails
      <4> QED
        BY <3>1, <4>1
    <3> QED
      BY <2>4, <3>2, <3>3 DEF Read
  <2>5. CASE AcquireTool(t)
    <3>1. PICK i \in ControlId : /\ window' = [window EXCEPT ![i] = "open"]
                                 /\ mine' = [mine EXCEPT ![t] = @ \cup {i}]
                                 /\ job' = [job EXCEPT ![t].control = i]
      BY <2>5 DEF AcquireTool, Acquire
    <3>2. i \in Issued'
      BY <3>1 DEF Issued
    <3> QED
      BY <3>1, <3>2
  <2>6. CASE RenewTool(t)
    BY <2>6 DEF RenewTool
  <2>7. CASE MeetExpired(t) \/ RunHook(t) \/ RecordAcquired(t) \/ RecordRenewed(t) \/ ReleaseTool(t)
             \/ CloseContext(t) \/ ResumeLook(t)
    BY <2>7 DEF MeetExpired, RunHook, RecordAcquired, RecordRenewed, ReleaseTool, CloseContext, ResumeLook
  <2> QED
    BY <2>1, <2>2, <2>3, <2>4, <2>5, <2>6, <2>7 DEF Mutation, LockTool
<1> QED
  BY <1>3, <1>4, <1>5 DEF IssuedOK

\* The window of the installed lock: what t keeps of it, in its own step and in
\* those that leave the lock alone.
LEMMA BehindStep ==
  ASSUME IInv, SuspendedOK, NEW t \in Thread, Mutation(t) \/ RunCommand(t) \/ Read(t) \/ LockTool(t),
         BehindCheck(t), lock # None, window[lock] = "open", lock' = lock
  PROVE  BehindCheck(t)'
<1>1. /\ DOMAIN pc = Thread /\ drop \in [Thread -> DropType] /\ job \in [Thread -> JobType]
      /\ NoDrop.phase = "none" /\ LocalOK(t)
      /\ pc[t] \notin DropStep => drop[t] = NoDrop
  BY DEF IInv, TypeOK, RegistryTypeOK, LocalsOK, SuspendedOK, NoDrop
<1> USE <1>1 DEF BehindCheck, Holding, MutationStep, SharedStep, Goto, LocalOK, DropStep
<1>2. CASE StartMutation(t) \/ EnterScheduler(t) \/ ApplyLocally(t) \/ FailAmbiguous(t)
           \/ FailProvably(t) \/ Advance(t) \/ RecordLanded(t)
  BY <1>2 DEF StartMutation, EnterScheduler, ApplyLocally, FailAmbiguous, FailProvably, Advance,
     RecordLanded, Leave, Finish
<1>3. CASE CheckGeneration(t)
  BY <1>3 DEF CheckGeneration, Leave, Finish, registryVars
<1>4. CASE CheckActive(t)
  BY <1>4 DEF CheckActive, Active, Found, Look, Return
<1>5. CASE CheckValid(t)
  BY <1>5 DEF CheckValid, Valid, Found, Leave, Finish
<1>6. CASE Prepare(t)
  BY <1>6 DEF Prepare
<1>7. CASE RunCommand(t)
  BY <1>7 DEF RunCommand, StatusUnavailable, StatusUnsupported, Send, DialFails, Receive, GiveUp
<1>8. CASE Read(t)
  BY <1>8, CallFields DEF Read, StartRead, Resynchronize, Stamp, ReadFails, Finish
<1>9. CASE MeetExpired(t)
  BY <1>9 DEF MeetExpired, DropExpired, LockExpired
<1>10. CASE RunHook(t)
  BY <1>10 DEF RunHook, Hook
<1>11. CASE AcquireTool(t) \/ RecordAcquired(t) \/ RenewTool(t) \/ RecordRenewed(t) \/ ResumeLook(t)
  BY <1>11 DEF AcquireTool, RecordAcquired, RenewTool, RecordRenewed, ResumeLook, Finish
<1>12. CASE ReleaseTool(t) \/ CloseContext(t)
  BY <1>12 DEF ReleaseTool, CloseContext, Idle
<1> QED
  BY <1>2, <1>3, <1>4, <1>5, <1>6, <1>7, <1>8, <1>9, <1>10, <1>11, <1>12 DEF Mutation, LockTool

LEMMA HeldStep ==
  ASSUME IInv, ControlInv, NEW t \in Thread, Mutation(t) \/ RunCommand(t) \/ Read(t) \/ LockTool(t)
  PROVE  WindowHeld'
<1> SUFFICES ASSUME lock' # None, window'[lock'] = "open", Presented(lock)'
             PROVE  /\ \A u \in Thread : BehindCheck(u)'
                    /\ pipe' # None /\ pipe'.kind = "mutation" /\ pipe'.result = "pending" =>
                         pipe'.control = lock'
  BY DEF WindowHeld
<1>1. /\ lock \in ControlId \cup {None} /\ window \in [ControlId -> Fate]
      /\ drop \in [Thread -> DropType] /\ job[t].control \in ControlId \cup {None}
  BY Fields DEF IInv, TypeOK, RegistryTypeOK
<1>2. Presented(lock') \/ (Send(t) /\ job[t].kind = "mutation" /\ job[t].control = lock')
  BY PresentedStep DEF Presented
<1>3. lock' = lock /\ window' = window /\ window[lock] = "open" /\ lock \in ControlId
  <2>1. CASE Rests(t) \/ Hook(t)
    BY <1>1, <2>1 DEF Rests, Hook
  <2>2. CASE Installs(t)
    <3>1. lock' \in ControlId /\ lock' \notin Issued
      BY <1>1, <2>2 DEF Installs, Issued
    <3> QED
      BY <1>2, <3>1, NoneAssumption DEF ControlInv, IssuedOK
  <2>3. CASE Ends(t)
    BY <2>3 DEF Ends, DropLocked
  <2> QED
    BY <2>1, <2>2, <2>3, RegistryKinds
<1>4. CASE Presented(lock)
  <2>1. \A u \in Thread : BehindCheck(u)
    BY <1>3, <1>4, NoneAssumption DEF ControlInv, WindowHeld
  <2>2. BehindCheck(t)'
    BY <1>3, <2>1, BehindStep, NoneAssumption DEF ControlInv
  <2>3. \A u \in Thread \ {t} : BehindCheck(u)'
    BY <1>3, <2>1, OthersStay DEF BehindCheck, Same
  <2>4. pipe # None /\ pipe.kind = "mutation" /\ pipe.result = "pending" => pipe.control = lock
    BY <1>3, <1>4, NoneAssumption DEF ControlInv, WindowHeld
  <2>5. CASE Send(t)
    <3>1. job[t].kind = "mutation" => job[t].control = lock
      BY <2>1, <2>5 DEF Send, BehindCheck, Holding, SharedStep
    <3> QED
      BY <1>3, <2>2, <2>3, <2>5, <3>1 DEF Send
  <2>6. CASE ~Send(t)
    <3>1. \/ pipe' = None \/ pipe' = pipe
          \/ pipe # None /\ pipe' = [pipe EXCEPT !.left = TRUE]
      BY <2>6 DEF Mutation, StartMutation, EnterScheduler, CheckGeneration, CheckActive, CheckValid,
         Prepare, ApplyLocally, FailAmbiguous, FailProvably, Advance, RecordLanded, RunCommand,
         StatusUnavailable, StatusUnsupported, DialFails, Receive, GiveUp, AwaitsReply, Read, StartRead,
         Resynchronize, Stamp, ReadFails, LockTool, MeetExpired, RunHook, AcquireTool, RecordAcquired,
         RenewTool, RecordRenewed, ReleaseTool, CloseContext, ResumeLook, ToolFrame
    <3>2. pipe # None => pipe \in PipeType
      BY DEF IInv, TypeOK
    <3> QED
      BY <1>3, <2>2, <2>3, <2>4, <3>1, <3>2 DEF PipeType
  <2> QED
    BY <2>5, <2>6
<1>5. CASE ~Presented(lock)
  <2>1. Send(t) /\ job[t].kind = "mutation" /\ job[t].control = lock
    BY <1>2, <1>3, <1>5
  <2>2. sched = t /\ pc'[t] = "await"
    BY <2>1, Fields DEF IInv, LocalsOK, LocalOK, Holding, SharedStep, Send, Goto
  <2>3. \A u \in Thread \ {t} : ~Holding(u)'
    BY <2>2, OthersStay DEF IInv, LocalsOK, LocalOK
  <2> QED
    BY <1>3, <2>1, <2>2, <2>3 DEF BehindCheck, Send
<1> QED
  BY <1>4, <1>5

LEMMA ControlStep == ASSUME IInv, ControlInv, [Next]_vars PROVE ControlInv'
<1>1. ASSUME NEW t \in Thread, Mutation(t) \/ RunCommand(t) \/ Read(t) \/ LockTool(t)
      PROVE  ControlInv'
  BY <1>1, SuspendedStep, IssuedStep, HeldStep DEF ControlInv
<1>2. CASE Execute
  <2>1. /\ UNCHANGED <<lock, window, drop, pc, job, mine>> /\ pipe \in PipeType
        /\ pipe'.kind = pipe.kind /\ pipe'.control = pipe.control
        /\ pipe.result = "pending" /\ pipe'.result # "pending" /\ pipe # None
        /\ landed' = landed \/ (pipe.kind = "mutation" /\ landed' = landed \cup {pipe.control})
    BY <1>2 DEF Execute, registryVars, clientVars, IInv, TypeOK, PipeType
  <2>2. \A i : Presented(i)' => Presented(i)
    BY <2>1 DEF Presented
  <2>3. \A u \in Thread : BehindCheck(u)' <=> BehindCheck(u)
    BY <2>1 DEF BehindCheck, Holding
  <2>4. WindowHeld'
    BY <2>1, <2>2, <2>3 DEF ControlInv, WindowHeld
  <2>5. SuspendedOK' /\ IssuedOK'
    BY <2>1, <2>2 DEF ControlInv, SuspendedOK, IssuedOK, Issued
  <2> QED
    BY <2>4, <2>5 DEF ControlInv
<1>3. CASE Disconnect \/ UNCHANGED vars
  <2>1. UNCHANGED <<lock, window, drop, pc, job, mine, landed>> /\ (pipe' = pipe \/ pipe' = None)
    BY <1>3 DEF Disconnect, registryVars, clientVars, historyVars, vars
  <2>2. \A i : Presented(i)' => Presented(i)
    BY <2>1 DEF Presented
  <2>3. \A u \in Thread : BehindCheck(u)' <=> BehindCheck(u)
    BY <2>1 DEF BehindCheck, Holding
  <2>4. WindowHeld'
    BY <2>1, <2>2, <2>3 DEF ControlInv, WindowHeld
  <2>5. SuspendedOK' /\ IssuedOK'
    BY <2>1, <2>2 DEF ControlInv, SuspendedOK, IssuedOK, Issued
  <2> QED
    BY <2>4, <2>5 DEF ControlInv
<1>4. ASSUME NEW i \in ControlId, TtlPasses(i) PROVE ControlInv'
  <2>1. /\ UNCHANGED <<lock, drop, pc, job, mine, landed, pipe>>
        /\ window[i] = "open" /\ window' = [window EXCEPT ![i] = "expired"]
        /\ window \in [ControlId -> Fate] /\ lock \in ControlId \cup {None}
    BY <1>4 DEF TtlPasses, Expire, ToolFrame, historyVars, IInv, TypeOK, RegistryTypeOK
  <2>2. Issued' = Issued
    BY <2>1 DEF Issued
  <2>3. \A k : Presented(k)' => Presented(k)
    BY <2>1 DEF Presented
  <2>4. \A u \in Thread : BehindCheck(u)' <=> BehindCheck(u)
    BY <2>1 DEF BehindCheck, Holding
  <2>5. WindowHeld'
    <3>1. lock # None /\ window'[lock] = "open" => window[lock] = "open"
      BY <2>1
    <3> QED
      BY <2>1, <2>3, <2>4, <3>1 DEF ControlInv, WindowHeld
  <2>6. SuspendedOK' /\ IssuedOK'
    BY <2>1, <2>2, <2>3 DEF ControlInv, SuspendedOK, IssuedOK
  <2> QED
    BY <2>5, <2>6 DEF ControlInv
<1> QED
  BY <1>1, <1>2, <1>3, <1>4 DEF Next, NoMoreCalls

LEMMA ControlInductive == Spec => []ControlInv
<1>1. Init => ControlInv
  BY DEF Init, RegistryInit, ControlInv, SuspendedOK, IssuedOK, WindowHeld, Presented, NoJob, Call
<1>2. IInv /\ ControlInv /\ [Next]_vars => ControlInv'
  BY ControlStep
<1> QED
  BY <1>1, <1>2, Inductive, PTL DEF Spec

\* Only the plugin's execution of a mutation command changes the machine.
LEMMA MachineStep ==
  ASSUME [Next]_vars, machine' # machine
  PROVE  pipe # None /\ pipe.result = "pending" /\ pipe.kind = "mutation"
<1>1. \A t \in Thread : Mutation(t) \/ RunCommand(t) \/ Read(t) \/ LockTool(t) => machine' = machine
  BY DEF Mutation, StartMutation, EnterScheduler, CheckGeneration, CheckActive, CheckValid,
     Prepare, ApplyLocally, FailAmbiguous, FailProvably, Advance, RecordLanded, RunCommand,
     StatusUnavailable, StatusUnsupported, Send, DialFails, Receive, GiveUp, Read, StartRead,
     Resynchronize, Stamp, ReadFails, LockTool, MeetExpired, RunHook, AcquireTool, RecordAcquired,
     RenewTool, RecordRenewed, ReleaseTool, CloseContext, ResumeLook, ToolFrame
<1>2. Disconnect \/ (\E i \in ControlId : TtlPasses(i)) \/ UNCHANGED vars => machine' = machine
  BY DEF Disconnect, TtlPasses, ToolFrame, vars
<1> QED
  BY <1>1, <1>2 DEF Next, NoMoreCalls, Execute

\* Exclusive control holds at the machine, not only at the check of
\* executeMutation: once a command under the installed lock has landed, no
\* command that passed the check before, and none whose client has given up,
\* changes the machine behind the holder's back.
THEOREM ControlIsExclusive == Spec => NoForeignMutation
<1>1. ASSUME ControlInv, [Next]_vars
      PROVE  [\A i \in ControlId :
                lock = i /\ window[i] = "open" /\ i \in landed /\ machine' # machine
                  => pipe.control = i]_vars
  <2> SUFFICES ASSUME NEW i \in ControlId,
                      lock = i, window[i] = "open", i \in landed, machine' # machine
               PROVE  pipe.control = i
    OBVIOUS
  <2>1. lock # None /\ Presented(lock)
    BY <1>1, NoneAssumption DEF Presented
  <2> QED
    BY <1>1, <2>1, MachineStep DEF ControlInv, WindowHeld
<1> QED
  BY <1>1, ControlInductive, PTL DEF Spec, NoForeignMutation

-----------------------------------------------------------------------------
(* The generation guard: the machine behind it.                             *)

\* What a step of t leaves of the machine and of the other calls.
LEMMA GuardFrame ==
  ASSUME IInv, NEW t \in Thread, Mutation(t) \/ RunCommand(t) \/ Read(t) \/ LockTool(t)
  PROVE  /\ machine' = machine
         /\ \A u \in Thread \ {t} :
              /\ pc'[u] = pc[u] /\ basis'[u] = basis[u]
              /\ job'[u].kind = job[u].kind /\ job'[u].op = job[u].op
              /\ job'[u].control = job[u].control /\ job'[u].expected = job[u].expected
              /\ job'[u].current = job[u].current /\ job'[u].seen = job[u].seen
              /\ job'[u].raced = job[u].raced \/ (Resynchronize(t) /\ job'[u].raced)
         /\ basis'[t] = basis[t] \/ RecordLanded(t) \/ Stamp(t)
<1>1. DOMAIN pc = Thread /\ basis \in [Thread -> BasisType] /\ job \in [Thread -> JobType]
  BY DEF IInv, TypeOK
<1> USE <1>1 DEF Goto, Finish, Leave, clientVars, ToolFrame
<1>2. CASE StartMutation(t) \/ EnterScheduler(t) \/ Prepare(t) \/ ApplyLocally(t) \/ Advance(t)
  BY <1>2 DEF StartMutation, EnterScheduler, Prepare, ApplyLocally, Advance
<1>3. CASE CheckGeneration(t) \/ CheckActive(t) \/ CheckValid(t)
  BY <1>3 DEF CheckGeneration, CheckActive, CheckValid
<1>4. CASE FailAmbiguous(t) \/ FailProvably(t)
  BY <1>4 DEF FailAmbiguous, FailProvably
<1>5. CASE RecordLanded(t)
  BY <1>5 DEF RecordLanded
<1>6. CASE RunCommand(t)
  BY <1>6 DEF RunCommand, StatusUnavailable, StatusUnsupported, Send, DialFails, Receive, GiveUp
<1>7. CASE Resynchronize(t)
  <2>1. ASSUME NEW u \in Thread
        PROVE  /\ job'[u].kind = job[u].kind /\ job'[u].op = job[u].op
               /\ job'[u].control = job[u].control /\ job'[u].expected = job[u].expected
               /\ job'[u].current = job[u].current /\ job'[u].seen = job[u].seen
               /\ job'[u].raced = job[u].raced \/ job'[u].raced
    <3>1. job[u] \in JobType
      OBVIOUS
    <3>2. job'[u] = job[u] \/ job'[u] = [job[u] EXCEPT !.raced = TRUE]
      BY <1>7 DEF Resynchronize
    <3> QED
      BY <3>1, <3>2 DEF JobType
  <2>2. machine' = machine /\ basis' = basis /\ \A u \in Thread \ {t} : pc'[u] = pc[u]
    BY <1>7 DEF Resynchronize
  <2> QED
    BY <1>7, <2>1, <2>2
<1>8. CASE StartRead(t) \/ Stamp(t) \/ ReadFails(t)
  BY <1>8 DEF StartRead, Stamp, ReadFails
<1>9. CASE LockTool(t)
  BY <1>9 DEF LockTool, MeetExpired, RunHook, AcquireTool, RecordAcquired, RenewTool, RecordRenewed,
     ReleaseTool, CloseContext, ResumeLook
<1> QED
  BY <1>2, <1>3, <1>4, <1>5, <1>6, <1>7, <1>8, <1>9 DEF Mutation, Read

\* Only the exchange of t itself touches the pipe.
LEMMA PipeStep ==
  ASSUME NEW t \in Thread, Mutation(t) \/ RunCommand(t) \/ Read(t) \/ LockTool(t)
  PROVE  pipe' = pipe \/ Send(t) \/ Receive(t) \/ GiveUp(t)
BY DEF Mutation, StartMutation, EnterScheduler, CheckGeneration, CheckActive, CheckValid,
   Prepare, ApplyLocally, FailAmbiguous, FailProvably, Advance, RecordLanded, RunCommand,
   StatusUnavailable, StatusUnsupported, DialFails, Read, StartRead, Resynchronize, Stamp, ReadFails,
   LockTool, MeetExpired, RunHook, AcquireTool, RecordAcquired, RenewTool, RecordRenewed, ReleaseTool,
   CloseContext, ResumeLook, ToolFrame

\* An ambiguous mutation stays where it is, until it is told.
LEMMA AmbiguousStays ==
  ASSUME IInv, NEW t \in Thread, Mutation(t) \/ RunCommand(t) \/ Read(t) \/ LockTool(t),
         pc[t] = "ambiguous", job[t].kind = "mutation", ~FailAmbiguous(t)
  PROVE  pc'[t] = "ambiguous" /\ job'[t] = job[t]
BY DEF Mutation, StartMutation, Idle, EnterScheduler, CheckGeneration, CheckActive, CheckValid,
   Prepare, ApplyLocally, FailProvably, Advance, RecordLanded, RunCommand,
   StatusUnavailable, StatusUnsupported, Send, DialFails, Receive, GiveUp, AwaitsReply, Read, StartRead,
   Resynchronize, Stamp, ReadFails, LockTool, MeetExpired, RunHook, AcquireTool, RecordAcquired,
   RenewTool, RecordRenewed, ReleaseTool, CloseContext, ResumeLook, IInv, TypeOK

\* A command outlives its call only when the call fails as ambiguous.
LEMMA OrphanStep ==
  ASSUME IInv, AuditInv, NEW t \in Thread, Mutation(t) \/ RunCommand(t) \/ Read(t) \/ LockTool(t),
         Orphan'
  PROVE  Orphan \/ FailAmbiguous(t)
<1>1. PipeOK /\ (pipe # None => pipe \in PipeType) /\ DOMAIN pc = Thread
  BY DEF AuditInv, IInv, TypeOK
<1>2. CASE Send(t) \/ Receive(t)
  BY <1>2 DEF Send, Receive, Orphan
<1>3. CASE GiveUp(t)
  <2>1. /\ pipe' = [pipe EXCEPT !.left = TRUE] /\ pc'[t] = "ambiguous" /\ job' = job
        /\ pipe.by = t /\ job[t].op = pipe.op /\ job[t].kind = pipe.kind
        /\ job[t].control = pipe.control /\ pipe \in PipeType
    BY <1>1, <1>3 DEF GiveUp, AwaitsReply, Goto, PipeOK
  <2>2. Orphan' => Withdrawn'
    BY <2>1 DEF Orphan, Withdrawn, PipeType
  <2> QED
    BY <2>2 DEF Orphan
<1>4. CASE pipe' = pipe
  <2> SUFFICES ASSUME ~Orphan, ~FailAmbiguous(t) PROVE FALSE
    OBVIOUS
  <2>1. pipe # None /\ Withdrawn /\ pipe.by \in Thread
    BY <1>1, <1>4 DEF Orphan, PipeType
  <2>2. CASE pipe.by = t
    <3>1. pc'[t] = "ambiguous" /\ job'[t] = job[t]
      BY <2>1, <2>2, AmbiguousStays DEF Withdrawn
    <3> QED
      BY <1>4, <2>1, <2>2, <3>1 DEF Orphan, Withdrawn
  <2>3. CASE pipe.by # t
    <3>1. /\ pc'[pipe.by] = pc[pipe.by] /\ job'[pipe.by].op = job[pipe.by].op
          /\ job'[pipe.by].kind = job[pipe.by].kind /\ job'[pipe.by].control = job[pipe.by].control
      BY <2>1, <2>3, GuardFrame
    <3> QED
      BY <1>4, <2>1, <3>1 DEF Orphan, Withdrawn
  <2> QED
    BY <2>2, <2>3
<1> QED
  BY <1>2, <1>3, <1>4, PipeStep

\* A call that has changed the machine stays untold until it opens a generation
\* or makes the revision unknown.
LEMMA UntoldStep ==
  ASSUME IInv, AuditInv, NEW t \in Thread, Mutation(t) \/ RunCommand(t) \/ Read(t) \/ LockTool(t),
         ~Advance(t), ~FailAmbiguous(t), NEW w \in Thread, Untold(w)
  PROVE  Untold(w)'
<1>1. PipeOK /\ DOMAIN pc = Thread /\ job \in [Thread -> JobType]
  BY DEF AuditInv, IInv, TypeOK
<1>2. CASE w # t
  <2>1. pc'[w] = pc[w] /\ job'[w].kind = job[w].kind
    BY <1>2, GuardFrame
  <2>2. pc[w] = "await" => pipe' = pipe
    BY <1>1, <1>2, PipeStep DEF PipeOK, Send, Receive, GiveUp, AwaitsReply
  <2> QED
    BY <2>1, <2>2 DEF Untold
<1>3. CASE w = t
  <2>1. job[t].kind = "mutation"
    BY <1>3 DEF Untold
  <2>2. CASE pc[t] = "ambiguous"
    BY <1>3, <2>1, <2>2, AmbiguousStays DEF Untold
  <2>3. CASE Receive(t)
    <3>1. pipe.result \in {"ok", "partial"}
      BY <1>3, <2>3 DEF Untold, Receive, AwaitsReply
    <3>2. pc'[t] \in {"advance", "ambiguous"}
      BY <1>1, <2>1, <2>3, <3>1 DEF Receive, Goto
    <3>3. job'[t].kind = "mutation"
      BY <1>1, <2>1, <2>3 DEF Receive
    <3> QED
      BY <1>3, <3>2, <3>3 DEF Untold
  <2>4. CASE GiveUp(t)
    BY <1>1, <1>3, <2>1, <2>4 DEF GiveUp, Goto, Untold
  <2>5. CASE pc[t] \in {"await", "advance"} /\ ~Receive(t) /\ ~GiveUp(t)
    <3>1. pc' = pc /\ job' = job /\ pipe' = pipe
      BY <2>5 DEF Mutation, StartMutation, Idle, EnterScheduler, CheckGeneration, CheckActive,
         CheckValid, Prepare, ApplyLocally, FailProvably, RecordLanded, RunCommand,
         StatusUnavailable, StatusUnsupported, Send, DialFails, Read, StartRead, Resynchronize, Stamp,
         ReadFails, LockTool, MeetExpired, RunHook, AcquireTool, RecordAcquired, RenewTool,
         RecordRenewed, ReleaseTool, CloseContext, ResumeLook, ToolFrame
    <3> QED
      BY <1>3, <3>1 DEF Untold
  <2> QED
    BY <1>3, <2>2, <2>3, <2>4, <2>5 DEF Untold
<1> QED
  BY <1>2, <1>3

LEMMA SeenStep ==
  ASSUME IInv, AuditInv, GuardInv, NEW t \in Thread,
         Mutation(t) \/ RunCommand(t) \/ Read(t) \/ LockTool(t)
  PROVE  SeenOK'
<1>1. /\ PipeOK /\ LocalsOK /\ DOMAIN pc = Thread /\ job \in [Thread -> JobType]
      /\ (pipe # None => pipe \in PipeType)
  BY DEF AuditInv, IInv, TypeOK
<1> USE <1>1
<1>2. ASSUME NEW u \in Thread \ {t}, pc'[u] \in DoneStep, job'[u].kind = "mutation"
      PROVE  job'[u].seen = machine' /\ ~Orphan'
  <2>1. /\ pc[u] \in DoneStep /\ job[u].kind = "mutation"
        /\ job'[u].seen = job[u].seen /\ machine' = machine
    BY <1>2, GuardFrame
  <2>2. job[u].seen = machine /\ ~Orphan
    BY <2>1 DEF GuardInv, SeenOK
  <2>3. ~FailAmbiguous(t)
    BY <2>1 DEF FailAmbiguous, LocalsOK, LocalOK, Holding, DoneStep, MutationStep, SharedStep
  <2> QED
    BY <2>1, <2>2, <2>3, OrphanStep
<1>3. ASSUME pc'[t] \in DoneStep, job'[t].kind = "mutation"
      PROVE  job'[t].seen = machine' /\ ~Orphan'
  <2> USE <1>3 DEF DoneStep, Goto
  <2>1. CASE Receive(t)
    <3>1. /\ pipe' = None /\ machine' = machine /\ job'[t].seen = pipe.seen /\ pc[t] = "await"
          /\ pipe.result \in {"ok", "partial"} /\ job[t].kind = "mutation"
      BY <2>1 DEF Receive, AwaitsReply
    <3>2. pipe.kind = "mutation" /\ pipe # None
      BY <2>1, <3>1 DEF PipeOK, Receive, AwaitsReply
    <3>3. pipe.seen = machine
      BY <3>1, <3>2 DEF PipeOK
    <3> QED
      BY <3>1, <3>3 DEF Orphan
  <2>2. CASE Advance(t)
    <3>1. /\ pc[t] = "advance" /\ job[t].kind = "mutation" /\ job'[t].seen = job[t].seen
          /\ machine' = machine
      BY <2>2 DEF Advance
    <3>2. ~FailAmbiguous(t)
      BY <3>1 DEF FailAmbiguous
    <3> QED
      BY <3>1, <3>2, OrphanStep DEF GuardInv, SeenOK
  <2>3. CASE ~Receive(t) /\ ~Advance(t)
    <3>1. pc[t] \in DoneStep /\ job' = job /\ machine' = machine
      <4>1. CASE Mutation(t)
        <5>1. ~ApplyLocally(t)
          <6>1. ApplyLocally(t) => job'[t].kind = "local"
            BY DEF ApplyLocally
          <6> QED
            BY <6>1
        <5> QED
          BY <2>3, <4>1, <5>1 DEF Mutation, StartMutation, EnterScheduler, CheckGeneration, CheckActive,
             CheckValid, Prepare, FailAmbiguous, FailProvably, RecordLanded, Leave, Finish
      <4>2. CASE RunCommand(t)
        BY <2>3, <4>2 DEF RunCommand, StatusUnavailable, StatusUnsupported, Send, DialFails, GiveUp
      <4>3. CASE Read(t)
        BY <4>3 DEF Read, StartRead, Resynchronize, Stamp, ReadFails, Finish
      <4>4. CASE LockTool(t)
        BY <4>4 DEF LockTool, MeetExpired, Idle, RunHook, AcquireTool, RecordAcquired, RenewTool,
           RecordRenewed, ReleaseTool, CloseContext, ResumeLook, Finish, ToolFrame
      <4> QED
        BY <4>1, <4>2, <4>3, <4>4
    <3>2. ~FailAmbiguous(t)
      BY <3>1 DEF FailAmbiguous
    <3> QED
      BY <3>1, <3>2, OrphanStep DEF GuardInv, SeenOK
  <2> QED
    BY <2>1, <2>2, <2>3
<1> QED
  BY <1>2, <1>3 DEF SeenOK

\* A client whose observation is of a trusted generation keeps it.
LEMMA KnownStays ==
  ASSUME IInv, AuditInv, MachineKnown, NEW t \in Thread,
         Mutation(t) \/ RunCommand(t) \/ Read(t) \/ LockTool(t),
         ~Advance(t), ~FailAmbiguous(t), UNCHANGED <<gen, unknown>>,
         NEW u \in Thread, basis'[u] = basis[u]
  PROVE  /\ basis'[u].gen <= gen'
         /\ OnCurrent(u)' /\ ~unknown' => /\ ~Orphan'
                                          /\ machine' = basis'[u].seen \/ \E w \in Thread : Untold(w)'
<1>1. OnCurrent(u)' <=> OnCurrent(u)
  BY DEF OnCurrent
<1>2. machine' = machine /\ (Orphan' => Orphan)
  BY GuardFrame, OrphanStep
<1>3. \A w \in Thread : Untold(w) => Untold(w)'
  BY UntoldStep
<1> QED
  BY <1>1, <1>2, <1>3 DEF MachineKnown

LEMMA KnownStep ==
  ASSUME IInv, AuditInv, GuardInv, NEW t \in Thread,
         Mutation(t) \/ RunCommand(t) \/ Read(t) \/ LockTool(t)
  PROVE  MachineKnown'
<1>1. /\ TypeOK /\ LocalsOK /\ MachineKnown /\ SeenOK /\ gen \in Nat
      /\ basis \in [Thread -> BasisType] /\ \A u \in Thread : basis[u].gen \in Nat
  BY DEF GuardInv, IInv, TypeOK, BasisType
<1>2. CASE Advance(t) \/ (Resynchronize(t) /\ unknown)
  <2>1. gen' = gen + 1 /\ basis' = basis
    BY <1>2 DEF Advance, Resynchronize, clientVars
  <2>2. \A u \in Thread : basis'[u].gen <= gen' /\ basis'[u].gen # gen'
    BY <1>1, <2>1 DEF MachineKnown
  <2> QED
    BY <2>2 DEF MachineKnown, OnCurrent
<1>3. CASE FailAmbiguous(t)
  BY <1>1, <1>3 DEF FailAmbiguous, clientVars, MachineKnown
<1>4. CASE ~Advance(t) /\ ~FailAmbiguous(t) /\ ~(Resynchronize(t) /\ unknown)
  <2>1. UNCHANGED <<gen, unknown>>
    <3>1. CASE Resynchronize(t)
      BY <1>1, <1>4, <3>1 DEF Resynchronize, TypeOK
    <3>2. CASE RecordLanded(t)
      BY <3>2 DEF RecordLanded, targetVars
    <3>3. CASE ~Resynchronize(t) /\ ~RecordLanded(t)
      BY <1>1, <1>4, <3>3, NeutralSteps DEF Neutral, Mutation, RunCommand, Read, LockTool
    <3> QED
      BY <3>1, <3>2, <3>3
  <2>2. ASSUME NEW u \in Thread, basis'[u] = basis[u]
        PROVE  /\ basis'[u].gen <= gen'
               /\ OnCurrent(u)' /\ ~unknown' =>
                    /\ ~Orphan'
                    /\ machine' = basis'[u].seen \/ \E w \in Thread : Untold(w)'
    BY <1>1, <1>4, <2>1, <2>2, KnownStays
  <2>3. CASE RecordLanded(t)
    <3>1. /\ basis'[t] = [gen |-> job[t].after, seen |-> job[t].seen, by |-> job[t].kind]
          /\ pc[t] = "record" /\ machine' = machine /\ job[t].after <= gen
      BY <1>1, <2>3 DEF RecordLanded, LocalsOK, LocalOK
    <3>2. job[t].kind = "mutation" => job[t].seen = machine /\ ~Orphan'
      BY <1>1, <1>4, <3>1, OrphanStep DEF SeenOK, DoneStep
    <3>3. \A u \in Thread \ {t} : basis'[u] = basis[u]
      BY GuardFrame
    <3> QED
      BY <2>1, <2>2, <3>1, <3>2, <3>3 DEF MachineKnown, OnCurrent
  <2>4. CASE Stamp(t)
    <3>1. basis'[t].gen = gen /\ basis'[t].by = "read"
      BY <1>1, <2>4 DEF Stamp
    <3>2. \A u \in Thread \ {t} : basis'[u] = basis[u]
      BY GuardFrame
    <3> QED
      BY <1>1, <2>1, <2>2, <3>1, <3>2 DEF MachineKnown, OnCurrent
  <2>5. CASE ~RecordLanded(t) /\ ~Stamp(t)
    <3>1. \A u \in Thread : basis'[u] = basis[u]
      BY <2>5, GuardFrame
    <3> QED
      BY <2>2, <3>1 DEF MachineKnown
  <2> QED
    BY <2>3, <2>4, <2>5
<1> QED
  BY <1>2, <1>3, <1>4

LEMMA KeptStep ==
  ASSUME IInv, AuditInv, GuardKept, NEW t \in Thread,
         Mutation(t) \/ RunCommand(t) \/ Read(t) \/ LockTool(t)
  PROVE  GuardKept'
<1>1. /\ TypeOK /\ LocalsOK /\ EffectsOK /\ gen \in Nat /\ unknown \in BOOLEAN
      /\ DOMAIN pc = Thread /\ job \in [Thread -> JobType] /\ basis \in [Thread -> BasisType]
      /\ NoJob.kind = "none"
  BY CallFields DEF IInv, AuditInv, TypeOK
<1> DEFINE Kept(u) ==
      /\ pc[u] \notin RestStep /\ job[u].kind = "mutation" =>
           job[u].expected \in {NoGeneration, basis[u].gen}
      /\ pc[u] = "check" => job[u].raced \/ job[u].current = gen
      /\ pc[u] \in GuardedStep /\ job[u].kind = "mutation" /\ job[u].expected # NoGeneration =>
           job[u].raced \/ (~unknown /\ job[u].expected = gen)
<1>2. ASSUME NEW u \in Thread \ {t} PROVE Kept(u)'
  <2>1. /\ Kept(u) /\ pc'[u] = pc[u] /\ basis'[u] = basis[u] /\ job'[u].kind = job[u].kind
        /\ job'[u].expected = job[u].expected /\ job'[u].current = job[u].current
        /\ job[u].raced => job'[u].raced
    BY GuardFrame DEF GuardKept
  <2>2. CASE Resynchronize(t) /\ unknown
    <3>1. pc[u] = "check" => job'[u].raced
      BY <1>1, <2>2 DEF Resynchronize, JobType
    <3> QED
      BY <2>1, <2>2, <3>1 DEF GuardedStep
  <2>3. CASE UNCHANGED <<gen, unknown>>
    BY <2>1, <2>3
  <2>4. CASE Advance(t) \/ FailAmbiguous(t)
    <3>1. ~Holding(u)
      BY <1>1, <2>4 DEF Advance, FailAmbiguous, LocalsOK, LocalOK, Holding, MutationStep, SharedStep
    <3>2. pc[u] # "check" /\ ~(pc[u] \in GuardedStep /\ job[u].kind = "mutation")
      BY <3>1 DEF Holding, MutationStep, SharedStep, GuardedStep
    <3> QED
      BY <2>1, <3>2
  <2>5. CASE ~Advance(t) /\ ~FailAmbiguous(t) /\ ~(Resynchronize(t) /\ unknown)
    <3>1. CASE Resynchronize(t)
      BY <1>1, <2>3, <2>5, <3>1 DEF Resynchronize
    <3>2. CASE RecordLanded(t)
      BY <2>3, <3>2 DEF RecordLanded, targetVars
    <3>3. CASE ~Resynchronize(t) /\ ~RecordLanded(t)
      BY <1>1, <2>3, <2>5, <3>3, NeutralSteps DEF Neutral, Mutation, RunCommand, Read, LockTool
    <3> QED
      BY <3>1, <3>2, <3>3
  <2> QED
    BY <2>2, <2>4, <2>5
<1>3. Kept(t)'
  <2>1. Kept(t) /\ LocalOK(t)
    BY <1>1 DEF GuardKept, LocalsOK
  <2> USE <1>1, <2>1 DEF Goto, Finish, Leave, RestStep, GuardedStep, targetVars, clientVars
  <2>2. CASE StartMutation(t)
    <3>1. /\ pc'[t] = "want" /\ basis' = basis
          /\ job'[t].expected \in {NoGeneration, basis[t].gen}
      BY <2>2 DEF StartMutation, Call
    <3> QED
      BY <3>1
  <2>3. CASE EnterScheduler(t)
    BY <2>3 DEF EnterScheduler, LocalOK
  <2>4. CASE CheckGeneration(t)
    BY <2>4 DEF CheckGeneration, Refuses
  <2>5. CASE CheckActive(t) \/ Prepare(t)
    BY <2>5 DEF CheckActive, Prepare
  <2>6. CASE CheckValid(t)
    BY <2>6 DEF CheckValid
  <2>7. CASE ApplyLocally(t)
    <3>1. pc'[t] = "advance" /\ job'[t].kind = "local"
      BY <2>7 DEF ApplyLocally
    <3> QED
      BY <3>1
  <2>8. CASE FailAmbiguous(t) \/ FailProvably(t) \/ RecordLanded(t)
    BY <2>8 DEF FailAmbiguous, FailProvably, RecordLanded
  <2>9. CASE Advance(t)
    <3>1. /\ pc[t] = "advance" /\ pc'[t] = "record" /\ basis' = basis
          /\ job'[t].kind = job[t].kind /\ job'[t].expected = job[t].expected
      BY <2>9 DEF Advance
    <3> QED
      BY <3>1
  <2>10. CASE Receive(t)
    <3>1. /\ pc[t] = "await" /\ pc'[t] \in {"failed", "advance", "resync", "ambiguous"} /\ basis' = basis
          /\ job'[t].kind = job[t].kind /\ job'[t].expected = job[t].expected
      BY <2>10 DEF Receive, AwaitsReply
    <3> QED
      BY <3>1
  <2>11. CASE StatusUnavailable(t) \/ StatusUnsupported(t) \/ Send(t) \/ DialFails(t) \/ GiveUp(t)
    BY <2>11 DEF StatusUnavailable, StatusUnsupported, Send, DialFails, GiveUp, AwaitsReply
  <2>12. CASE StartRead(t)
    <3>1. pc'[t] = "status" /\ job'[t].kind = "read"
      BY <2>12, CallFields DEF StartRead
    <3> QED
      BY <3>1
  <2>13. CASE Resynchronize(t)
    <3>1. pc[t] = "resync" /\ pc'[t] = "stamp" /\ job'[t] = job[t]
      BY <2>13 DEF Resynchronize
    <3>2. job'[t].kind = "read"
      BY <3>1 DEF EffectsOK
    <3> QED
      BY <3>1, <3>2
  <2>14. CASE Stamp(t) \/ ReadFails(t)
    BY <2>14 DEF Stamp, ReadFails
  <2>15. CASE MeetExpired(t) \/ RunHook(t)
    BY <2>15 DEF MeetExpired, RunHook, ToolFrame
  <2>16. CASE AcquireTool(t) \/ RecordAcquired(t) \/ RenewTool(t) \/ RecordRenewed(t) \/ ResumeLook(t)
    BY <2>16 DEF AcquireTool, RecordAcquired, RenewTool, RecordRenewed, ResumeLook
  <2>17. CASE ReleaseTool(t) \/ CloseContext(t)
    BY <2>17 DEF ReleaseTool, CloseContext, ToolFrame
  <2> QED
    BY <2>2, <2>3, <2>4, <2>5, <2>6, <2>7, <2>8, <2>9, <2>10, <2>11, <2>12, <2>13, <2>14, <2>15,
       <2>16, <2>17 DEF Mutation, RunCommand, Read, LockTool
<1> QED
  BY <1>2, <1>3 DEF GuardKept

\* The plugin runs a command: its call is untold, for it was no orphan.
LEMMA ExecuteKnown ==
  ASSUME IInv, AuditInv, GuardInv, Execute
  PROVE  GuardInv'
<1>1. /\ PipeOK /\ LocalsOK /\ pipe \in PipeType /\ pipe.by \in Thread /\ pipe.result = "pending"
      /\ pipe # None /\ UNCHANGED <<pc, job, basis, gen, unknown, sched>>
  BY DEF AuditInv, IInv, TypeOK, PipeType, Execute, clientVars, targetVars
<1>2. PICK r \in {"ok", "error", "partial"} : pipe' = [pipe EXCEPT !.result = r, !.seen = machine']
  BY DEF Execute
<1>3. /\ pipe'.by = pipe.by /\ pipe'.op = pipe.op /\ pipe'.kind = pipe.kind /\ pipe'.left = pipe.left
      /\ pipe'.control = pipe.control /\ pipe' # None
  <2>1. /\ pipe'.by = pipe.by /\ pipe'.op = pipe.op /\ pipe'.kind = pipe.kind /\ pipe'.left = pipe.left
        /\ pipe'.control = pipe.control
    BY <1>1, <1>2 DEF PipeType
  <2>2. pipe' \in PipeType
    <3>1. machine' \in Nat
      <4>1. machine' \in {machine, machine + 1} /\ machine \in Nat
        BY DEF Execute, IInv, TypeOK
      <4> QED
        BY <4>1
    <3> QED
      BY <1>1, <1>2, <3>1 DEF PipeType
  <2> QED
    BY <2>1, <2>2, ConnectionAssumption
<1>4. Withdrawn' <=> Withdrawn
  BY <1>1, <1>3 DEF Withdrawn
<1>5. Orphan' <=> Orphan
  BY <1>1, <1>3, <1>4 DEF Orphan
<1>6. \A w \in Thread : Untold(w) => Untold(w)'
  BY <1>1 DEF Untold, PipeOK
<1>7. ~Orphan /\ pipe.kind = "mutation" => Holding(pipe.by) /\ pc[pipe.by] \in {"await", "ambiguous"}
                                           /\ job[pipe.by].kind = "mutation"
  BY <1>1 DEF Orphan, Withdrawn, PipeOK, Holding, SharedStep
<1>8. SeenOK'
  <2>1. ASSUME NEW t \in Thread, pc[t] \in DoneStep, job[t].kind = "mutation"
        PROVE  machine' = machine
    <3>1. Holding(t) /\ ~Orphan
      BY <2>1 DEF GuardInv, SeenOK, Holding, MutationStep, DoneStep
    <3>2. pipe.kind # "mutation"
      BY <1>1, <1>7, <2>1, <3>1 DEF LocalsOK, LocalOK, DoneStep
    <3> QED
      BY <3>2 DEF Execute
  <2> QED
    BY <1>1, <1>5, <2>1 DEF GuardInv, SeenOK
<1>9. MachineKnown'
  <2>1. ASSUME NEW t \in Thread, OnCurrent(t), ~unknown, machine' # machine
        PROVE  \E w \in Thread : Untold(w)'
    <3>1. pipe.kind = "mutation" /\ ~Orphan
      BY <2>1 DEF Execute, GuardInv, MachineKnown
    <3>2. pipe'.result \in {"ok", "partial"}
      BY <2>1, <3>1, <1>1 DEF Execute, PipeType
    <3>3. Untold(pipe.by)'
      <4>1. pipe'.by = pipe.by /\ pc' = pc /\ job' = job
        BY <1>1, <1>3
      <4>2. \/ pc'[pipe.by] = "await" /\ job'[pipe.by].kind = "mutation"
            \/ pc'[pipe.by] = "ambiguous" /\ job'[pipe.by].kind = "mutation"
        BY <1>7, <3>1, <4>1
      <4> QED
        BY <3>2, <4>1, <4>2 DEF Untold
    <3> QED
      BY <1>1, <1>3, <3>3
  <2> QED
    BY <1>1, <1>5, <1>6, <2>1 DEF GuardInv, MachineKnown, OnCurrent
<1>10. GuardKept'
  BY <1>1 DEF GuardInv, GuardKept
<1> QED
  BY <1>8, <1>9, <1>10 DEF GuardInv

LEMMA GuardStep == ASSUME IInv, AuditInv, GuardInv, [Next]_vars PROVE GuardInv'
<1>1. ASSUME NEW t \in Thread, Mutation(t) \/ RunCommand(t) \/ Read(t) \/ LockTool(t)
      PROVE  GuardInv'
  BY <1>1, SeenStep, KnownStep, KeptStep DEF GuardInv
<1>2. CASE Disconnect
  <2>1. UNCHANGED <<pc, job, basis, gen, unknown, machine>> /\ pipe' = None /\ pipe # None /\ pipe.left
    BY <1>2 DEF Disconnect, clientVars, targetVars
  <2>2. \A w \in Thread : Untold(w) => Untold(w)'
    BY <2>1 DEF Untold, AuditInv, PipeOK
  <2> QED
    BY <2>1, <2>2 DEF Orphan, GuardInv, SeenOK, MachineKnown, OnCurrent, GuardKept
<1>3. CASE (\E i \in ControlId : TtlPasses(i)) \/ UNCHANGED vars
  <2>1. UNCHANGED <<pc, job, basis, gen, unknown, machine, pipe>>
    BY <1>3 DEF TtlPasses, ToolFrame, targetVars, vars
  <2>2. (Orphan' <=> Orphan) /\ \A w \in Thread : Untold(w) => Untold(w)'
    BY <2>1 DEF Orphan, Withdrawn, Untold
  <2> QED
    BY <2>1, <2>2 DEF GuardInv, SeenOK, MachineKnown, OnCurrent, GuardKept
<1> QED
  BY <1>1, <1>2, <1>3, ExecuteKnown DEF Next, NoMoreCalls

LEMMA GuardInductive == Spec => []GuardInv
<1>1. Init => GuardInv
  BY DEF Init, GuardInv, SeenOK, MachineKnown, OnCurrent, Orphan, GuardKept, DoneStep, GuardedStep,
         RestStep
<1>2. IInv /\ AuditInv /\ GuardInv /\ [Next]_vars => GuardInv'
  BY GuardStep
<1> QED
  BY <1>1, <1>2, Inductive, AuditInductive, PTL DEF Spec

\* The generation guard is sound at the machine: a mutation guarded by the
\* generation an earlier native mutation of the caller returned runs on the
\* machine that mutation left, whatever failed, was lost or came late in
\* between, unless a resynchronisation came between its two looks at the target.
THEOREM GuardIsSound == Spec => []WriteGuardSound
<1>1. IInv /\ GuardInv => WriteGuardSound
  <2> SUFFICES ASSUME IInv, GuardInv, NEW t \in Thread, GuardedInFlight(t),
                      basis[t].by = "mutation", ~job[t].raced
               PROVE  machine = basis[t].seen
    BY DEF WriteGuardSound
  <2>1. pc[t] = "await" /\ pipe.result = "pending" /\ job[t].kind = "mutation" /\ job[t].expected # NoGeneration
    BY DEF GuardedInFlight
  <2>2. ~unknown /\ OnCurrent(t)
    BY <2>1 DEF GuardInv, GuardKept, GuardedStep, RestStep, OnCurrent
  <2>3. \A u \in Thread : ~Untold(u)
    <3>1. \A u \in Thread : Untold(u) => u = t
      BY <2>1 DEF Untold, Holding, MutationStep, SharedStep, IInv, LocalsOK, LocalOK
    <3> QED
      BY <2>1, <3>1 DEF Untold
  <2> QED
    BY <2>2, <2>3 DEF GuardInv, MachineKnown
<1> QED
  BY <1>1, Inductive, GuardInductive, PTL

=============================================================================
