-------------------------- MODULE ControlRegistry --------------------------
(***************************************************************************)
(* The process-wide exclusive control lock (internal/analysis/target.go).  *)
(*                                                                         *)
(* A method of the registry runs under registry.mu, with one exception     *)
(* that shapes the whole module: dropLocked clears the lock, UNLOCKS the   *)
(* mutex while the drop hook writes the audit stream, and locks it again   *)
(* before the method continues. A thread between those two points is in    *)
(* "hook" and then "relock"; any other thread may run whole methods there. *)
(* When the drop was the lazy expiry of activeLocked, the interrupted      *)
(* method then goes on with the answer "no live lock" that activeLocked    *)
(* settled on before the mutex was released.                               *)
(*                                                                         *)
(* The actions take the thread that runs them; which method a thread is in *)
(* is the business of the module that composes this one.                   *)
(***************************************************************************)
EXTENDS Integers, Sequences, FiniteSets

CONSTANTS
  Thread,      \* goroutines serving tool calls
  ControlId,   \* the capability tokens newControlID can draw
  None         \* nil

ASSUME NoneAssumption == None \notin Thread \cup ControlId

VARIABLES
  lock,    \* registry.lock: the id of the installed lock, or None
  window,  \* per id, what became of its control window (see Fate)
  drop,    \* per thread, the drop whose hook it is running
  audit    \* the entries of the global target audit stream, oldest first

registryVars == <<lock, window, drop>>

\* "open" runs until ExpiresAt passes ("expired"); dropLocked ends it. The two
\* are facts about the lock object, whether or not the registry still holds it.
Fate == {"unissued", "open", "expired", "ended"}

NoDrop == [phase |-> "none", id |-> None, reason |-> "none"]

DropReason == {"ttl_expired", "caller_released", "bridge_unavailable", "context_closed"}

LockEvent == [outcome : {"lock_event"}, event : {"lock_ended"},
              control : ControlId, reason : DropReason]
             \cup [outcome : {"lock_event"}, event : {"lock_acquired", "lock_renewed"},
                   control : ControlId]

DropType == {NoDrop} \cup [phase : {"hook", "relock"}, id : ControlId, reason : DropReason]

RegistryTypeOK ==
  /\ lock \in ControlId \cup {None}
  /\ window \in [ControlId -> Fate]
  /\ drop \in [Thread -> DropType]

RegistryInit ==
  /\ lock = None
  /\ window = [i \in ControlId |-> "unissued"]
  /\ drop = [t \in Thread |-> NoDrop]

-----------------------------------------------------------------------------
(* Time: ExpiresAt passes for a lock somebody was given.                    *)
Expire(i) ==
  /\ window[i] = "open"
  /\ window' = [window EXCEPT ![i] = "expired"]
  /\ UNCHANGED <<lock, drop, audit>>

LockExpired == lock # None /\ window[lock] = "expired"

\* Mutant of DropLocked: the lock ends without its hook.
DropSilently(t, reason) ==
  /\ UNCHANGED drop
  /\ window' = [window EXCEPT ![lock] = "ended"]
  /\ lock' = None

\* dropLocked: the lock is gone before the hook runs.
DropLocked(t, reason) ==
  /\ drop' = [drop EXCEPT ![t] = [phase |-> "hook", id |-> lock, reason |-> reason]]
  /\ window' = [window EXCEPT ![lock] = "ended"]
  /\ lock' = None

\* activeLocked met an expired lock: the method is suspended in the hook.
DropExpired(t) ==
  /\ drop[t] = NoDrop
  /\ LockExpired
  /\ DropLocked(t, "ttl_expired")
  /\ UNCHANGED audit

\* The hook installed by New: one lock_ended entry. A method that drops a lock
\* as its own effect returns after it; one suspended in activeLocked resumes.
Hook(t) ==
  /\ drop[t].phase = "hook"
  /\ audit' = Append(audit, [outcome |-> "lock_event", event |-> "lock_ended",
                             control |-> drop[t].id, reason |-> drop[t].reason])
  /\ drop' = [drop EXCEPT ![t] = IF @.reason = "ttl_expired"
                                 THEN [@ EXCEPT !.phase = "relock"] ELSE NoDrop]
  /\ UNCHANGED <<lock, window>>

\* What activeLocked answers to the rest of the method, once it has answered.
Settled(t) == drop[t].phase = "relock" \/ (drop[t] = NoDrop /\ ~LockExpired)
Found(t)   == IF drop[t].phase = "relock" THEN None ELSE lock

Return(t) == drop' = [drop EXCEPT ![t] = NoDrop]

-----------------------------------------------------------------------------
(* Methods. Each is the part of the method after activeLocked, in the case  *)
(* that changes something: a refused Acquire, Renew or Release, and the     *)
(* answers of Active and Valid, leave the registry as Look does.            *)

\* Acquire installs its lock over whatever registry.lock holds NOW: the check
\* against an incumbent is the answer activeLocked gave.
Acquire(t, i) ==
  /\ Settled(t)
  /\ Found(t) = None
  /\ window[i] = "unissued"
  /\ lock' = i
  /\ window' = [window EXCEPT ![i] = "open"]
  /\ Return(t)

\* Renew keeps the live window open past its old deadline.
Renew(t, i) ==
  /\ Settled(t)
  /\ Found(t) = i
  /\ Return(t)
  /\ UNCHANGED <<lock, window>>

\* Mutant of Release: the nil check is missing.
ReleaseUnchecked(t, i, reason) ==
  /\ drop[t] = NoDrop
  /\ lock \in {i, None}
  /\ DropLocked(t, reason)

\* Release looks at registry.lock itself, expired or not.
Release(t, i, reason) ==
  /\ drop[t] = NoDrop
  /\ lock = i
  /\ DropLocked(t, reason)

\* DropIf(match, reason) with a match of the ids in S.
DropIf(t, S, reason) ==
  /\ Settled(t)
  /\ IF Found(t) \in S
     THEN DropLocked(t, reason)
     ELSE Return(t) /\ UNCHANGED <<lock, window>>

\* Active and Valid only read: the composing action uses their answers.
Active(t) == Found(t)
Valid(t, i) == Found(t) = i /\ i # None

Look(t) ==
  /\ Settled(t)
  /\ Return(t)
  /\ UNCHANGED <<lock, window>>
=============================================================================
