-------------------------- MODULE RevisionHistory --------------------------
(***************************************************************************)
(* What the scheduler promises about target_generation, without threads,   *)
(* locks, a pipe or an audit stream: the revisions of the machine form one *)
(* line. Each mutation that landed goes from a revision no earlier than    *)
(* the one the previous landed mutation ended in to a revision nobody was  *)
(* given before; a revision that was lost is never handed out again, a     *)
(* successful observation opens a new one.                                 *)
(***************************************************************************)
EXTENDS Integers

VARIABLES
  revision,  \* the newest revision
  known,     \* whether it can be trusted
  landings   \* the landed mutations, as [before, after] pairs

Init == revision = 1 /\ known = TRUE /\ landings = {}

Land ==
  /\ \E b \in 1..revision :
       /\ \A l \in landings : l.after <= b
       /\ landings' = landings \cup {[before |-> b, after |-> revision + 1]}
  /\ revision' = revision + 1
  /\ known' = TRUE

Lose ==
  /\ known' = FALSE
  /\ UNCHANGED <<revision, landings>>

Observe ==
  /\ ~known
  /\ known' = TRUE
  /\ revision' = revision + 1
  /\ UNCHANGED landings

Next == Land \/ Lose \/ Observe

Spec == Init /\ [][Next]_<<revision, known, landings>>
=============================================================================
