--------------------------- MODULE WorkspaceProofs ----------------------------
(***************************************************************************)
(* The workspace for any number of threads, contexts and ids: the types,   *)
(* and one lemma for each part of the inductive invariant. The artifact    *)
(* store comes first, then annotations, contexts, prunes and snapshots;    *)
(* together the parts are inductive and imply the properties.              *)
(***************************************************************************)
EXTENDS Workspace, ListLemmas, TLAPS

Working(t, c) == call[t].op # "idle" /\ call[t].context = c
Writing(t) == call[t].op \in {"entry", "composeEntry"}
Pruning(t) == call[t].op \in {"pruneArtifacts", "pruneStates"}
Owner == Context \cup {None}

\* The ids a call carries from one step to the next are of the kind the step expects.
CarriedIds ==
  \A t \in Thread :
    /\ Writing(t) \/ At(t, "register") => call[t].id \in Artifact
    /\ At(t, "record") \/ At(t, "unlink") => call[t].id \in Snapshot

TypeInv == WorkspaceTypeOK /\ CarriedIds /\ contextsFile[Default] = "open"

\* Whatever has been seen of an id, it was generated before.
UsedInv ==
  /\ files \subseteq used /\ removed \subseteq used
  /\ \A a \in Artifact : index.artifacts[a] # None => a \in used
  /\ \A c \in Context : c \notin used =>
       /\ contexts[c] = "absent" /\ contextsFile[c] = "absent" /\ said[c] = "nothing"
       /\ snapshots[c] = <<>> /\ \A n \in Note : <<c, n>> \notin promised
  /\ \A t \in Thread : call[t].op # "idle" => call[t].context \in used
  /\ \A t \in Thread : At(t, "record") \/ At(t, "unlink") => call[t].id \in used
  /\ \A c \in Context : \A i \in 1..Len(snapshots[c]) : snapshots[c][i] \in used

\* An artifact being stored has its bytes and no entry yet, and one call stores it.
BytesInv ==
  /\ Stored \subseteq files
  /\ \A t \in Thread : Writing(t) => call[t].id \in files /\ artifacts[call[t].id] = None
  /\ \A t, u \in Thread : Writing(t) /\ Writing(u) /\ t # u => call[t].id # call[u].id

\* The document knows of a file what the memory knows, or nothing.
IndexInv ==
  \A a \in files : index.artifacts[a] \in {None, artifacts[a]}

RemovedInv == removed \cap files = {} /\ removed \subseteq Artifact

PromisedInv ==
  \A a \in promised \cap Artifact : artifacts[a] # None /\ index.artifacts[a] # None

\* The artifacts that can be recovered, or were removed.
KeptParts == {a \in Artifact : Recovered[a] # None \/ a \in removed}

CapturesInv ==
  /\ \A t \in Thread : At(t, "register") => call[t].id \in KeptParts
  /\ \A k \in Capture :
       /\ captures[k].parts \cup index.captures[k].parts \subseteq KeptParts
       /\ k \in promised => captures[k] # NoCapture /\ index.captures[k] # NoCapture

NotesInv ==
  \A c \in Context, n \in Note :
    <<c, n>> \in promised /\ (contexts[c] # "absent" \/ contextsFile[c] # "absent") =>
      n \in notes[c] /\ notesFile[c] # None /\ n \in notesFile[c]

SaidInv ==
  /\ \A c \in Context :
       /\ said[c] = "open"   => contexts[c] # "absent" /\ contextsFile[c] # "absent"
       /\ said[c] = "closed" => contexts[c] # "open" /\ contextsFile[c] # "open"
       /\ said[c] = "pruned" => contexts[c] = "absent" /\ contextsFile[c] = "absent"
  /\ \A t \in Thread : At(t, "created") /\ said[call[t].context] = "nothing" =>
       contexts[call[t].context] # "absent"

PruningAbsent ==
  \A t \in Thread : Pruning(t) => contexts[call[t].context] = "absent"

\* What is left of a context an undisturbed prune has answered for: one call may still
\* work on it, and what that call has done is gone.
Pruned(c) ==
  /\ \A t \in Thread : Working(t, c) => Pruning(t)
  /\ \A t, u \in Thread : Working(t, c) /\ Working(u, c) => t = u
  /\ notesFile[c] = None
  /\ (\A t \in Thread : Working(t, c) => ~At(t, "pruneArtifacts")) =>
       \A a \in Artifact : artifacts[a] # c /\ Recovered[a] # c
  /\ (\A t \in Thread : ~Working(t, c)) => stateFiles[c] = {}

PruneInv == \A c \in Context : said[c] = "pruned" /\ c \notin disturbed => Pruned(c)

\* The records of a context name distinct files that are there; a file about to be
\* recorded or removed has no record.
SnapshotInv ==
  /\ \A c \in Context : \A i, j \in 1..Len(snapshots[c]) :
       snapshots[c][i] = snapshots[c][j] => i = j
  /\ SnapshotsReadable
  /\ \A t \in Thread, c \in Context :
       At(t, "record") \/ (At(t, "unlink") /\ call[t].context = c) =>
         \A i \in 1..Len(snapshots[c]) : snapshots[c][i] # call[t].id
  /\ \A t, u \in Thread :
       At(t, "record") /\ (At(u, "record") \/ At(u, "unlink")) /\ t # u => call[t].id # call[u].id

WInv ==
  /\ TypeInv /\ UsedInv /\ BytesInv /\ IndexInv /\ RemovedInv /\ PromisedInv /\ CapturesInv
  /\ NotesInv /\ SaidInv /\ PruningAbsent /\ PruneInv /\ SnapshotInv

-----------------------------------------------------------------------------
(* Types.                                                                   *)

\* The eviction keeps a list within the limit, and every record of it is of the list.
LEMMA NewestProperties ==
  ASSUME NEW S, NEW s \in Seq(S), NEW n \in Nat \ {0}
  PROVE  /\ Newest(s, n) \in Seq(S)
         /\ Len(Newest(s, n)) <= n
         /\ \E skipped \in Nat : \A i \in 1..Len(Newest(s, n)) :
              i + skipped \in 1..Len(s) /\ Newest(s, n)[i] = s[i + skipped]
<1>1. Len(s) \in Nat /\ \A j \in 1..Len(s) : s[j] \in S
  BY ElementOfSeq, LenProperties
<1> DEFINE first == IF Len(s) > n THEN Len(s) - n + 1 ELSE 1
<1>2. first \in Nat \ {0} /\ Len(s) - first + 1 <= n
  BY <1>1
<1>3. \A j \in first..Len(s) : s[j] \in S
  BY <1>1, <1>2
<1>4. Newest(s, n) = SubSeq(s, first, Len(s))
  BY DEF Newest
<1> HIDE DEF first
<1>5. /\ SubSeq(s, first, Len(s)) \in Seq(S)
      /\ Len(SubSeq(s, first, Len(s))) = IF first <= Len(s) THEN Len(s) - first + 1 ELSE 0
      /\ \A i \in 1..Len(s) - first + 1 : SubSeq(s, first, Len(s))[i] = s[first + i - 1]
  BY <1>1, <1>2, <1>3, SubSeqProperties
<1>6. \A i \in 1..Len(Newest(s, n)) :
        i + (first - 1) \in 1..Len(s) /\ Newest(s, n)[i] = s[i + (first - 1)]
  BY <1>1, <1>2, <1>4, <1>5
<1>7. first - 1 \in Nat
  BY <1>2
<1>8. Newest(s, n) \in Seq(S) /\ Len(Newest(s, n)) <= n
  BY <1>1, <1>2, <1>4, <1>5
<1> QED
  BY <1>6, <1>7, <1>8

LEMMA CallTypes ==
  ASSUME TypeInv, NEW t \in Thread
  PROVE  call[t] \in CallRecord /\ call[t].context \in Context
BY DEF TypeInv, WorkspaceTypeOK, CallRecord

\* What Becomes and Ends do to the calls.
LEMMA Moves ==
  ASSUME TypeInv, NEW t \in Thread, NEW op, NEW id, Becomes(t, op, id)
  PROVE  /\ call'[t] = [op |-> op, context |-> call[t].context, id |-> id]
         /\ \A u \in Thread \ {t} : call'[u] = call[u]
BY CallTypes DEF Becomes, TypeInv, WorkspaceTypeOK, CallRecord

LEMMA Returns ==
  ASSUME TypeInv, NEW t \in Thread, Ends(t)
  PROVE  call'[t] = Idle /\ \A u \in Thread \ {t} : call'[u] = call[u]
BY DEF Ends, TypeInv, WorkspaceTypeOK

\* A call goes on to its next step, or ends.
LEMMA CallStep ==
  ASSUME TypeInv, NEW t \in Thread,
         \/ \E op \in {"entry", "composeEntry", "register"}, id \in Artifact : Becomes(t, op, id)
         \/ \E op \in {"record", "unlink"}, id \in Snapshot : Becomes(t, op, id)
         \/ Becomes(t, "pruneStates", None)
         \/ Ends(t)
  PROVE  call' \in [Thread -> CallRecord] /\ CarriedIds'
<1>1. DOMAIN call' = Thread /\ call' = [u \in Thread |-> call'[u]]
  BY DEF Becomes, Ends, TypeInv, WorkspaceTypeOK
<1>2. /\ call'[t] \in CallRecord
      /\ call'[t].op \in {"entry", "composeEntry", "register"} => call'[t].id \in Artifact
      /\ call'[t].op \in {"record", "unlink"} => call'[t].id \in Snapshot
  <2> USE CallTypes, WorkspaceAssumption DEF CallRecord, FirstOps, LaterOps, Idle
  <2>1. CASE \E op \in {"entry", "composeEntry", "register"}, id \in Artifact : Becomes(t, op, id)
    <3>1. PICK op \in {"entry", "composeEntry", "register"}, id \in Artifact : Becomes(t, op, id)
      BY <2>1
    <3>2. call'[t] = [op |-> op, context |-> call[t].context, id |-> id]
      BY <3>1, Moves
    <3> QED
      BY <3>2
  <2>2. CASE \E op \in {"record", "unlink"}, id \in Snapshot : Becomes(t, op, id)
    <3>1. PICK op \in {"record", "unlink"}, id \in Snapshot : Becomes(t, op, id)
      BY <2>2
    <3>2. call'[t] = [op |-> op, context |-> call[t].context, id |-> id]
      BY <3>1, Moves
    <3> QED
      BY <3>2
  <2>3. CASE Becomes(t, "pruneStates", None)
    <3>1. call'[t] = [op |-> "pruneStates", context |-> call[t].context, id |-> None]
      BY <2>3, Moves
    <3> QED
      BY <3>1
  <2>4. CASE Ends(t)
    BY <2>4, Returns
  <2> QED
    BY <2>1, <2>2, <2>3, <2>4
<1>3. \A u \in Thread \ {t} : call'[u] = call[u] /\ call[u] \in CallRecord
  <2>1. PICK op, id : Becomes(t, op, id) \/ Ends(t)
    OBVIOUS
  <2> QED
    BY <2>1, CallTypes, Moves, Returns
<1> QED
  BY <1>1, <1>2, <1>3 DEF TypeInv, CarriedIds, Writing, At

LEMMA WithoutTypes ==
  ASSUME StoreTypeOK, NEW gone
  PROVE  /\ Without(artifacts, gone, None) \in [Artifact -> Context \cup {None}]
         /\ Without(captures, gone, NoCapture) \in [Capture -> CaptureRecord]
BY DEF Without, StoreTypeOK, CaptureRecord, NoCapture

LEMMA TypeStep ==
  ASSUME TypeInv, [WorkspaceNext]_workVars
  PROVE  TypeInv'
<1> USE IdAssumption, WorkspaceAssumption
<1>1. ASSUME NEW t \in Thread, NEW c \in Context, NEW op \in FirstOps, Resolve(t, c, op)
      PROVE  TypeInv'
  BY <1>1
  DEF Resolve, TypeInv, WorkspaceTypeOK, StoreTypeOK, CaptureRecord, CallRecord, CarriedIds,
      Writing, At, FirstOps, LaterOps, storeVars, registryVars, noteVars, stateVars
<1>2. ASSUME NEW t \in Thread, PutBytes(t)
      PROVE  TypeInv'
  <2>1. PICK a \in Artifact \ used, ok \in BOOLEAN :
          \/ Becomes(t, "entry", a) \/ Becomes(t, "composeEntry", a) \/ Ends(t)
    BY <1>2 DEF PutBytes
  <2>2. StoreTypeOK'
    BY <1>2, <2>1 DEF PutBytes, WriteBytes, TypeInv, WorkspaceTypeOK, StoreTypeOK
  <2>3. UNCHANGED <<registryVars, noteVars, stateVars, said>>
    BY <1>2 DEF PutBytes
  <2>8. call' \in [Thread -> CallRecord] /\ CarriedIds'
    BY <2>1, <2>2, <2>3, CallStep
  <2> QED
    BY <2>1, <2>2, <2>3, <2>8
    DEF TypeInv, WorkspaceTypeOK, StoreTypeOK, registryVars, noteVars, stateVars
<1>3. ASSUME NEW t \in Thread, PutEntry(t)
      PROVE  TypeInv'
  <2>1. /\ Writing(t) /\ call[t].id \in Artifact
        /\ Becomes(t, "register", call[t].id) \/ Ends(t)
    BY <1>3 DEF PutEntry, TypeInv, CarriedIds, Writing
  <2>2. PICK ok \in BOOLEAN : RegisterArtifact(call[t].id, call[t].context, ok)
    BY <1>3 DEF PutEntry
  <2>3. StoreTypeOK'
    <3>1. call[t].context \in Context
      BY CallTypes
    <3>2. artifacts' \in [Artifact -> Context \cup {None}]
      BY <2>1, <2>2, <3>1 DEF RegisterArtifact, TypeInv, WorkspaceTypeOK, StoreTypeOK
    <3> QED
      BY <2>2, <3>2 DEF RegisterArtifact, PersistIndex, TypeInv, WorkspaceTypeOK, StoreTypeOK
  <2>4. UNCHANGED <<registryVars, noteVars, stateVars, said>>
    BY <1>3 DEF PutEntry
  <2>8. call' \in [Thread -> CallRecord] /\ CarriedIds'
    BY <2>1, <2>3, <2>4, CallStep
  <2> QED
    BY <2>1, <2>3, <2>4, <2>8
    DEF TypeInv, WorkspaceTypeOK, StoreTypeOK, registryVars, noteVars, stateVars
<1>4. ASSUME NEW t \in Thread, PutCapture(t)
      PROVE  TypeInv'
  BY <1>4
  DEF PutCapture, TypeInv, WorkspaceTypeOK, StoreTypeOK, CaptureRecord, CallRecord, CarriedIds,
      Writing, At, Ends, Idle, Kept, FirstOps, LaterOps, registryVars, noteVars, stateVars,
      RegisterCapture, PersistIndex
<1>5. ASSUME NEW t \in Thread, Annotate(t)
      PROVE  TypeInv'
  BY <1>5
  DEF Annotate, TypeInv, WorkspaceTypeOK, StoreTypeOK, CaptureRecord, CallRecord, CarriedIds,
      Writing, At, Ends, Idle, Kept, FirstOps, LaterOps, storeVars, registryVars, noteVars,
      stateVars, ChangeNotes, PersistNotes
<1>6. ASSUME NEW t \in Thread, ImportNotes(t)
      PROVE  TypeInv'
  BY <1>6
  DEF ImportNotes, TypeInv, WorkspaceTypeOK, StoreTypeOK, CaptureRecord, CallRecord, CarriedIds,
      Writing, At, Ends, Idle, Kept, FirstOps, LaterOps, storeVars, registryVars, noteVars,
      stateVars, ChangeNotes, PersistNotes
<1>7. ASSUME NEW t \in Thread, Erase(t)
      PROVE  TypeInv'
  BY <1>7
  DEF Erase, TypeInv, WorkspaceTypeOK, StoreTypeOK, CaptureRecord, CallRecord, CarriedIds,
      Writing, At, Ends, Idle, Kept, FirstOps, LaterOps, storeVars, registryVars, noteVars,
      stateVars, ChangeNotes, PersistNotes
<1>8. ASSUME NEW t \in Thread, Refused(t)
      PROVE  TypeInv'
  BY <1>8
  DEF Refused, TypeInv, WorkspaceTypeOK, StoreTypeOK, CaptureRecord, CallRecord, CarriedIds,
      Writing, At, Ends, Idle, FirstOps, LaterOps, storeVars, registryVars, noteVars, stateVars
<1>9. ASSUME NEW t \in Thread, SaveFile(t)
      PROVE  TypeInv'
  <2>1. PICK s \in Snapshot :
          /\ \/ stateFiles' = [stateFiles EXCEPT ![call[t].context] = @ \cup {s}]
             \/ stateFiles' = stateFiles
          /\ Becomes(t, "record", s) \/ Ends(t)
    BY <1>9 DEF SaveFile
  <2>2. stateFiles' \in [Context -> SUBSET Snapshot]
    <3>1. stateFiles \in [Context -> SUBSET Snapshot] /\ call[t].context \in Context
      BY CallTypes DEF TypeInv, WorkspaceTypeOK
    <3> QED
      BY <2>1, <3>1
  <2>3. UNCHANGED <<storeVars, registryVars, noteVars, snapshots, said>>
    BY <1>9 DEF SaveFile
  <2>8. call' \in [Thread -> CallRecord] /\ CarriedIds'
    BY <2>1, <2>2, <2>3, CallStep
  <2> QED
    BY <2>1, <2>2, <2>3, <2>8
    DEF TypeInv, WorkspaceTypeOK, StoreTypeOK, storeVars, registryVars, noteVars, stateVars
<1>10. ASSUME NEW t \in Thread, SaveRecord(t)
      PROVE  TypeInv'
  <2> DEFINE c == call[t].context
             list == Append(snapshots[c], call[t].id)
  <2>1. c \in Context /\ call[t].id \in Snapshot /\ snapshots[c] \in Seq(Snapshot)
    BY <1>10 DEF SaveRecord, TypeInv, WorkspaceTypeOK, CallRecord, CarriedIds, At
  <2>2. Newest(list, MaxSnapshots) \in Seq(Snapshot) /\ Len(Newest(list, MaxSnapshots)) <= MaxSnapshots
    BY <2>1, AppendProperties, NewestProperties
  <2>3. snapshots' = snapshots \/ snapshots' = [snapshots EXCEPT ![c] = Newest(list, MaxSnapshots)]
    BY <1>10 DEF SaveRecord
  <2> HIDE DEF c, list
  <2>4. /\ snapshots' \in [Context -> Seq(Snapshot)]
        /\ \A d \in Context : Len(snapshots'[d]) <= MaxSnapshots
    <3>1. /\ snapshots \in [Context -> Seq(Snapshot)]
          /\ \A d \in Context : Len(snapshots[d]) <= MaxSnapshots
      BY DEF TypeInv, WorkspaceTypeOK
    <3> QED
      BY <2>1, <2>2, <2>3, <3>1
  <2>5. UNCHANGED <<storeVars, registryVars, noteVars, stateFiles, said>> /\ Ends(t)
    BY <1>10 DEF SaveRecord
  <2>8. call' \in [Thread -> CallRecord] /\ CarriedIds'
    BY <2>4, <2>5, CallStep
  <2> QED
    BY <2>4, <2>5, <2>8
    DEF TypeInv, WorkspaceTypeOK, StoreTypeOK, storeVars, registryVars, noteVars, stateVars
<1>11. ASSUME NEW t \in Thread, DropRecord(t)
      PROVE  TypeInv'
  <2> DEFINE c == call[t].context
  <2>1. PICK i \in DOMAIN snapshots[c] :
          /\ snapshots' = [snapshots EXCEPT ![c] = RemoveAt(@, i)]
          /\ Becomes(t, "unlink", snapshots[c][i])
    BY <1>11 DEF DropRecord
  <2>2. /\ c \in Context /\ snapshots[c] \in Seq(Snapshot) /\ Len(snapshots[c]) <= MaxSnapshots
        /\ i \in 1..Len(snapshots[c]) /\ Len(snapshots[c]) \in Nat
    BY CallTypes, LenProperties DEF TypeInv, WorkspaceTypeOK
  <2>3. /\ snapshots[c][i] \in Snapshot
        /\ RemoveAt(snapshots[c], i) \in Seq(Snapshot)
        /\ Len(RemoveAt(snapshots[c], i)) <= MaxSnapshots
    BY <2>2, ElementOfSeq, RemoveAtProperties
  <2> HIDE DEF c
  <2>4. /\ snapshots' \in [Context -> Seq(Snapshot)]
        /\ \A d \in Context : Len(snapshots'[d]) <= MaxSnapshots
    <3>1. /\ snapshots \in [Context -> Seq(Snapshot)]
          /\ \A d \in Context : Len(snapshots[d]) <= MaxSnapshots
      BY DEF TypeInv, WorkspaceTypeOK
    <3> QED
      BY <2>1, <2>2, <2>3, <3>1
  <2>5. UNCHANGED <<storeVars, registryVars, noteVars, stateFiles, said>>
    BY <1>11 DEF DropRecord
  <2>8. call' \in [Thread -> CallRecord] /\ CarriedIds'
    BY <2>1, <2>3, <2>4, <2>5, CallStep
  <2> QED
    BY <2>1, <2>3, <2>4, <2>5, <2>8
    DEF TypeInv, WorkspaceTypeOK, StoreTypeOK, storeVars, registryVars, noteVars, stateVars
<1>12. ASSUME NEW t \in Thread, DropFile(t)
      PROVE  TypeInv'
  BY <1>12
  DEF DropFile, TypeInv, WorkspaceTypeOK, StoreTypeOK, CaptureRecord, CallRecord, CarriedIds,
      Writing, At, Ends, Idle, Kept, FirstOps, LaterOps, storeVars, registryVars, noteVars,
      stateVars
<1>13. ASSUME NEW t \in Thread, CreateContext(t)
      PROVE  TypeInv'
  BY <1>13
  DEF CreateContext, TypeInv, WorkspaceTypeOK, StoreTypeOK, CaptureRecord, CallRecord,
      CarriedIds, Writing, At, FirstOps, LaterOps, storeVars, noteVars, stateVars
<1>14. ASSUME NEW t \in Thread, PersistCreated(t)
      PROVE  TypeInv'
  BY <1>14
  DEF PersistCreated, TypeInv, WorkspaceTypeOK, StoreTypeOK, CaptureRecord, CallRecord,
      CarriedIds, Writing, At, Ends, Idle, Kept, FirstOps, LaterOps, storeVars, noteVars, stateVars
<1>15. ASSUME NEW t \in Thread, CloseContext(t)
      PROVE  TypeInv'
  BY <1>15
  DEF CloseContext, TypeInv, WorkspaceTypeOK, StoreTypeOK, CaptureRecord, CallRecord,
      CarriedIds, Writing, At, Kept, FirstOps, LaterOps, storeVars, noteVars, stateVars
<1>16. ASSUME NEW t \in Thread, PruneContext(t)
      PROVE  TypeInv'
  BY <1>16
  DEF PruneContext, TypeInv, WorkspaceTypeOK, StoreTypeOK, CaptureRecord, CallRecord,
      CarriedIds, Writing, At, Kept, FirstOps, LaterOps, storeVars, stateVars
<1>17. ASSUME NEW t \in Thread, PruneArtifacts(t)
      PROVE  TypeInv'
  <2>1. PICK gone \in SUBSET Owned(call[t].context), kept \in BOOLEAN :
          DeleteContext(call[t].context, gone, kept)
    BY <1>17 DEF PruneArtifacts
  <2>2. StoreTypeOK'
    BY <2>1, WithoutTypes DEF DeleteContext, TypeInv, WorkspaceTypeOK, StoreTypeOK, PersistIndex
  <2>3. UNCHANGED <<registryVars, noteVars, stateVars, said>> /\ Becomes(t, "pruneStates", None)
    BY <1>17 DEF PruneArtifacts
  <2>8. call' \in [Thread -> CallRecord] /\ CarriedIds'
    BY <2>2, <2>3, CallStep
  <2> QED
    BY <2>2, <2>3, <2>8 DEF TypeInv, WorkspaceTypeOK, StoreTypeOK, registryVars, noteVars, stateVars
<1>18. ASSUME NEW t \in Thread, PruneStates(t)
      PROVE  TypeInv'
  BY <1>18
  DEF PruneStates, TypeInv, WorkspaceTypeOK, StoreTypeOK, CaptureRecord, CallRecord, CarriedIds,
      Writing, At, Ends, Idle, Kept, FirstOps, LaterOps, storeVars, registryVars, noteVars,
      stateVars
<1>19. CASE Sweep
  <2>1. PICK gone \in SUBSET Expired, kept \in BOOLEAN : ExpireOlderThan(gone, kept)
    BY <1>19 DEF Sweep
  <2>2. StoreTypeOK'
    BY <2>1, WithoutTypes DEF ExpireOlderThan, TypeInv, WorkspaceTypeOK, StoreTypeOK, PersistIndex
  <2> QED
    BY <1>19, <2>2
    DEF Sweep, TypeInv, WorkspaceTypeOK, CallRecord, CarriedIds, Writing, At, registryVars,
        noteVars, stateVars
<1>20. CASE TimePasses
  BY <1>20
  DEF TimePasses, TypeInv, WorkspaceTypeOK, StoreTypeOK, CaptureRecord, CallRecord, CarriedIds,
      Writing, At, FirstOps, LaterOps, registryVars, noteVars, stateVars, Age, Stored, Registered
<1>21. CASE Restart
  <2>1. StoreTypeOK'
    BY <1>21 DEF Restart, RestartStore, Recovered, TypeInv, WorkspaceTypeOK, StoreTypeOK
  <2>2. notes' \in [Context -> SUBSET Note]
    BY <1>21 DEF Restart, TypeInv, WorkspaceTypeOK
  <2>3. snapshots' \in [Context -> Seq(Snapshot)] /\ \A c \in Context : Len(snapshots'[c]) <= MaxSnapshots
    <3>1. \A c \in Context : snapshots'[c] = <<>>
      BY <1>21 DEF Restart
    <3>2. <<>> \in Seq(Snapshot) /\ Len(<<>>) = 0
      BY EmptySeq
    <3> QED
      BY <1>21, <3>1, <3>2 DEF Restart
  <2>4. \A t \in Thread : call'[t] = Idle
    BY <1>21 DEF Restart
  <2> QED
    BY <1>21, <2>1, <2>2, <2>3, <2>4
    DEF Restart, TypeInv, WorkspaceTypeOK, CallRecord, CarriedIds, Writing, At, Idle, FirstOps,
        LaterOps
<1>22. CASE UNCHANGED workVars
  BY <1>22 DEF workVars, TypeInv, WorkspaceTypeOK, StoreTypeOK, CarriedIds, Writing, At
<1> QED
  BY <1>1, <1>2, <1>3, <1>4, <1>5, <1>6, <1>7, <1>8, <1>9, <1>10, <1>11, <1>12, <1>13, <1>14,
     <1>15, <1>16, <1>17, <1>18, <1>19, <1>20, <1>21, <1>22
  DEF WorkspaceNext


-----------------------------------------------------------------------------
(* What the steps that carry an id do, in the terms the invariant needs.    *)

PutBytesFacts(t) ==
  \E a \in Artifact \ used :
    /\ call[t].op \in {"put", "compose"}
    /\ used' = used \cup {a}
    /\ \A u \in Thread \ {t} : call'[u] = call[u]
    /\ \/ /\ files' = files \cup {a}
          /\ \E op \in {"entry", "composeEntry"} :
               call'[t] = [op |-> op, context |-> call[t].context, id |-> a]
       \/ call'[t] = Idle /\ (files' = files \/ files' = files \cup {a})
    /\ UNCHANGED <<artifacts, captures, index>>

LEMMA PutBytesEffect ==
  ASSUME TypeInv, NEW t \in Thread, PutBytes(t)
  PROVE  PutBytesFacts(t)
<1> USE DEF PutBytesFacts
<1>1. PICK a \in Artifact \ used, ok \in BOOLEAN :
        /\ call[t].op \in {"put", "compose"} /\ used' = used \cup {a}
        /\ WriteBytes(a, ok)
        /\ IF ok THEN Becomes(t, IF At(t, "put") THEN "entry" ELSE "composeEntry", a) ELSE Ends(t)
  BY DEF PutBytes
<1>2. CASE ok
  <2> DEFINE op == IF At(t, "put") THEN "entry" ELSE "composeEntry"
  <2>1. op \in {"entry", "composeEntry"} /\ Becomes(t, op, a)
    BY <1>1, <1>2
  <2> HIDE DEF op
  <2>2. /\ call'[t] = [op |-> op, context |-> call[t].context, id |-> a]
        /\ \A u \in Thread \ {t} : call'[u] = call[u]
    BY <2>1, Moves
  <2> QED
    BY <1>1, <1>2, <2>1, <2>2 DEF WriteBytes
<1>3. CASE ~ok
  BY <1>1, <1>3, Returns DEF WriteBytes
<1> QED
  BY <1>1, <1>2, <1>3

PutEntryFacts(t) ==
  /\ Writing(t) /\ call[t].id \in Artifact /\ call[t].context \in Context
  /\ UNCHANGED <<captures, files, used>>
  /\ artifacts' = [artifacts EXCEPT ![call[t].id] = call[t].context]
  /\ \A u \in Thread \ {t} : call'[u] = call[u]
  /\ \E ok \in BOOLEAN :
       /\ PersistIndex(ok)
       /\ promised' = IF ok THEN promised \cup {call[t].id} ELSE promised
       /\ \/ call'[t] = Idle
          \/ ok /\ call'[t] = [op |-> "register", context |-> call[t].context, id |-> call[t].id]

LEMMA PutEntryEffect ==
  ASSUME TypeInv, NEW t \in Thread, PutEntry(t)
  PROVE  PutEntryFacts(t)
<1> USE DEF PutEntryFacts
<1>1. Writing(t) /\ call[t].id \in Artifact /\ call[t].context \in Context
  BY CallTypes DEF PutEntry, TypeInv, CarriedIds, Writing
<1>2. PICK ok \in BOOLEAN :
        /\ RegisterArtifact(call[t].id, call[t].context, ok)
        /\ promised' = IF ok THEN promised \cup {call[t].id} ELSE promised
        /\ \/ Ends(t)
           \/ ok /\ Becomes(t, "register", call[t].id)
  BY DEF PutEntry
<1>3. /\ \A u \in Thread \ {t} : call'[u] = call[u]
      /\ \/ call'[t] = Idle
         \/ ok /\ call'[t] = [op |-> "register", context |-> call[t].context, id |-> call[t].id]
  BY <1>2, Moves, Returns
<1>4. UNCHANGED used
  BY DEF PutEntry
<1> QED
  BY <1>1, <1>2, <1>3, <1>4 DEF RegisterArtifact

SaveFileFacts(t) ==
  \E s \in Snapshot \ used :
    /\ At(t, "save")
    /\ used' = used \cup {s}
    /\ \A u \in Thread \ {t} : call'[u] = call[u]
    /\ \/ /\ stateFiles' = [stateFiles EXCEPT ![call[t].context] = @ \cup {s}]
          /\ \/ call'[t] = Idle
             \/ call'[t] = [op |-> "record", context |-> call[t].context, id |-> s]
       \/ stateFiles' = stateFiles /\ call'[t] = Idle

LEMMA SaveFileEffect ==
  ASSUME TypeInv, NEW t \in Thread, SaveFile(t)
  PROVE  SaveFileFacts(t)
<1> USE DEF SaveFileFacts
<1>1. PICK s \in Snapshot \ used :
        /\ At(t, "save")
        /\ used' = used \cup {s}
        /\ \/ /\ stateFiles' = [stateFiles EXCEPT ![call[t].context] = @ \cup {s}]
              /\ Becomes(t, "record", s) \/ Ends(t)
           \/ stateFiles' = stateFiles /\ Ends(t)
  BY DEF SaveFile
<1> QED
  BY <1>1, Moves, Returns

SaveRecordFacts(t) ==
  /\ At(t, "record") /\ call'[t] = Idle
  /\ \A u \in Thread \ {t} : call'[u] = call[u]
  /\ \A c \in Context \ {call[t].context} : snapshots'[c] = snapshots[c]
  /\ \/ snapshots' = snapshots
     \/ /\ call[t].id \in stateFiles[call[t].context]
        /\ \E skipped \in Nat : \A i \in 1..Len(snapshots'[call[t].context]) :
             \/ /\ i + skipped \in 1..Len(snapshots[call[t].context])
                /\ snapshots'[call[t].context][i] = snapshots[call[t].context][i + skipped]
             \/ /\ i + skipped = Len(snapshots[call[t].context]) + 1
                /\ snapshots'[call[t].context][i] = call[t].id

LEMMA SaveRecordEffect ==
  ASSUME TypeInv, NEW t \in Thread, SaveRecord(t)
  PROVE  SaveRecordFacts(t)
<1> USE DEF SaveRecordFacts
<1> DEFINE c == call[t].context
           list == Append(snapshots[c], call[t].id)
<1>1. At(t, "record") /\ Ends(t)
  BY DEF SaveRecord
<1>2. /\ c \in Context /\ call[t].id \in Snapshot /\ snapshots[c] \in Seq(Snapshot)
      /\ snapshots \in [Context -> Seq(Snapshot)] /\ Len(snapshots[c]) \in Nat
  BY <1>1, CallTypes, LenProperties DEF TypeInv, WorkspaceTypeOK, CarriedIds, At
<1>3. /\ list \in Seq(Snapshot) /\ Len(list) = Len(snapshots[c]) + 1
      /\ \A i \in 1..Len(snapshots[c]) : list[i] = snapshots[c][i]
      /\ list[Len(snapshots[c]) + 1] = call[t].id
  BY <1>2, AppendProperties
<1>4. CASE UNCHANGED snapshots
  BY <1>1, <1>4, Returns
<1>5. CASE /\ call[t].id \in stateFiles[c]
           /\ snapshots' = [snapshots EXCEPT ![c] = Newest(list, MaxSnapshots)]
  <2> HIDE DEF list
  <2>1. snapshots'[c] = Newest(list, MaxSnapshots)
    BY <1>2, <1>5
  <2>2. PICK skipped \in Nat : \A i \in 1..Len(Newest(list, MaxSnapshots)) :
          i + skipped \in 1..Len(list) /\ Newest(list, MaxSnapshots)[i] = list[i + skipped]
    <3>1. list \in Seq(Snapshot) /\ MaxSnapshots \in Nat \ {0}
      BY <1>3, WorkspaceAssumption
    <3> QED
      BY <3>1, NewestProperties, Zenon
  <2>3. \A i \in 1..Len(snapshots'[c]) :
          \/ i + skipped \in 1..Len(snapshots[c]) /\ snapshots'[c][i] = snapshots[c][i + skipped]
          \/ i + skipped = Len(snapshots[c]) + 1 /\ snapshots'[c][i] = call[t].id
    BY <1>2, <1>3, <2>1, <2>2
  <2>4. \A d \in Context \ {c} : snapshots'[d] = snapshots[d]
    BY <1>2, <1>5
  <2> QED
    BY <1>1, <1>5, <2>3, <2>4, Returns
<1> QED
  BY <1>4, <1>5 DEF SaveRecord

DropRecordFacts(t) ==
  /\ At(t, "drop") /\ call[t].context \in Context
  /\ \A u \in Thread \ {t} : call'[u] = call[u]
  /\ \A c \in Context \ {call[t].context} : snapshots'[c] = snapshots[c]
  /\ \E i \in 1..Len(snapshots[call[t].context]) :
       /\ call'[t] = [op |-> "unlink", context |-> call[t].context,
                      id |-> snapshots[call[t].context][i]]
       /\ Len(snapshots[call[t].context]) \in Nat
       /\ Len(snapshots'[call[t].context]) = Len(snapshots[call[t].context]) - 1
       /\ \A j \in 1..Len(snapshots[call[t].context]) - 1 :
            snapshots'[call[t].context][j] =
              snapshots[call[t].context][IF j < i THEN j ELSE j + 1]

LEMMA DropRecordEffect ==
  ASSUME TypeInv, NEW t \in Thread, DropRecord(t)
  PROVE  DropRecordFacts(t)
<1> USE DEF DropRecordFacts
<1> DEFINE c == call[t].context
<1>1. PICK i \in DOMAIN snapshots[c] :
        /\ At(t, "drop")
        /\ snapshots' = [snapshots EXCEPT ![c] = RemoveAt(@, i)]
        /\ Becomes(t, "unlink", snapshots[c][i])
  BY DEF DropRecord
<1>2. /\ c \in Context /\ snapshots[c] \in Seq(Snapshot) /\ i \in 1..Len(snapshots[c])
      /\ snapshots \in [Context -> Seq(Snapshot)] /\ Len(snapshots[c]) \in Nat
  BY CallTypes, LenProperties DEF TypeInv, WorkspaceTypeOK
<1>3. /\ Len(RemoveAt(snapshots[c], i)) = Len(snapshots[c]) - 1
      /\ \A j \in 1..Len(snapshots[c]) - 1 :
           RemoveAt(snapshots[c], i)[j] = IF j < i THEN snapshots[c][j] ELSE snapshots[c][j + 1]
  BY <1>2, RemoveAtProperties
<1>4. snapshots'[c] = RemoveAt(snapshots[c], i) /\ \A d \in Context \ {c} : snapshots'[d] = snapshots[d]
  BY <1>1, <1>2
<1>5. /\ call'[t] = [op |-> "unlink", context |-> c, id |-> snapshots[c][i]]
      /\ \A u \in Thread \ {t} : call'[u] = call[u]
  BY <1>1, Moves
<1> HIDE DEF c
<1>6. \A j \in 1..Len(snapshots[c]) - 1 :
        snapshots'[c][j] = snapshots[c][IF j < i THEN j ELSE j + 1]
  BY <1>2, <1>3, <1>4
<1> QED
  BY <1>1, <1>2, <1>3, <1>4, <1>5, <1>6 DEF c

-----------------------------------------------------------------------------
(* The artifact store: ids, bytes, entries, the index document and the      *)
(* captures, through every step of the workspace.                           *)

\* Ids are generated once: what has been seen of one was seen after.
LEMMA UsedStep ==
  ASSUME TypeInv, UsedInv, BytesInv, [WorkspaceNext]_workVars
  PROVE  UsedInv'
<1>1. ASSUME NEW t \in Thread, NEW c \in Context, NEW op \in FirstOps, Resolve(t, c, op)
      PROVE  UsedInv'
  BY <1>1, CallTypes, IdAssumption, WorkspaceAssumption
  DEF Resolve, UsedInv, BytesInv, Writing, Stored, At, CallRecord, TypeInv, WorkspaceTypeOK,
      StoreTypeOK, CarriedIds, FirstOps, storeVars, registryVars, noteVars, stateVars
<1>2. ASSUME NEW t \in Thread, PutBytes(t)
      PROVE  UsedInv'
  <2>1. PutBytesFacts(t)
    BY <1>2, PutBytesEffect
  <2>2. UNCHANGED <<registryVars, noteVars, stateVars, promised, removed, said, disturbed>>
    BY <1>2 DEF PutBytes, WriteBytes
  <2> QED
    BY <2>1, <2>2 DEF PutBytesFacts, UsedInv, BytesInv, Writing, Stored, At, Idle, registryVars,
        noteVars, stateVars
<1>3. ASSUME NEW t \in Thread, PutEntry(t)
      PROVE  UsedInv'
  <2>1. PutEntryFacts(t)
    BY <1>3, PutEntryEffect
  <2>2. UNCHANGED <<registryVars, noteVars, stateVars, removed, said>>
    BY <1>3 DEF PutEntry
  <2>3. \A a \in Artifact : index'.artifacts[a] # None => a \in used
    BY <2>1
    DEF PutEntryFacts, PersistIndex, TypeInv, WorkspaceTypeOK, StoreTypeOK, UsedInv, BytesInv,
        Writing, Stored
  <2>4. \A c \in Context, n \in Note : <<c, n>> \in promised' => <<c, n>> \in promised
    BY <2>1, IdAssumption DEF PutEntryFacts
  <2>5. /\ \A u \in Thread \ {t} : call'[u] = call[u]
        /\ \/ call'[t].op = "idle"
           \/ call'[t].op = "register" /\ call'[t].context \in used
    BY <2>1 DEF PutEntryFacts, UsedInv, Writing, Idle
  <2>6. UNCHANGED <<files, used>>
    BY <2>1 DEF PutEntryFacts
  <2> QED
    BY <2>2, <2>3, <2>4, <2>5, <2>6 DEF UsedInv, At, registryVars, noteVars, stateVars
<1>4. ASSUME NEW t \in Thread, PutCapture(t)
      PROVE  UsedInv'
  BY <1>4, CallTypes, IdAssumption
  DEF PutCapture, RegisterCapture, PersistIndex, UsedInv, BytesInv, Writing, Stored, At, Idle,
      CallRecord, TypeInv, WorkspaceTypeOK, StoreTypeOK, Ends, registryVars, noteVars, stateVars
<1>5. ASSUME NEW t \in Thread, Annotate(t)
      PROVE  UsedInv'
  BY <1>5
  DEF Annotate, ChangeNotes, PersistNotes, UsedInv, BytesInv, Writing, Stored, At, Idle, Ends,
      storeVars, registryVars, noteVars, stateVars
<1>6. ASSUME NEW t \in Thread, ImportNotes(t)
      PROVE  UsedInv'
  BY <1>6
  DEF ImportNotes, ChangeNotes, PersistNotes, UsedInv, BytesInv, Writing, Stored, At, Idle,
      Ends, storeVars, registryVars, noteVars, stateVars
<1>7. ASSUME NEW t \in Thread, Erase(t)
      PROVE  UsedInv'
  BY <1>7
  DEF Erase, ChangeNotes, PersistNotes, UsedInv, BytesInv, Writing, Stored, At, Idle, Ends,
      storeVars, registryVars, noteVars, stateVars
<1>8. ASSUME NEW t \in Thread, Refused(t)
      PROVE  UsedInv'
  BY <1>8
  DEF Refused, UsedInv, BytesInv, Writing, Stored, At, Idle, Ends, storeVars, registryVars,
      noteVars, stateVars
<1>9. ASSUME NEW t \in Thread, SaveFile(t)
      PROVE  UsedInv'
  <2>1. SaveFileFacts(t)
    BY <1>9, SaveFileEffect
  <2>2. UNCHANGED <<storeVars, registryVars, noteVars, snapshots, promised, removed, said,
      disturbed>>
    BY <1>9 DEF SaveFile
  <2> QED
    BY <2>1, <2>2 DEF SaveFileFacts, UsedInv, BytesInv, Writing, Stored, At, Idle, storeVars,
        registryVars, noteVars
<1>10. ASSUME NEW t \in Thread, SaveRecord(t)
      PROVE  UsedInv'
  <2>1. SaveRecordFacts(t)
    BY <1>10, SaveRecordEffect
  <2>2. UNCHANGED <<storeVars, registryVars, noteVars, stateFiles, used, promised, removed,
      said, disturbed>>
    BY <1>10 DEF SaveRecord
  <2> QED
    BY <2>1, <2>2 DEF SaveRecordFacts, UsedInv, BytesInv, Writing, Stored, At, Idle, storeVars,
        registryVars, noteVars
<1>11. ASSUME NEW t \in Thread, DropRecord(t)
      PROVE  UsedInv'
  <2>1. DropRecordFacts(t)
    BY <1>11, DropRecordEffect
  <2>2. UNCHANGED <<storeVars, registryVars, noteVars, used, promised, removed, said>>
    BY <1>11 DEF DropRecord
  <2> DEFINE c == call[t].context
  <2>3. PICK i \in 1..Len(snapshots[c]) :
          /\ call'[t] = [op |-> "unlink", context |-> c, id |-> snapshots[c][i]]
          /\ Len(snapshots[c]) \in Nat
          /\ Len(snapshots'[c]) = Len(snapshots[c]) - 1
          /\ \A j \in 1..Len(snapshots[c]) - 1 :
               snapshots'[c][j] = snapshots[c][IF j < i THEN j ELSE j + 1]
    BY <2>1 DEF DropRecordFacts
  <2>4. At(t, "drop") /\ c \in Context /\ c \in used
    BY <2>1 DEF DropRecordFacts, UsedInv, At
  <2>5. call'[t].context \in used /\ call'[t].id \in used
    BY <2>3, <2>4 DEF UsedInv
  <2>6. \A j \in 1..Len(snapshots'[c]) : snapshots'[c][j] \in used
    BY <2>3, <2>4, SMTT(40) DEF UsedInv
  <2>7. \A d \in Context \ {c} : snapshots'[d] = snapshots[d]
    BY <2>1 DEF DropRecordFacts
  <2>8. \A u \in Thread \ {t} : call'[u] = call[u]
    BY <2>1 DEF DropRecordFacts
  <2> HIDE DEF c
  <2> QED
    BY <2>2, <2>4, <2>5, <2>6, <2>7, <2>8 DEF UsedInv, At, storeVars, registryVars, noteVars
<1>12. ASSUME NEW t \in Thread, DropFile(t)
      PROVE  UsedInv'
  BY <1>12
  DEF DropFile, UsedInv, BytesInv, Writing, Stored, At, Idle, Ends, storeVars, registryVars,
      noteVars, stateVars
<1>13. ASSUME NEW t \in Thread, CreateContext(t)
      PROVE  UsedInv'
  BY <1>13 DEF CreateContext, UsedInv, BytesInv, Writing, Stored, At, storeVars, noteVars, stateVars
<1>14. ASSUME NEW t \in Thread, PersistCreated(t)
      PROVE  UsedInv'
  BY <1>14
  DEF PersistCreated, UsedInv, BytesInv, Writing, Stored, At, Idle, Ends, storeVars, noteVars,
      stateVars
<1>15. ASSUME NEW t \in Thread, CloseContext(t)
      PROVE  UsedInv'
  BY <1>15 DEF CloseContext, UsedInv, BytesInv, Writing, Stored, At, storeVars, noteVars, stateVars
<1>16. ASSUME NEW t \in Thread, PruneContext(t)
      PROVE  UsedInv'
  BY <1>16
  DEF PruneContext, NoteFacts, InFlight, UsedInv, BytesInv, Writing, Stored, At, storeVars,
      stateVars
<1>17. ASSUME NEW t \in Thread, PruneArtifacts(t)
      PROVE  UsedInv'
  BY <1>17, CallTypes, IdAssumption
  DEF PruneArtifacts, DeleteContext, PersistIndex, Without, Owned, OwnedCaptures, UsedInv,
      BytesInv, Writing, Stored, At, CallRecord, TypeInv, WorkspaceTypeOK, StoreTypeOK, Becomes,
      registryVars, noteVars, stateVars
<1>18. ASSUME NEW t \in Thread, PruneStates(t)
      PROVE  UsedInv'
  BY <1>18
  DEF PruneStates, UsedInv, BytesInv, Writing, Stored, At, Idle, Ends, storeVars, registryVars,
      noteVars, stateVars
<1>19. CASE Sweep
  BY <1>19, CallTypes, IdAssumption
  DEF Sweep, ExpireOlderThan, Expired, ExpiredCaptures, PersistIndex, Without, UsedInv,
      BytesInv, Writing, Stored, At, CallRecord, TypeInv, WorkspaceTypeOK, StoreTypeOK,
      registryVars, noteVars, stateVars
<1>20. CASE TimePasses
  BY <1>20
  DEF TimePasses, Age, UsedInv, BytesInv, Writing, Stored, At, registryVars, noteVars, stateVars
<1>21. CASE Restart
  BY <1>21 DEF Restart, RestartStore, Recovered, UsedInv, BytesInv, Writing, Stored, At, Idle
<1>22. CASE UNCHANGED workVars
  BY <1>22 DEF workVars, UsedInv, At
<1> QED
  BY <1>1, <1>2, <1>3, <1>4, <1>5, <1>6, <1>7, <1>8, <1>9, <1>10, <1>11, <1>12, <1>13, <1>14,
      <1>15, <1>16, <1>17, <1>18, <1>19, <1>20, <1>21, <1>22 DEF WorkspaceNext

\* Between its bytes and its entry an artifact belongs to one call.
LEMMA BytesStep ==
  ASSUME TypeInv, UsedInv, BytesInv, [WorkspaceNext]_workVars
  PROVE  BytesInv'
<1>1. ASSUME NEW t \in Thread, NEW c \in Context, NEW op \in FirstOps, Resolve(t, c, op)
      PROVE  BytesInv'
  BY <1>1, CallTypes, IdAssumption, WorkspaceAssumption
  DEF Resolve, BytesInv, UsedInv, Writing, Stored, At, CallRecord, TypeInv, WorkspaceTypeOK,
      StoreTypeOK, CarriedIds, FirstOps, storeVars, registryVars, noteVars, stateVars
<1>2. ASSUME NEW t \in Thread, PutBytes(t)
      PROVE  BytesInv'
  <2>1. PutBytesFacts(t)
    BY <1>2, PutBytesEffect
  <2>2. UNCHANGED <<registryVars, noteVars, stateVars, promised, removed, said, disturbed>>
    BY <1>2 DEF PutBytes, WriteBytes
  <2> QED
    BY <2>1, <2>2 DEF PutBytesFacts, BytesInv, UsedInv, Writing, Stored, At, Idle, registryVars,
        noteVars, stateVars
<1>3. ASSUME NEW t \in Thread, PutEntry(t)
      PROVE  BytesInv'
  <2>1. PutEntryFacts(t)
    BY <1>3, PutEntryEffect
  <2>2. UNCHANGED <<registryVars, noteVars, stateVars, removed, said, disturbed>>
    BY <1>3 DEF PutEntry
  <2> QED
    BY <2>1, <2>2 DEF PutEntryFacts, BytesInv, UsedInv, Writing, Stored, At, Idle, registryVars,
        noteVars, stateVars, PersistIndex
<1>4. ASSUME NEW t \in Thread, PutCapture(t)
      PROVE  BytesInv'
  BY <1>4
  DEF PutCapture, RegisterCapture, PersistIndex, BytesInv, UsedInv, Writing, Stored, At, Idle,
      Ends, registryVars, noteVars, stateVars
<1>5. ASSUME NEW t \in Thread, Annotate(t)
      PROVE  BytesInv'
  BY <1>5
  DEF Annotate, ChangeNotes, PersistNotes, BytesInv, UsedInv, Writing, Stored, At, Idle, Ends,
      storeVars, registryVars, noteVars, stateVars
<1>6. ASSUME NEW t \in Thread, ImportNotes(t)
      PROVE  BytesInv'
  BY <1>6
  DEF ImportNotes, ChangeNotes, PersistNotes, BytesInv, UsedInv, Writing, Stored, At, Idle,
      Ends, storeVars, registryVars, noteVars, stateVars
<1>7. ASSUME NEW t \in Thread, Erase(t)
      PROVE  BytesInv'
  BY <1>7
  DEF Erase, ChangeNotes, PersistNotes, BytesInv, UsedInv, Writing, Stored, At, Idle, Ends,
      storeVars, registryVars, noteVars, stateVars
<1>8. ASSUME NEW t \in Thread, Refused(t)
      PROVE  BytesInv'
  BY <1>8
  DEF Refused, BytesInv, UsedInv, Writing, Stored, At, Idle, Ends, storeVars, registryVars,
      noteVars, stateVars
<1>9. ASSUME NEW t \in Thread, SaveFile(t)
      PROVE  BytesInv'
  <2>1. SaveFileFacts(t)
    BY <1>9, SaveFileEffect
  <2>2. UNCHANGED <<storeVars, registryVars, noteVars, snapshots, promised, removed, said,
      disturbed>>
    BY <1>9 DEF SaveFile
  <2> QED
    BY <2>1, <2>2 DEF SaveFileFacts, BytesInv, UsedInv, Writing, Stored, At, Idle, storeVars,
        registryVars, noteVars
<1>10. ASSUME NEW t \in Thread, SaveRecord(t)
      PROVE  BytesInv'
  <2>1. SaveRecordFacts(t)
    BY <1>10, SaveRecordEffect
  <2>2. UNCHANGED <<storeVars, registryVars, noteVars, stateFiles, used, promised, removed,
      said, disturbed>>
    BY <1>10 DEF SaveRecord
  <2> QED
    BY <2>1, <2>2 DEF SaveRecordFacts, BytesInv, UsedInv, Writing, Stored, At, Idle, storeVars,
        registryVars, noteVars
<1>11. ASSUME NEW t \in Thread, DropRecord(t)
      PROVE  BytesInv'
  <2>1. DropRecordFacts(t)
    BY <1>11, DropRecordEffect
  <2>2. UNCHANGED <<storeVars, registryVars, noteVars, stateFiles, used, promised, removed,
      said, disturbed>>
    BY <1>11 DEF DropRecord
  <2> QED
    BY <2>1, <2>2
    DEF DropRecordFacts, BytesInv, UsedInv, Writing, Stored, At, storeVars, registryVars,
        noteVars
<1>12. ASSUME NEW t \in Thread, DropFile(t)
      PROVE  BytesInv'
  BY <1>12
  DEF DropFile, BytesInv, UsedInv, Writing, Stored, At, Idle, Ends, storeVars, registryVars,
      noteVars, stateVars
<1>13. ASSUME NEW t \in Thread, CreateContext(t)
      PROVE  BytesInv'
  BY <1>13 DEF CreateContext, BytesInv, UsedInv, Writing, Stored, At, storeVars, noteVars, stateVars
<1>14. ASSUME NEW t \in Thread, PersistCreated(t)
      PROVE  BytesInv'
  BY <1>14
  DEF PersistCreated, BytesInv, UsedInv, Writing, Stored, At, Idle, Ends, storeVars, noteVars,
      stateVars
<1>15. ASSUME NEW t \in Thread, CloseContext(t)
      PROVE  BytesInv'
  BY <1>15 DEF CloseContext, BytesInv, UsedInv, Writing, Stored, At, storeVars, noteVars, stateVars
<1>16. ASSUME NEW t \in Thread, PruneContext(t)
      PROVE  BytesInv'
  BY <1>16
  DEF PruneContext, NoteFacts, InFlight, BytesInv, UsedInv, Writing, Stored, At, storeVars,
      stateVars
<1>17. ASSUME NEW t \in Thread, PruneArtifacts(t)
      PROVE  BytesInv'
  BY <1>17, CallTypes, IdAssumption
  DEF PruneArtifacts, DeleteContext, PersistIndex, Without, Owned, OwnedCaptures, BytesInv,
      UsedInv, Writing, Stored, At, CallRecord, TypeInv, WorkspaceTypeOK, StoreTypeOK, Becomes,
      registryVars, noteVars, stateVars
<1>18. ASSUME NEW t \in Thread, PruneStates(t)
      PROVE  BytesInv'
  BY <1>18
  DEF PruneStates, BytesInv, UsedInv, Writing, Stored, At, Idle, Ends, storeVars, registryVars,
      noteVars, stateVars
<1>19. CASE Sweep
  BY <1>19, CallTypes, IdAssumption
  DEF Sweep, ExpireOlderThan, Expired, ExpiredCaptures, PersistIndex, Without, BytesInv,
      UsedInv, Writing, Stored, At, CallRecord, TypeInv, WorkspaceTypeOK, StoreTypeOK, registryVars,
      noteVars, stateVars
<1>20. CASE TimePasses
  BY <1>20
  DEF TimePasses, Age, BytesInv, UsedInv, Writing, Stored, At, registryVars, noteVars, stateVars
<1>21. CASE Restart
  BY <1>21 DEF Restart, RestartStore, Recovered, BytesInv, UsedInv, Writing, Stored, At, Idle
<1>22. CASE UNCHANGED workVars
  BY <1>22 DEF workVars, BytesInv, Writing, Stored
<1> QED
  BY <1>1, <1>2, <1>3, <1>4, <1>5, <1>6, <1>7, <1>8, <1>9, <1>10, <1>11, <1>12, <1>13, <1>14,
      <1>15, <1>16, <1>17, <1>18, <1>19, <1>20, <1>21, <1>22 DEF WorkspaceNext

\* The document and the memory never disagree on the owner of a file.
LEMMA IndexStep ==
  ASSUME TypeInv, UsedInv, BytesInv, IndexInv, [WorkspaceNext]_workVars
  PROVE  IndexInv'
<1>1. ASSUME NEW t \in Thread, NEW c \in Context, NEW op \in FirstOps, Resolve(t, c, op)
      PROVE  IndexInv'
  BY <1>1
  DEF Resolve, IndexInv, BytesInv, UsedInv, Writing, Stored, At, storeVars, registryVars,
      noteVars, stateVars
<1>2. ASSUME NEW t \in Thread, PutBytes(t)
      PROVE  IndexInv'
  <2>1. PutBytesFacts(t)
    BY <1>2, PutBytesEffect
  <2>2. UNCHANGED <<registryVars, noteVars, stateVars, promised, removed, said, disturbed>>
    BY <1>2 DEF PutBytes, WriteBytes
  <2> QED
    BY <2>1, <2>2 DEF PutBytesFacts, IndexInv, BytesInv, UsedInv, Writing, Stored, At, Idle,
        registryVars, noteVars, stateVars
<1>3. ASSUME NEW t \in Thread, PutEntry(t)
      PROVE  IndexInv'
  <2>1. PutEntryFacts(t)
    BY <1>3, PutEntryEffect
  <2>2. UNCHANGED <<registryVars, noteVars, stateVars, removed, said, disturbed>>
    BY <1>3 DEF PutEntry
  <2> QED
    BY <2>1, <2>2 DEF PutEntryFacts, IndexInv, BytesInv, UsedInv, Writing, Stored, At, Idle,
        registryVars, noteVars, stateVars, PersistIndex
<1>4. ASSUME NEW t \in Thread, PutCapture(t)
      PROVE  IndexInv'
  BY <1>4
  DEF PutCapture, RegisterCapture, PersistIndex, IndexInv, BytesInv, UsedInv, Writing, Stored,
      At, Idle, Ends, registryVars, noteVars, stateVars
<1>5. ASSUME NEW t \in Thread, Annotate(t)
      PROVE  IndexInv'
  BY <1>5
  DEF Annotate, ChangeNotes, PersistNotes, IndexInv, BytesInv, UsedInv, Writing, Stored, At,
      Idle, Ends, storeVars, registryVars, noteVars, stateVars
<1>6. ASSUME NEW t \in Thread, ImportNotes(t)
      PROVE  IndexInv'
  BY <1>6
  DEF ImportNotes, ChangeNotes, PersistNotes, IndexInv, BytesInv, UsedInv, Writing, Stored, At,
      Idle, Ends, storeVars, registryVars, noteVars, stateVars
<1>7. ASSUME NEW t \in Thread, Erase(t)
      PROVE  IndexInv'
  BY <1>7
  DEF Erase, ChangeNotes, PersistNotes, IndexInv, BytesInv, UsedInv, Writing, Stored, At, Idle,
      Ends, storeVars, registryVars, noteVars, stateVars
<1>8. ASSUME NEW t \in Thread, Refused(t)
      PROVE  IndexInv'
  BY <1>8
  DEF Refused, IndexInv, BytesInv, UsedInv, Writing, Stored, At, Idle, Ends, storeVars,
      registryVars, noteVars, stateVars
<1>9. ASSUME NEW t \in Thread, SaveFile(t)
      PROVE  IndexInv'
  <2>1. SaveFileFacts(t)
    BY <1>9, SaveFileEffect
  <2>2. UNCHANGED <<storeVars, registryVars, noteVars, snapshots, promised, removed, said,
      disturbed>>
    BY <1>9 DEF SaveFile
  <2> QED
    BY <2>1, <2>2 DEF SaveFileFacts, IndexInv, BytesInv, UsedInv, Writing, Stored, At, Idle,
        storeVars, registryVars, noteVars
<1>10. ASSUME NEW t \in Thread, SaveRecord(t)
      PROVE  IndexInv'
  <2>1. SaveRecordFacts(t)
    BY <1>10, SaveRecordEffect
  <2>2. UNCHANGED <<storeVars, registryVars, noteVars, stateFiles, used, promised, removed,
      said, disturbed>>
    BY <1>10 DEF SaveRecord
  <2> QED
    BY <2>1, <2>2 DEF SaveRecordFacts, IndexInv, BytesInv, UsedInv, Writing, Stored, At, Idle,
        storeVars, registryVars, noteVars
<1>11. ASSUME NEW t \in Thread, DropRecord(t)
      PROVE  IndexInv'
  <2>1. DropRecordFacts(t)
    BY <1>11, DropRecordEffect
  <2>2. UNCHANGED <<storeVars, registryVars, noteVars, stateFiles, used, promised, removed,
      said, disturbed>>
    BY <1>11 DEF DropRecord
  <2> QED
    BY <2>1, <2>2
    DEF DropRecordFacts, IndexInv, BytesInv, UsedInv, Writing, Stored, At, storeVars,
        registryVars, noteVars
<1>12. ASSUME NEW t \in Thread, DropFile(t)
      PROVE  IndexInv'
  BY <1>12
  DEF DropFile, IndexInv, BytesInv, UsedInv, Writing, Stored, At, Idle, Ends, storeVars,
      registryVars, noteVars, stateVars
<1>13. ASSUME NEW t \in Thread, CreateContext(t)
      PROVE  IndexInv'
  BY <1>13
  DEF CreateContext, IndexInv, BytesInv, UsedInv, Writing, Stored, At, storeVars, noteVars,
      stateVars
<1>14. ASSUME NEW t \in Thread, PersistCreated(t)
      PROVE  IndexInv'
  BY <1>14
  DEF PersistCreated, IndexInv, BytesInv, UsedInv, Writing, Stored, At, Idle, Ends, storeVars,
      noteVars, stateVars
<1>15. ASSUME NEW t \in Thread, CloseContext(t)
      PROVE  IndexInv'
  BY <1>15
  DEF CloseContext, IndexInv, BytesInv, UsedInv, Writing, Stored, At, storeVars, noteVars,
      stateVars
<1>16. ASSUME NEW t \in Thread, PruneContext(t)
      PROVE  IndexInv'
  BY <1>16
  DEF PruneContext, NoteFacts, InFlight, IndexInv, BytesInv, UsedInv, Writing, Stored, At,
      storeVars, stateVars
<1>17. ASSUME NEW t \in Thread, PruneArtifacts(t)
      PROVE  IndexInv'
  BY <1>17, CallTypes, IdAssumption
  DEF PruneArtifacts, DeleteContext, PersistIndex, Without, Owned, OwnedCaptures, IndexInv,
      BytesInv, UsedInv, Writing, Stored, At, CallRecord, TypeInv, WorkspaceTypeOK, StoreTypeOK,
      Becomes, registryVars, noteVars, stateVars
<1>18. ASSUME NEW t \in Thread, PruneStates(t)
      PROVE  IndexInv'
  BY <1>18
  DEF PruneStates, IndexInv, BytesInv, UsedInv, Writing, Stored, At, Idle, Ends, storeVars,
      registryVars, noteVars, stateVars
<1>19. CASE Sweep
  BY <1>19, CallTypes, IdAssumption
  DEF Sweep, ExpireOlderThan, Expired, ExpiredCaptures, PersistIndex, Without, IndexInv,
      BytesInv, UsedInv, Writing, Stored, At, CallRecord, TypeInv, WorkspaceTypeOK, StoreTypeOK,
      registryVars, noteVars, stateVars
<1>20. CASE TimePasses
  BY <1>20
  DEF TimePasses, Age, IndexInv, BytesInv, UsedInv, Writing, Stored, At, registryVars, noteVars,
      stateVars
<1>21. CASE Restart
  BY <1>21, CallTypes, IdAssumption DEF Restart, RestartStore, Recovered, IndexInv, BytesInv,
      UsedInv, Writing, Stored, At, Idle, CallRecord, TypeInv, WorkspaceTypeOK, StoreTypeOK
<1>22. CASE UNCHANGED workVars
  BY <1>22 DEF workVars, IndexInv
<1> QED
  BY <1>1, <1>2, <1>3, <1>4, <1>5, <1>6, <1>7, <1>8, <1>9, <1>10, <1>11, <1>12, <1>13, <1>14,
      <1>15, <1>16, <1>17, <1>18, <1>19, <1>20, <1>21, <1>22 DEF WorkspaceNext

\* The bytes of a removed artifact do not come back.
LEMMA RemovedStep ==
  ASSUME TypeInv, UsedInv, BytesInv, RemovedInv, [WorkspaceNext]_workVars
  PROVE  RemovedInv'
<1>1. ASSUME NEW t \in Thread, NEW c \in Context, NEW op \in FirstOps, Resolve(t, c, op)
      PROVE  RemovedInv'
  BY <1>1
  DEF Resolve, RemovedInv, BytesInv, UsedInv, Writing, Stored, At, storeVars, registryVars,
      noteVars, stateVars
<1>2. ASSUME NEW t \in Thread, PutBytes(t)
      PROVE  RemovedInv'
  <2>1. PutBytesFacts(t)
    BY <1>2, PutBytesEffect
  <2>2. UNCHANGED <<registryVars, noteVars, stateVars, promised, removed, said, disturbed>>
    BY <1>2 DEF PutBytes, WriteBytes
  <2> QED
    BY <2>1, <2>2 DEF PutBytesFacts, RemovedInv, BytesInv, UsedInv, Writing, Stored, At, Idle,
        registryVars, noteVars, stateVars
<1>3. ASSUME NEW t \in Thread, PutEntry(t)
      PROVE  RemovedInv'
  <2>1. PutEntryFacts(t)
    BY <1>3, PutEntryEffect
  <2>2. UNCHANGED <<registryVars, noteVars, stateVars, removed, said, disturbed>>
    BY <1>3 DEF PutEntry
  <2> QED
    BY <2>1, <2>2 DEF PutEntryFacts, RemovedInv, BytesInv, UsedInv, Writing, Stored, At, Idle,
        registryVars, noteVars, stateVars, PersistIndex
<1>4. ASSUME NEW t \in Thread, PutCapture(t)
      PROVE  RemovedInv'
  BY <1>4
  DEF PutCapture, RegisterCapture, PersistIndex, RemovedInv, BytesInv, UsedInv, Writing, Stored,
      At, Idle, Ends, registryVars, noteVars, stateVars
<1>5. ASSUME NEW t \in Thread, Annotate(t)
      PROVE  RemovedInv'
  BY <1>5
  DEF Annotate, ChangeNotes, PersistNotes, RemovedInv, BytesInv, UsedInv, Writing, Stored, At,
      Idle, Ends, storeVars, registryVars, noteVars, stateVars
<1>6. ASSUME NEW t \in Thread, ImportNotes(t)
      PROVE  RemovedInv'
  BY <1>6
  DEF ImportNotes, ChangeNotes, PersistNotes, RemovedInv, BytesInv, UsedInv, Writing, Stored,
      At, Idle, Ends, storeVars, registryVars, noteVars, stateVars
<1>7. ASSUME NEW t \in Thread, Erase(t)
      PROVE  RemovedInv'
  BY <1>7
  DEF Erase, ChangeNotes, PersistNotes, RemovedInv, BytesInv, UsedInv, Writing, Stored, At,
      Idle, Ends, storeVars, registryVars, noteVars, stateVars
<1>8. ASSUME NEW t \in Thread, Refused(t)
      PROVE  RemovedInv'
  BY <1>8
  DEF Refused, RemovedInv, BytesInv, UsedInv, Writing, Stored, At, Idle, Ends, storeVars,
      registryVars, noteVars, stateVars
<1>9. ASSUME NEW t \in Thread, SaveFile(t)
      PROVE  RemovedInv'
  <2>1. SaveFileFacts(t)
    BY <1>9, SaveFileEffect
  <2>2. UNCHANGED <<storeVars, registryVars, noteVars, snapshots, promised, removed, said,
      disturbed>>
    BY <1>9 DEF SaveFile
  <2> QED
    BY <2>1, <2>2 DEF SaveFileFacts, RemovedInv, BytesInv, UsedInv, Writing, Stored, At, Idle,
        storeVars, registryVars, noteVars
<1>10. ASSUME NEW t \in Thread, SaveRecord(t)
      PROVE  RemovedInv'
  <2>1. SaveRecordFacts(t)
    BY <1>10, SaveRecordEffect
  <2>2. UNCHANGED <<storeVars, registryVars, noteVars, stateFiles, used, promised, removed,
      said, disturbed>>
    BY <1>10 DEF SaveRecord
  <2> QED
    BY <2>1, <2>2 DEF SaveRecordFacts, RemovedInv, BytesInv, UsedInv, Writing, Stored, At, Idle,
        storeVars, registryVars, noteVars
<1>11. ASSUME NEW t \in Thread, DropRecord(t)
      PROVE  RemovedInv'
  <2>1. DropRecordFacts(t)
    BY <1>11, DropRecordEffect
  <2>2. UNCHANGED <<storeVars, registryVars, noteVars, stateFiles, used, promised, removed,
      said, disturbed>>
    BY <1>11 DEF DropRecord
  <2> QED
    BY <2>1, <2>2
    DEF DropRecordFacts, RemovedInv, BytesInv, UsedInv, Writing, Stored, At, storeVars,
        registryVars, noteVars
<1>12. ASSUME NEW t \in Thread, DropFile(t)
      PROVE  RemovedInv'
  BY <1>12
  DEF DropFile, RemovedInv, BytesInv, UsedInv, Writing, Stored, At, Idle, Ends, storeVars,
      registryVars, noteVars, stateVars
<1>13. ASSUME NEW t \in Thread, CreateContext(t)
      PROVE  RemovedInv'
  BY <1>13
  DEF CreateContext, RemovedInv, BytesInv, UsedInv, Writing, Stored, At, storeVars, noteVars,
      stateVars
<1>14. ASSUME NEW t \in Thread, PersistCreated(t)
      PROVE  RemovedInv'
  BY <1>14
  DEF PersistCreated, RemovedInv, BytesInv, UsedInv, Writing, Stored, At, Idle, Ends, storeVars,
      noteVars, stateVars
<1>15. ASSUME NEW t \in Thread, CloseContext(t)
      PROVE  RemovedInv'
  BY <1>15
  DEF CloseContext, RemovedInv, BytesInv, UsedInv, Writing, Stored, At, storeVars, noteVars,
      stateVars
<1>16. ASSUME NEW t \in Thread, PruneContext(t)
      PROVE  RemovedInv'
  BY <1>16
  DEF PruneContext, NoteFacts, InFlight, RemovedInv, BytesInv, UsedInv, Writing, Stored, At,
      storeVars, stateVars
<1>17. ASSUME NEW t \in Thread, PruneArtifacts(t)
      PROVE  RemovedInv'
  BY <1>17
  DEF PruneArtifacts, DeleteContext, PersistIndex, Without, Owned, OwnedCaptures, RemovedInv,
      BytesInv, UsedInv, Writing, Stored, At, Becomes, registryVars, noteVars, stateVars
<1>18. ASSUME NEW t \in Thread, PruneStates(t)
      PROVE  RemovedInv'
  BY <1>18
  DEF PruneStates, RemovedInv, BytesInv, UsedInv, Writing, Stored, At, Idle, Ends, storeVars,
      registryVars, noteVars, stateVars
<1>19. CASE Sweep
  BY <1>19
  DEF Sweep, ExpireOlderThan, Expired, ExpiredCaptures, PersistIndex, Without, RemovedInv,
      BytesInv, UsedInv, Writing, Stored, At, registryVars, noteVars, stateVars
<1>20. CASE TimePasses
  BY <1>20
  DEF TimePasses, Age, RemovedInv, BytesInv, UsedInv, Writing, Stored, At, registryVars,
      noteVars, stateVars
<1>21. CASE Restart
  BY <1>21 DEF Restart, RestartStore, Recovered, RemovedInv, BytesInv, UsedInv, Writing, Stored,
      At, Idle
<1>22. CASE UNCHANGED workVars
  BY <1>22 DEF workVars, RemovedInv
<1> QED
  BY <1>1, <1>2, <1>3, <1>4, <1>5, <1>6, <1>7, <1>8, <1>9, <1>10, <1>11, <1>12, <1>13, <1>14,
      <1>15, <1>16, <1>17, <1>18, <1>19, <1>20, <1>21, <1>22 DEF WorkspaceNext

\* A promised artifact has its entry in memory and in the document.
LEMMA PromisedStep ==
  ASSUME TypeInv, UsedInv, BytesInv, IndexInv, RemovedInv, PromisedInv, [WorkspaceNext]_workVars
  PROVE  PromisedInv'
<1>1. ASSUME NEW t \in Thread, NEW c \in Context, NEW op \in FirstOps, Resolve(t, c, op)
      PROVE  PromisedInv'
  BY <1>1
  DEF Resolve, PromisedInv, BytesInv, Writing, Stored, At, storeVars, registryVars, noteVars,
      stateVars
<1>2. ASSUME NEW t \in Thread, PutBytes(t)
      PROVE  PromisedInv'
  <2>1. PutBytesFacts(t)
    BY <1>2, PutBytesEffect
  <2>2. UNCHANGED <<registryVars, noteVars, stateVars, promised, removed, said, disturbed>>
    BY <1>2 DEF PutBytes, WriteBytes
  <2> QED
    BY <2>1, <2>2
    DEF PutBytesFacts, PromisedInv, BytesInv, Writing, Stored, Idle, registryVars, noteVars,
        stateVars
<1>3. ASSUME NEW t \in Thread, PutEntry(t)
      PROVE  PromisedInv'
  <2>1. PutEntryFacts(t)
    BY <1>3, PutEntryEffect
  <2>2. UNCHANGED <<registryVars, noteVars, stateVars, removed, said, disturbed>>
    BY <1>3 DEF PutEntry
  <2> QED
    BY <2>1, <2>2, CallTypes, IdAssumption
    DEF PutEntryFacts, PromisedInv, BytesInv, Writing, Stored, Idle, CallRecord, TypeInv,
        WorkspaceTypeOK, StoreTypeOK, registryVars, noteVars, stateVars, PersistIndex
<1>4. ASSUME NEW t \in Thread, PutCapture(t)
      PROVE  PromisedInv'
  BY <1>4, CallTypes, IdAssumption
  DEF PutCapture, RegisterCapture, PersistIndex, PromisedInv, BytesInv, Writing, Stored, At,
      Idle, CallRecord, TypeInv, WorkspaceTypeOK, StoreTypeOK, Ends, registryVars, noteVars,
      stateVars
<1>5. ASSUME NEW t \in Thread, Annotate(t)
      PROVE  PromisedInv'
  BY <1>5, CallTypes, IdAssumption
  DEF Annotate, ChangeNotes, PersistNotes, PromisedInv, BytesInv, Writing, Stored, At, Idle,
      CallRecord, TypeInv, WorkspaceTypeOK, StoreTypeOK, Ends, storeVars, registryVars, noteVars,
      stateVars
<1>6. ASSUME NEW t \in Thread, ImportNotes(t)
      PROVE  PromisedInv'
  BY <1>6, CallTypes, IdAssumption
  DEF ImportNotes, ChangeNotes, PersistNotes, PromisedInv, BytesInv, Writing, Stored, At, Idle,
      CallRecord, TypeInv, WorkspaceTypeOK, StoreTypeOK, Ends, storeVars, registryVars, noteVars,
      stateVars
<1>7. ASSUME NEW t \in Thread, Erase(t)
      PROVE  PromisedInv'
  BY <1>7
  DEF Erase, ChangeNotes, PersistNotes, PromisedInv, BytesInv, Writing, Stored, At, Idle, Ends,
      storeVars, registryVars, noteVars, stateVars
<1>8. ASSUME NEW t \in Thread, Refused(t)
      PROVE  PromisedInv'
  BY <1>8
  DEF Refused, PromisedInv, BytesInv, Writing, Stored, At, Idle, Ends, storeVars, registryVars,
      noteVars, stateVars
<1>9. ASSUME NEW t \in Thread, SaveFile(t)
      PROVE  PromisedInv'
  <2>1. SaveFileFacts(t)
    BY <1>9, SaveFileEffect
  <2>2. UNCHANGED <<storeVars, registryVars, noteVars, snapshots, promised, removed, said,
      disturbed>>
    BY <1>9 DEF SaveFile
  <2> QED
    BY <2>1, <2>2 DEF SaveFileFacts, PromisedInv, BytesInv, Writing, Stored, At, Idle,
        storeVars, registryVars, noteVars
<1>10. ASSUME NEW t \in Thread, SaveRecord(t)
      PROVE  PromisedInv'
  <2>1. SaveRecordFacts(t)
    BY <1>10, SaveRecordEffect
  <2>2. UNCHANGED <<storeVars, registryVars, noteVars, stateFiles, used, promised, removed,
      said, disturbed>>
    BY <1>10 DEF SaveRecord
  <2> QED
    BY <2>1, <2>2 DEF SaveRecordFacts, PromisedInv, BytesInv, Writing, Stored, At, Idle,
        storeVars, registryVars, noteVars
<1>11. ASSUME NEW t \in Thread, DropRecord(t)
      PROVE  PromisedInv'
  <2>1. DropRecordFacts(t)
    BY <1>11, DropRecordEffect
  <2>2. UNCHANGED <<storeVars, registryVars, noteVars, stateFiles, used, promised, removed,
      said, disturbed>>
    BY <1>11 DEF DropRecord
  <2> QED
    BY <2>1, <2>2
    DEF DropRecordFacts, PromisedInv, BytesInv, Writing, Stored, At, storeVars, registryVars,
        noteVars
<1>12. ASSUME NEW t \in Thread, DropFile(t)
      PROVE  PromisedInv'
  BY <1>12
  DEF DropFile, PromisedInv, BytesInv, Writing, Stored, At, Idle, Ends, storeVars, registryVars,
      noteVars, stateVars
<1>13. ASSUME NEW t \in Thread, CreateContext(t)
      PROVE  PromisedInv'
  BY <1>13
  DEF CreateContext, PromisedInv, BytesInv, Writing, Stored, At, storeVars, noteVars, stateVars
<1>14. ASSUME NEW t \in Thread, PersistCreated(t)
      PROVE  PromisedInv'
  BY <1>14
  DEF PersistCreated, PromisedInv, BytesInv, Writing, Stored, At, Idle, Ends, storeVars,
      noteVars, stateVars
<1>15. ASSUME NEW t \in Thread, CloseContext(t)
      PROVE  PromisedInv'
  BY <1>15
  DEF CloseContext, PromisedInv, BytesInv, Writing, Stored, At, storeVars, noteVars, stateVars
<1>16. ASSUME NEW t \in Thread, PruneContext(t)
      PROVE  PromisedInv'
  BY <1>16
  DEF PruneContext, NoteFacts, InFlight, PromisedInv, BytesInv, Writing, Stored, At, storeVars,
      stateVars
<1>17. ASSUME NEW t \in Thread, PruneArtifacts(t)
      PROVE  PromisedInv'
  BY <1>17, CallTypes, IdAssumption
  DEF PruneArtifacts, DeleteContext, PersistIndex, Without, Owned, OwnedCaptures, PromisedInv,
      BytesInv, Writing, Stored, At, CallRecord, TypeInv, WorkspaceTypeOK, StoreTypeOK, Becomes,
      registryVars, noteVars, stateVars
<1>18. ASSUME NEW t \in Thread, PruneStates(t)
      PROVE  PromisedInv'
  BY <1>18
  DEF PruneStates, PromisedInv, BytesInv, Writing, Stored, At, Idle, Ends, storeVars,
      registryVars, noteVars, stateVars
<1>19. CASE Sweep
  BY <1>19, CallTypes, IdAssumption
  DEF Sweep, ExpireOlderThan, Expired, ExpiredCaptures, PersistIndex, Without, PromisedInv,
      BytesInv, Writing, Stored, CallRecord, TypeInv, WorkspaceTypeOK, StoreTypeOK, registryVars,
      noteVars, stateVars
<1>20. CASE TimePasses
  BY <1>20
  DEF TimePasses, Age, PromisedInv, BytesInv, Writing, Stored, registryVars, noteVars, stateVars
<1>21. CASE Restart
  BY <1>21 DEF Restart, RestartStore, Recovered, PromisedInv, BytesInv, Writing, Stored, Idle
<1>22. CASE UNCHANGED workVars
  BY <1>22 DEF workVars, PromisedInv
<1> QED
  BY <1>1, <1>2, <1>3, <1>4, <1>5, <1>6, <1>7, <1>8, <1>9, <1>10, <1>11, <1>12, <1>13, <1>14,
      <1>15, <1>16, <1>17, <1>18, <1>19, <1>20, <1>21, <1>22 DEF WorkspaceNext

\* What can be recovered stays recoverable until it is removed.
LEMMA KeptStep ==
  ASSUME TypeInv, UsedInv, BytesInv, IndexInv, RemovedInv, [WorkspaceNext]_workVars
  PROVE  KeptParts \subseteq KeptParts'
<1>1. ASSUME NEW t \in Thread, NEW c \in Context, NEW op \in FirstOps, Resolve(t, c, op)
      PROVE  KeptParts \subseteq KeptParts'
  BY <1>1
  DEF Resolve, KeptParts, Recovered, IndexInv, BytesInv, UsedInv, Writing, Stored, At,
      storeVars, registryVars, noteVars, stateVars
<1>2. ASSUME NEW t \in Thread, PutBytes(t)
      PROVE  KeptParts \subseteq KeptParts'
  <2>1. PutBytesFacts(t)
    BY <1>2, PutBytesEffect
  <2>2. UNCHANGED <<registryVars, noteVars, stateVars, promised, removed, said, disturbed>>
    BY <1>2 DEF PutBytes, WriteBytes
  <2> QED
    BY <2>1, <2>2 DEF PutBytesFacts, KeptParts, Recovered, IndexInv, BytesInv, UsedInv, Writing,
        Stored, At, Idle, registryVars, noteVars, stateVars
<1>3. ASSUME NEW t \in Thread, PutEntry(t)
      PROVE  KeptParts \subseteq KeptParts'
  <2>1. PutEntryFacts(t)
    BY <1>3, PutEntryEffect
  <2>2. UNCHANGED <<registryVars, noteVars, stateVars, removed, said, disturbed>>
    BY <1>3 DEF PutEntry
  <2> QED
    BY <2>1, <2>2 DEF PutEntryFacts, KeptParts, Recovered, IndexInv, BytesInv, UsedInv, Writing,
        Stored, At, Idle, registryVars, noteVars, stateVars, PersistIndex
<1>4. ASSUME NEW t \in Thread, PutCapture(t)
      PROVE  KeptParts \subseteq KeptParts'
  BY <1>4
  DEF PutCapture, RegisterCapture, PersistIndex, KeptParts, Recovered, IndexInv, BytesInv,
      UsedInv, Writing, Stored, At, Idle, Ends, registryVars, noteVars, stateVars
<1>5. ASSUME NEW t \in Thread, Annotate(t)
      PROVE  KeptParts \subseteq KeptParts'
  BY <1>5
  DEF Annotate, ChangeNotes, PersistNotes, KeptParts, Recovered, IndexInv, BytesInv, UsedInv,
      Writing, Stored, At, Idle, Ends, storeVars, registryVars, noteVars, stateVars
<1>6. ASSUME NEW t \in Thread, ImportNotes(t)
      PROVE  KeptParts \subseteq KeptParts'
  BY <1>6
  DEF ImportNotes, ChangeNotes, PersistNotes, KeptParts, Recovered, IndexInv, BytesInv, UsedInv,
      Writing, Stored, At, Idle, Ends, storeVars, registryVars, noteVars, stateVars
<1>7. ASSUME NEW t \in Thread, Erase(t)
      PROVE  KeptParts \subseteq KeptParts'
  BY <1>7
  DEF Erase, ChangeNotes, PersistNotes, KeptParts, Recovered, IndexInv, BytesInv, UsedInv,
      Writing, Stored, At, Idle, Ends, storeVars, registryVars, noteVars, stateVars
<1>8. ASSUME NEW t \in Thread, Refused(t)
      PROVE  KeptParts \subseteq KeptParts'
  BY <1>8
  DEF Refused, KeptParts, Recovered, IndexInv, BytesInv, UsedInv, Writing, Stored, At, Idle,
      Ends, storeVars, registryVars, noteVars, stateVars
<1>9. ASSUME NEW t \in Thread, SaveFile(t)
      PROVE  KeptParts \subseteq KeptParts'
  <2>1. SaveFileFacts(t)
    BY <1>9, SaveFileEffect
  <2>2. UNCHANGED <<storeVars, registryVars, noteVars, snapshots, promised, removed, said,
      disturbed>>
    BY <1>9 DEF SaveFile
  <2> QED
    BY <2>1, <2>2 DEF SaveFileFacts, KeptParts, Recovered, IndexInv, BytesInv, UsedInv, Writing,
        Stored, At, Idle, storeVars, registryVars, noteVars
<1>10. ASSUME NEW t \in Thread, SaveRecord(t)
      PROVE  KeptParts \subseteq KeptParts'
  <2>1. SaveRecordFacts(t)
    BY <1>10, SaveRecordEffect
  <2>2. UNCHANGED <<storeVars, registryVars, noteVars, stateFiles, used, promised, removed,
      said, disturbed>>
    BY <1>10 DEF SaveRecord
  <2> QED
    BY <2>1, <2>2 DEF SaveRecordFacts, KeptParts, Recovered, IndexInv, BytesInv, UsedInv,
        Writing, Stored, At, Idle, storeVars, registryVars, noteVars
<1>11. ASSUME NEW t \in Thread, DropRecord(t)
      PROVE  KeptParts \subseteq KeptParts'
  <2>1. DropRecordFacts(t)
    BY <1>11, DropRecordEffect
  <2>2. UNCHANGED <<storeVars, registryVars, noteVars, stateFiles, used, promised, removed,
      said, disturbed>>
    BY <1>11 DEF DropRecord
  <2> QED
    BY <2>1, <2>2
    DEF DropRecordFacts, KeptParts, Recovered, IndexInv, BytesInv, UsedInv, Writing, Stored, At,
        storeVars, registryVars, noteVars
<1>12. ASSUME NEW t \in Thread, DropFile(t)
      PROVE  KeptParts \subseteq KeptParts'
  BY <1>12
  DEF DropFile, KeptParts, Recovered, IndexInv, BytesInv, UsedInv, Writing, Stored, At, Idle,
      Ends, storeVars, registryVars, noteVars, stateVars
<1>13. ASSUME NEW t \in Thread, CreateContext(t)
      PROVE  KeptParts \subseteq KeptParts'
  BY <1>13
  DEF CreateContext, KeptParts, Recovered, IndexInv, BytesInv, UsedInv, Writing, Stored, At,
      storeVars, noteVars, stateVars
<1>14. ASSUME NEW t \in Thread, PersistCreated(t)
      PROVE  KeptParts \subseteq KeptParts'
  BY <1>14
  DEF PersistCreated, KeptParts, Recovered, IndexInv, BytesInv, UsedInv, Writing, Stored, At,
      Idle, Ends, storeVars, noteVars, stateVars
<1>15. ASSUME NEW t \in Thread, CloseContext(t)
      PROVE  KeptParts \subseteq KeptParts'
  BY <1>15
  DEF CloseContext, KeptParts, Recovered, IndexInv, BytesInv, UsedInv, Writing, Stored, At,
      storeVars, noteVars, stateVars
<1>16. ASSUME NEW t \in Thread, PruneContext(t)
      PROVE  KeptParts \subseteq KeptParts'
  BY <1>16
  DEF PruneContext, NoteFacts, InFlight, KeptParts, Recovered, IndexInv, BytesInv, UsedInv,
      Writing, Stored, At, storeVars, stateVars
<1>17. ASSUME NEW t \in Thread, PruneArtifacts(t)
      PROVE  KeptParts \subseteq KeptParts'
  BY <1>17, CallTypes, IdAssumption
  DEF PruneArtifacts, DeleteContext, PersistIndex, Without, Owned, OwnedCaptures, KeptParts,
      Recovered, IndexInv, BytesInv, UsedInv, Writing, Stored, At, CallRecord, TypeInv,
      WorkspaceTypeOK, StoreTypeOK, Becomes, registryVars, noteVars, stateVars
<1>18. ASSUME NEW t \in Thread, PruneStates(t)
      PROVE  KeptParts \subseteq KeptParts'
  BY <1>18
  DEF PruneStates, KeptParts, Recovered, IndexInv, BytesInv, UsedInv, Writing, Stored, At, Idle,
      Ends, storeVars, registryVars, noteVars, stateVars
<1>19. CASE Sweep
  BY <1>19, CallTypes, IdAssumption
  DEF Sweep, ExpireOlderThan, Expired, ExpiredCaptures, PersistIndex, Without, KeptParts,
      Recovered, IndexInv, BytesInv, UsedInv, Writing, Stored, At, CallRecord, TypeInv,
      WorkspaceTypeOK, StoreTypeOK, registryVars, noteVars, stateVars
<1>20. CASE TimePasses
  BY <1>20
  DEF TimePasses, Age, KeptParts, Recovered, IndexInv, BytesInv, UsedInv, Writing, Stored, At,
      registryVars, noteVars, stateVars
<1>21. CASE Restart
  BY <1>21 DEF Restart, RestartStore, Recovered, KeptParts, IndexInv, BytesInv, UsedInv,
      Writing, Stored, At, Idle
<1>22. CASE UNCHANGED workVars
  BY <1>22 DEF workVars, KeptParts, Recovered
<1> QED
  BY <1>1, <1>2, <1>3, <1>4, <1>5, <1>6, <1>7, <1>8, <1>9, <1>10, <1>11, <1>12, <1>13, <1>14,
      <1>15, <1>16, <1>17, <1>18, <1>19, <1>20, <1>21, <1>22 DEF WorkspaceNext

\* A capture is made of artifacts that were kept, and a promised one is in both.
LEMMA CapturesStep ==
  ASSUME TypeInv, UsedInv, BytesInv, IndexInv, RemovedInv, CapturesInv, [WorkspaceNext]_workVars
  PROVE  CapturesInv'
<1>0. KeptParts \subseteq KeptParts'
  BY KeptStep
<1>1. ASSUME NEW t \in Thread, NEW c \in Context, NEW op \in FirstOps, Resolve(t, c, op)
      PROVE  CapturesInv'
  BY <1>1, CallTypes, IdAssumption, WorkspaceAssumption, <1>0
  DEF Resolve, CapturesInv, At, CallRecord, TypeInv, WorkspaceTypeOK, StoreTypeOK, CarriedIds,
      FirstOps, storeVars, registryVars, noteVars, stateVars
<1>2. ASSUME NEW t \in Thread, PutBytes(t)
      PROVE  CapturesInv'
  <2>1. PutBytesFacts(t)
    BY <1>2, PutBytesEffect
  <2>2. UNCHANGED <<registryVars, noteVars, stateVars, promised, removed, said, disturbed>>
    BY <1>2 DEF PutBytes, WriteBytes
  <2> QED
    BY <2>1, <2>2, <1>0 DEF PutBytesFacts, CapturesInv, At, Idle, registryVars, noteVars, stateVars
<1>3. ASSUME NEW t \in Thread, PutEntry(t)
      PROVE  CapturesInv'
  <2>1. PutEntryFacts(t)
    BY <1>3, PutEntryEffect
  <2>2. PICK ok \in BOOLEAN :
          /\ PersistIndex(ok)
          /\ promised' = IF ok THEN promised \cup {call[t].id} ELSE promised
          /\ \/ call'[t] = Idle
             \/ ok /\ call'[t] = [op |-> "register", context |-> call[t].context, id |-> call[t].id]
    BY <2>1 DEF PutEntryFacts
  <2>3. At(t, "register")' => call'[t].id \in KeptParts'
    <3>1. CASE call'[t] = Idle
      BY <3>1 DEF At, Idle
    <3>2. CASE ok /\ call'[t].id = call[t].id
      <4>1. call[t].id \in Artifact \cap files' /\ index'.artifacts[call[t].id] # None
        BY <2>1, <2>2, <3>2, IdAssumption
        DEF PutEntryFacts, PersistIndex, BytesInv, TypeInv, WorkspaceTypeOK, StoreTypeOK
      <4> QED
        BY <3>2, <4>1 DEF KeptParts, Recovered
    <3> QED
      BY <2>2, <3>1, <3>2
  <2>4. \A k \in Capture :
          /\ captures'[k].parts \cup index'.captures[k].parts \subseteq KeptParts
          /\ k \in promised' => captures'[k] # NoCapture /\ index'.captures[k] # NoCapture
    BY <2>1, <2>2, IdAssumption DEF PutEntryFacts, PersistIndex, CapturesInv
  <2>5. \A u \in Thread \ {t} : call'[u] = call[u]
    BY <2>1 DEF PutEntryFacts
  <2> QED
    BY <1>0, <2>3, <2>4, <2>5 DEF CapturesInv, At
<1>4. ASSUME NEW t \in Thread, PutCapture(t)
      PROVE  CapturesInv'
  <2>1. PICK k \in Capture, ok \in BOOLEAN :
          /\ At(t, "register") /\ Ends(t)
          /\ RegisterCapture(k, call[t].context, {call[t].id}, ok)
          /\ promised' = IF ok THEN promised \cup {k} ELSE promised
    BY <1>4 DEF PutCapture
  <2>2. call[t].id \in KeptParts /\ call[t].context \in Context
    BY <2>1, CallTypes DEF CapturesInv
  <2>3. captures'[k] # NoCapture /\ captures'[k].parts \subseteq KeptParts
    BY <2>1, <2>2, IdAssumption
    DEF RegisterCapture, NoCapture, TypeInv, WorkspaceTypeOK, StoreTypeOK
  <2>4. \A l \in Capture \ {k} : captures'[l] = captures[l]
    BY <2>1 DEF RegisterCapture, TypeInv, WorkspaceTypeOK, StoreTypeOK
  <2>5. \A l \in Capture : captures'[l].parts \subseteq KeptParts
    BY <2>3, <2>4 DEF CapturesInv
  <2>6. \A l \in Capture : l \in promised' => captures'[l] # NoCapture
    BY <2>1, <2>3, <2>4 DEF CapturesInv
  <2>7. \A l \in Capture :
          /\ index'.captures[l].parts \subseteq KeptParts
          /\ l \in promised' => index'.captures[l] # NoCapture
    BY <2>1, <2>5, <2>6 DEF RegisterCapture, PersistIndex, CapturesInv
  <2>8. call'[t] = Idle /\ \A u \in Thread \ {t} : call'[u] = call[u]
    BY <2>1, Returns
  <2> QED
    BY <1>0, <2>5, <2>6, <2>7, <2>8 DEF CapturesInv, At, Idle
<1>5. ASSUME NEW t \in Thread, Annotate(t)
      PROVE  CapturesInv'
  BY <1>5, CallTypes, IdAssumption, <1>0
  DEF Annotate, ChangeNotes, PersistNotes, CapturesInv, At, Idle, CallRecord, TypeInv,
      WorkspaceTypeOK, StoreTypeOK, Ends, storeVars, registryVars, noteVars, stateVars
<1>6. ASSUME NEW t \in Thread, ImportNotes(t)
      PROVE  CapturesInv'
  BY <1>6, CallTypes, IdAssumption, <1>0
  DEF ImportNotes, ChangeNotes, PersistNotes, CapturesInv, At, Idle, CallRecord, TypeInv,
      WorkspaceTypeOK, StoreTypeOK, Ends, storeVars, registryVars, noteVars, stateVars
<1>7. ASSUME NEW t \in Thread, Erase(t)
      PROVE  CapturesInv'
  BY <1>7, <1>0
  DEF Erase, ChangeNotes, PersistNotes, CapturesInv, At, Idle, Ends, storeVars, registryVars,
      noteVars, stateVars
<1>8. ASSUME NEW t \in Thread, Refused(t)
      PROVE  CapturesInv'
  BY <1>8, <1>0
  DEF Refused, CapturesInv, At, Idle, Ends, storeVars, registryVars, noteVars, stateVars
<1>9. ASSUME NEW t \in Thread, SaveFile(t)
      PROVE  CapturesInv'
  <2>1. SaveFileFacts(t)
    BY <1>9, SaveFileEffect
  <2>2. UNCHANGED <<storeVars, registryVars, noteVars, snapshots, promised, removed, said,
      disturbed>>
    BY <1>9 DEF SaveFile
  <2> QED
    BY <2>1, <2>2, <1>0 DEF SaveFileFacts, CapturesInv, At, Idle, storeVars, registryVars, noteVars
<1>10. ASSUME NEW t \in Thread, SaveRecord(t)
      PROVE  CapturesInv'
  <2>1. SaveRecordFacts(t)
    BY <1>10, SaveRecordEffect
  <2>2. UNCHANGED <<storeVars, registryVars, noteVars, stateFiles, used, promised, removed,
      said, disturbed>>
    BY <1>10 DEF SaveRecord
  <2> QED
    BY <2>1, <2>2, <1>0 DEF SaveRecordFacts, CapturesInv, At, Idle, storeVars, registryVars,
        noteVars
<1>11. ASSUME NEW t \in Thread, DropRecord(t)
      PROVE  CapturesInv'
  <2>1. DropRecordFacts(t)
    BY <1>11, DropRecordEffect
  <2>2. UNCHANGED <<storeVars, registryVars, noteVars, stateFiles, used, promised, removed,
      said, disturbed>>
    BY <1>11 DEF DropRecord
  <2> QED
    BY <2>1, <2>2, <1>0 DEF DropRecordFacts, CapturesInv, At, storeVars, registryVars, noteVars
<1>12. ASSUME NEW t \in Thread, DropFile(t)
      PROVE  CapturesInv'
  BY <1>12, <1>0
  DEF DropFile, CapturesInv, At, Idle, Ends, storeVars, registryVars, noteVars, stateVars
<1>13. ASSUME NEW t \in Thread, CreateContext(t)
      PROVE  CapturesInv'
  BY <1>13, <1>0 DEF CreateContext, CapturesInv, At, storeVars, noteVars, stateVars
<1>14. ASSUME NEW t \in Thread, PersistCreated(t)
      PROVE  CapturesInv'
  BY <1>14, <1>0 DEF PersistCreated, CapturesInv, At, Idle, Ends, storeVars, noteVars, stateVars
<1>15. ASSUME NEW t \in Thread, CloseContext(t)
      PROVE  CapturesInv'
  BY <1>15, <1>0 DEF CloseContext, CapturesInv, At, storeVars, noteVars, stateVars
<1>16. ASSUME NEW t \in Thread, PruneContext(t)
      PROVE  CapturesInv'
  BY <1>16, <1>0 DEF PruneContext, NoteFacts, InFlight, CapturesInv, At, storeVars, stateVars
<1>17. ASSUME NEW t \in Thread, PruneArtifacts(t)
      PROVE  CapturesInv'
  <2>1. PICK gone \in SUBSET Owned(call[t].context), kept \in BOOLEAN :
          /\ DeleteContext(call[t].context, gone, kept)
          /\ promised' = promised \ (gone \cup OwnedCaptures(call[t].context))
    BY <1>17 DEF PruneArtifacts
  <2>0. /\ captures' = captures \/ captures' = Without(captures, OwnedCaptures(call[t].context), NoCapture)
        /\ index' = index \/ index'.captures = captures'
    BY <2>1 DEF DeleteContext, PersistIndex
  <2>2. \A k \in Capture :
          captures'[k] = captures[k] \/ (captures'[k] = NoCapture /\ k \in OwnedCaptures(call[t].context))
    <3>1. DOMAIN captures = Capture
      BY DEF TypeInv, WorkspaceTypeOK, StoreTypeOK
    <3>2. CASE captures' = captures
      BY <3>2
    <3>3. CASE captures' = Without(captures, OwnedCaptures(call[t].context), NoCapture)
      BY <3>1, <3>3, Zenon DEF Without
    <3> QED
      BY <2>0, <3>2, <3>3
  <2>5. \A k \in Capture :
          index'.captures[k] = index.captures[k] \/ index'.captures[k] = captures'[k]
    BY <2>0
  <2>3. \A k \in Capture :
          /\ captures'[k].parts \cup index'.captures[k].parts \subseteq KeptParts
          /\ k \in promised' => captures'[k] # NoCapture /\ index'.captures[k] # NoCapture
    <3>1. TAKE k \in Capture
    <3>2. k \in promised' => k \in promised /\ k \notin OwnedCaptures(call[t].context)
      BY <2>1
    <3>3. captures[k].parts \subseteq KeptParts /\ index.captures[k].parts \subseteq KeptParts
      BY DEF CapturesInv
    <3>4. captures'[k].parts \subseteq KeptParts
      BY <2>2, <3>3 DEF NoCapture
    <3>5. index'.captures[k].parts \subseteq KeptParts
      BY <2>5, <3>3, <3>4
    <3>6. k \in promised' => captures'[k] # NoCapture /\ index'.captures[k] # NoCapture
      BY <2>2, <2>5, <3>2 DEF CapturesInv
    <3> QED
      BY <3>4, <3>5, <3>6
  <2>4. /\ call'[t] = [op |-> "pruneStates", context |-> call[t].context, id |-> None]
        /\ \A u \in Thread \ {t} : call'[u] = call[u]
    <3>1. Becomes(t, "pruneStates", None)
      BY <1>17 DEF PruneArtifacts
    <3> QED
      BY <3>1, Moves
  <2> QED
    BY <1>0, <2>3, <2>4 DEF CapturesInv, At
<1>18. ASSUME NEW t \in Thread, PruneStates(t)
      PROVE  CapturesInv'
  BY <1>18, <1>0
  DEF PruneStates, CapturesInv, At, Idle, Ends, storeVars, registryVars, noteVars, stateVars
<1>19. CASE Sweep
  <2>1. PICK gone \in SUBSET Expired, kept \in BOOLEAN :
          /\ ExpireOlderThan(gone, kept)
          /\ promised' = promised \ (gone \cup ExpiredCaptures)
    BY <1>19 DEF Sweep
  <2>0. /\ captures' = captures \/ captures' = Without(captures, ExpiredCaptures, NoCapture)
        /\ index' = index \/ index'.captures = captures'
    BY <2>1 DEF ExpireOlderThan, PersistIndex
  <2>2. \A k \in Capture :
          captures'[k] = captures[k] \/ (captures'[k] = NoCapture /\ k \in ExpiredCaptures)
    <3>1. DOMAIN captures = Capture
      BY DEF TypeInv, WorkspaceTypeOK, StoreTypeOK
    <3>2. CASE captures' = captures
      BY <3>2
    <3>3. CASE captures' = Without(captures, ExpiredCaptures, NoCapture)
      BY <3>1, <3>3, Zenon DEF Without
    <3> QED
      BY <2>0, <3>2, <3>3
  <2>5. \A k \in Capture :
          index'.captures[k] = index.captures[k] \/ index'.captures[k] = captures'[k]
    BY <2>0
  <2>3. \A k \in Capture :
          /\ captures'[k].parts \cup index'.captures[k].parts \subseteq KeptParts
          /\ k \in promised' => captures'[k] # NoCapture /\ index'.captures[k] # NoCapture
    <3>1. TAKE k \in Capture
    <3>2. k \in promised' => k \in promised /\ k \notin ExpiredCaptures
      BY <2>1
    <3>3. captures[k].parts \subseteq KeptParts /\ index.captures[k].parts \subseteq KeptParts
      BY DEF CapturesInv
    <3>4. captures'[k].parts \subseteq KeptParts
      BY <2>2, <3>3 DEF NoCapture
    <3>5. index'.captures[k].parts \subseteq KeptParts
      BY <2>5, <3>3, <3>4
    <3>6. k \in promised' => captures'[k] # NoCapture /\ index'.captures[k] # NoCapture
      BY <2>2, <2>5, <3>2 DEF CapturesInv
    <3> QED
      BY <3>4, <3>5, <3>6
  <2> QED
    BY <1>19, <1>0, <2>3 DEF Sweep, CapturesInv, At
<1>20. CASE TimePasses
  BY <1>20, <1>0 DEF TimePasses, Age, CapturesInv, At, registryVars, noteVars, stateVars
<1>21. CASE Restart
  BY <1>21, <1>0 DEF Restart, RestartStore, Recovered, CapturesInv, At, Idle
<1>22. CASE UNCHANGED workVars
  BY <1>22, <1>0 DEF workVars, CapturesInv, At
<1> QED
  BY <1>1, <1>2, <1>3, <1>4, <1>5, <1>6, <1>7, <1>8, <1>9, <1>10, <1>11, <1>12, <1>13, <1>14,
      <1>15, <1>16, <1>17, <1>18, <1>19, <1>20, <1>21, <1>22 DEF WorkspaceNext

-----------------------------------------------------------------------------
\* A promised annotation is in memory and in the document.
LEMMA NotesStep ==
  ASSUME TypeInv, UsedInv, NotesInv, [WorkspaceNext]_workVars
  PROVE  NotesInv'
<1>1. ASSUME NEW t \in Thread, NEW c \in Context, NEW op \in FirstOps, Resolve(t, c, op)
      PROVE  NotesInv'
  BY <1>1 DEF Resolve, NotesInv, UsedInv, At, storeVars, registryVars, noteVars, stateVars
<1>2. ASSUME NEW t \in Thread, PutBytes(t)
      PROVE  NotesInv'
  <2>1. PutBytesFacts(t)
    BY <1>2, PutBytesEffect
  <2>2. UNCHANGED <<registryVars, noteVars, stateVars, promised, removed, said, disturbed>>
    BY <1>2 DEF PutBytes, WriteBytes
  <2> QED
    BY <2>1, <2>2 DEF PutBytesFacts, NotesInv, UsedInv, At, Idle, registryVars, noteVars, stateVars
<1>3. ASSUME NEW t \in Thread, PutEntry(t)
      PROVE  NotesInv'
  <2>1. PutEntryFacts(t)
    BY <1>3, PutEntryEffect
  <2>2. UNCHANGED <<registryVars, noteVars, stateVars, removed, said, disturbed>>
    BY <1>3 DEF PutEntry
  <2> QED
    BY <2>1, <2>2, CallTypes, IdAssumption DEF PutEntryFacts, NotesInv, UsedInv, At, Idle,
        CallRecord, TypeInv, WorkspaceTypeOK, StoreTypeOK, registryVars, noteVars, stateVars,
        PersistIndex
<1>4. ASSUME NEW t \in Thread, PutCapture(t)
      PROVE  NotesInv'
  BY <1>4, CallTypes, IdAssumption
  DEF PutCapture, RegisterCapture, PersistIndex, NotesInv, UsedInv, At, Idle, CallRecord,
      TypeInv, WorkspaceTypeOK, StoreTypeOK, Ends, registryVars, noteVars, stateVars
<1>5. ASSUME NEW t \in Thread, Annotate(t)
      PROVE  NotesInv'
  BY <1>5, CallTypes, IdAssumption
  DEF Annotate, ChangeNotes, PersistNotes, NotesInv, UsedInv, At, Idle, CallRecord, TypeInv,
      WorkspaceTypeOK, StoreTypeOK, Ends, storeVars, registryVars, noteVars, stateVars
<1>6. ASSUME NEW t \in Thread, ImportNotes(t)
      PROVE  NotesInv'
  BY <1>6, CallTypes, IdAssumption
  DEF ImportNotes, ChangeNotes, PersistNotes, NotesInv, UsedInv, At, Idle, CallRecord, TypeInv,
      WorkspaceTypeOK, StoreTypeOK, Ends, storeVars, registryVars, noteVars, stateVars
<1>7. ASSUME NEW t \in Thread, Erase(t)
      PROVE  NotesInv'
  BY <1>7, CallTypes, IdAssumption
  DEF Erase, ChangeNotes, PersistNotes, NotesInv, UsedInv, At, Idle, CallRecord, TypeInv,
      WorkspaceTypeOK, StoreTypeOK, Ends, storeVars, registryVars, noteVars, stateVars
<1>8. ASSUME NEW t \in Thread, Refused(t)
      PROVE  NotesInv'
  BY <1>8
  DEF Refused, NotesInv, UsedInv, At, Idle, Ends, storeVars, registryVars, noteVars, stateVars
<1>9. ASSUME NEW t \in Thread, SaveFile(t)
      PROVE  NotesInv'
  <2>1. SaveFileFacts(t)
    BY <1>9, SaveFileEffect
  <2>2. UNCHANGED <<storeVars, registryVars, noteVars, snapshots, promised, removed, said,
      disturbed>>
    BY <1>9 DEF SaveFile
  <2> QED
    BY <2>1, <2>2 DEF SaveFileFacts, NotesInv, UsedInv, At, Idle, storeVars, registryVars, noteVars
<1>10. ASSUME NEW t \in Thread, SaveRecord(t)
      PROVE  NotesInv'
  <2>1. SaveRecordFacts(t)
    BY <1>10, SaveRecordEffect
  <2>2. UNCHANGED <<storeVars, registryVars, noteVars, stateFiles, used, promised, removed,
      said, disturbed>>
    BY <1>10 DEF SaveRecord
  <2> QED
    BY <2>1, <2>2 DEF SaveRecordFacts, NotesInv, UsedInv, At, Idle, storeVars, registryVars,
        noteVars
<1>11. ASSUME NEW t \in Thread, DropRecord(t)
      PROVE  NotesInv'
  <2>1. DropRecordFacts(t)
    BY <1>11, DropRecordEffect
  <2>2. UNCHANGED <<storeVars, registryVars, noteVars, stateFiles, used, promised, removed,
      said, disturbed>>
    BY <1>11 DEF DropRecord
  <2> QED
    BY <2>1, <2>2 DEF DropRecordFacts, NotesInv, UsedInv, At, storeVars, registryVars, noteVars
<1>12. ASSUME NEW t \in Thread, DropFile(t)
      PROVE  NotesInv'
  BY <1>12
  DEF DropFile, NotesInv, UsedInv, At, Idle, Ends, storeVars, registryVars, noteVars, stateVars
<1>13. ASSUME NEW t \in Thread, CreateContext(t)
      PROVE  NotesInv'
  BY <1>13 DEF CreateContext, NotesInv, UsedInv, At, storeVars, noteVars, stateVars
<1>14. ASSUME NEW t \in Thread, PersistCreated(t)
      PROVE  NotesInv'
  BY <1>14 DEF PersistCreated, NotesInv, UsedInv, At, Idle, Ends, storeVars, noteVars, stateVars
<1>15. ASSUME NEW t \in Thread, CloseContext(t)
      PROVE  NotesInv'
  BY <1>15 DEF CloseContext, NotesInv, UsedInv, At, storeVars, noteVars, stateVars
<1>16. ASSUME NEW t \in Thread, PruneContext(t)
      PROVE  NotesInv'
  BY <1>16 DEF PruneContext, NoteFacts, InFlight, NotesInv, UsedInv, At, storeVars, stateVars
<1>17. ASSUME NEW t \in Thread, PruneArtifacts(t)
      PROVE  NotesInv'
  BY <1>17
  DEF PruneArtifacts, DeleteContext, PersistIndex, Without, Owned, OwnedCaptures, NotesInv,
      UsedInv, At, Becomes, registryVars, noteVars, stateVars
<1>18. ASSUME NEW t \in Thread, PruneStates(t)
      PROVE  NotesInv'
  BY <1>18
  DEF PruneStates, NotesInv, UsedInv, At, Idle, Ends, storeVars, registryVars, noteVars,
      stateVars
<1>19. CASE Sweep
  BY <1>19
  DEF Sweep, ExpireOlderThan, Expired, ExpiredCaptures, PersistIndex, Without, NotesInv,
      UsedInv, At, registryVars, noteVars, stateVars
<1>20. CASE TimePasses
  BY <1>20 DEF TimePasses, Age, NotesInv, UsedInv, At, registryVars, noteVars, stateVars
<1>21. CASE Restart
  BY <1>21 DEF Restart, RestartStore, Recovered, NotesInv, UsedInv, At, Idle
<1>22. CASE UNCHANGED workVars
  BY <1>22 DEF workVars, NotesInv
<1> QED
  BY <1>1, <1>2, <1>3, <1>4, <1>5, <1>6, <1>7, <1>8, <1>9, <1>10, <1>11, <1>12, <1>13, <1>14,
      <1>15, <1>16, <1>17, <1>18, <1>19, <1>20, <1>21, <1>22 DEF WorkspaceNext

\* The last acknowledged state of a context is that of the memory and of the document.
LEMMA SaidStep ==
  ASSUME TypeInv, UsedInv, SaidInv, [WorkspaceNext]_workVars
  PROVE  SaidInv'
<1>1. ASSUME NEW t \in Thread, NEW c \in Context, NEW op \in FirstOps, Resolve(t, c, op)
      PROVE  SaidInv'
  BY <1>1 DEF Resolve, SaidInv, UsedInv, At, storeVars, registryVars, noteVars, stateVars
<1>2. ASSUME NEW t \in Thread, PutBytes(t)
      PROVE  SaidInv'
  <2>1. PutBytesFacts(t)
    BY <1>2, PutBytesEffect
  <2>2. UNCHANGED <<registryVars, noteVars, stateVars, promised, removed, said, disturbed>>
    BY <1>2 DEF PutBytes, WriteBytes
  <2> QED
    BY <2>1, <2>2 DEF PutBytesFacts, SaidInv, UsedInv, At, Idle, registryVars, noteVars, stateVars
<1>3. ASSUME NEW t \in Thread, PutEntry(t)
      PROVE  SaidInv'
  <2>1. PutEntryFacts(t)
    BY <1>3, PutEntryEffect
  <2>2. UNCHANGED <<registryVars, noteVars, stateVars, removed, said, disturbed>>
    BY <1>3 DEF PutEntry
  <2> QED
    BY <2>1, <2>2 DEF PutEntryFacts, SaidInv, UsedInv, At, Idle, registryVars, noteVars,
        stateVars, PersistIndex
<1>4. ASSUME NEW t \in Thread, PutCapture(t)
      PROVE  SaidInv'
  BY <1>4
  DEF PutCapture, RegisterCapture, PersistIndex, SaidInv, UsedInv, At, Idle, Ends, registryVars,
      noteVars, stateVars
<1>5. ASSUME NEW t \in Thread, Annotate(t)
      PROVE  SaidInv'
  BY <1>5
  DEF Annotate, ChangeNotes, PersistNotes, SaidInv, UsedInv, At, Idle, Ends, storeVars,
      registryVars, noteVars, stateVars
<1>6. ASSUME NEW t \in Thread, ImportNotes(t)
      PROVE  SaidInv'
  BY <1>6
  DEF ImportNotes, ChangeNotes, PersistNotes, SaidInv, UsedInv, At, Idle, Ends, storeVars,
      registryVars, noteVars, stateVars
<1>7. ASSUME NEW t \in Thread, Erase(t)
      PROVE  SaidInv'
  BY <1>7
  DEF Erase, ChangeNotes, PersistNotes, SaidInv, UsedInv, At, Idle, Ends, storeVars,
      registryVars, noteVars, stateVars
<1>8. ASSUME NEW t \in Thread, Refused(t)
      PROVE  SaidInv'
  BY <1>8
  DEF Refused, SaidInv, UsedInv, At, Idle, Ends, storeVars, registryVars, noteVars, stateVars
<1>9. ASSUME NEW t \in Thread, SaveFile(t)
      PROVE  SaidInv'
  <2>1. SaveFileFacts(t)
    BY <1>9, SaveFileEffect
  <2>2. UNCHANGED <<storeVars, registryVars, noteVars, snapshots, promised, removed, said,
      disturbed>>
    BY <1>9 DEF SaveFile
  <2> QED
    BY <2>1, <2>2 DEF SaveFileFacts, SaidInv, UsedInv, At, Idle, storeVars, registryVars, noteVars
<1>10. ASSUME NEW t \in Thread, SaveRecord(t)
      PROVE  SaidInv'
  <2>1. SaveRecordFacts(t)
    BY <1>10, SaveRecordEffect
  <2>2. UNCHANGED <<storeVars, registryVars, noteVars, stateFiles, used, promised, removed,
      said, disturbed>>
    BY <1>10 DEF SaveRecord
  <2> QED
    BY <2>1, <2>2 DEF SaveRecordFacts, SaidInv, UsedInv, At, Idle, storeVars, registryVars, noteVars
<1>11. ASSUME NEW t \in Thread, DropRecord(t)
      PROVE  SaidInv'
  <2>1. DropRecordFacts(t)
    BY <1>11, DropRecordEffect
  <2>2. UNCHANGED <<storeVars, registryVars, noteVars, stateFiles, used, promised, removed,
      said, disturbed>>
    BY <1>11 DEF DropRecord
  <2> QED
    BY <2>1, <2>2 DEF DropRecordFacts, SaidInv, UsedInv, At, storeVars, registryVars, noteVars
<1>12. ASSUME NEW t \in Thread, DropFile(t)
      PROVE  SaidInv'
  BY <1>12
  DEF DropFile, SaidInv, UsedInv, At, Idle, Ends, storeVars, registryVars, noteVars, stateVars
<1>13. ASSUME NEW t \in Thread, CreateContext(t)
      PROVE  SaidInv'
  BY <1>13, CallTypes, IdAssumption
  DEF CreateContext, SaidInv, UsedInv, At, CallRecord, TypeInv, WorkspaceTypeOK, StoreTypeOK,
      storeVars, noteVars, stateVars
<1>14. ASSUME NEW t \in Thread, PersistCreated(t)
      PROVE  SaidInv'
  BY <1>14 DEF PersistCreated, SaidInv, UsedInv, At, Idle, Ends, storeVars, noteVars, stateVars
<1>15. ASSUME NEW t \in Thread, CloseContext(t)
      PROVE  SaidInv'
  BY <1>15, CallTypes, IdAssumption
  DEF CloseContext, SaidInv, UsedInv, At, CallRecord, TypeInv, WorkspaceTypeOK, StoreTypeOK,
      storeVars, noteVars, stateVars
<1>16. ASSUME NEW t \in Thread, PruneContext(t)
      PROVE  SaidInv'
  <2>1. PICK c \in Context \ {Default}, ok \in BOOLEAN :
          /\ At(t, "idle") /\ contexts[c] = "closed"
          /\ contexts' = [contexts EXCEPT ![c] = "absent"]
          /\ contextsFile' = IF ok THEN contexts' ELSE contextsFile
          /\ \/ call' = [call EXCEPT ![t] = [op |-> "pruneArtifacts", context |-> c, id |-> None]]
             \/ call' = call
          /\ said' = [said EXCEPT ![c] = IF ok THEN "pruned" ELSE "failed"]
    BY <1>16 DEF PruneContext
  <2>2. contexts'[c] = "absent" /\ \A d \in Context \ {c} : contexts'[d] = contexts[d]
    BY <2>1 DEF TypeInv, WorkspaceTypeOK
  <2>3. \A d \in Context \ {c} : said'[d] = said[d]
    BY <2>1
  <2>4. \A d \in Context : contextsFile'[d] = contextsFile[d] \/ contextsFile'[d] = contexts'[d]
    BY <2>1
  <2>5. \/ said'[c] = "failed"
        \/ said'[c] = "pruned" /\ contextsFile'[c] = "absent"
    BY <2>1, <2>2 DEF TypeInv, WorkspaceTypeOK
  <2>6. \A u \in Thread : At(u, "created")' => call'[u] = call[u] /\ At(u, "created")
    <3> DEFINE pruning == [op |-> "pruneArtifacts", context |-> c, id |-> None]
    <3>1. ASSUME NEW u \in Thread, call' = [call EXCEPT ![t] = pruning]
          PROVE  u # t => call'[u] = call[u]
      BY <3>1, CallTypes
    <3>2. call' = [call EXCEPT ![t] = pruning] => call'[t].op = "pruneArtifacts"
      BY CallTypes DEF TypeInv, WorkspaceTypeOK
    <3> QED
      BY <2>1, <3>1, <3>2 DEF At
  <2>7. \A u \in Thread : At(u, "created") => call[u].context \in Context
    BY CallTypes
  <2>8. \A d \in Context :
          /\ said'[d] = "open" => contexts'[d] # "absent" /\ contextsFile'[d] # "absent"
          /\ said'[d] = "closed" => contexts'[d] # "open" /\ contextsFile'[d] # "open"
          /\ said'[d] = "pruned" => contexts'[d] = "absent" /\ contextsFile'[d] = "absent"
    BY <2>2, <2>3, <2>4, <2>5 DEF SaidInv
  <2>9. ASSUME NEW u \in Thread, At(u, "created")', said'[call'[u].context] = "nothing"
        PROVE  contexts'[call'[u].context] # "absent"
    <3>1. call'[u] = call[u] /\ At(u, "created") /\ call[u].context \in Context \ {c}
      BY <2>5, <2>6, <2>7, <2>9
    <3> QED
      BY <2>2, <2>3, <2>9, <3>1 DEF SaidInv
  <2> QED
    BY <2>8, <2>9 DEF SaidInv, At
<1>17. ASSUME NEW t \in Thread, PruneArtifacts(t)
      PROVE  SaidInv'
  BY <1>17, CallTypes, IdAssumption
  DEF PruneArtifacts, DeleteContext, PersistIndex, Without, Owned, OwnedCaptures, SaidInv,
      UsedInv, At, CallRecord, TypeInv, WorkspaceTypeOK, StoreTypeOK, Becomes, registryVars,
      noteVars, stateVars
<1>18. ASSUME NEW t \in Thread, PruneStates(t)
      PROVE  SaidInv'
  BY <1>18
  DEF PruneStates, SaidInv, UsedInv, At, Idle, Ends, storeVars, registryVars, noteVars,
      stateVars
<1>19. CASE Sweep
  BY <1>19
  DEF Sweep, ExpireOlderThan, Expired, ExpiredCaptures, PersistIndex, Without, SaidInv, UsedInv,
      At, registryVars, noteVars, stateVars
<1>20. CASE TimePasses
  BY <1>20 DEF TimePasses, Age, SaidInv, UsedInv, At, registryVars, noteVars, stateVars
<1>21. CASE Restart
  BY <1>21 DEF Restart, RestartStore, Recovered, SaidInv, UsedInv, At, Idle
<1>22. CASE UNCHANGED workVars
  BY <1>22 DEF workVars, SaidInv, At
<1> QED
  BY <1>1, <1>2, <1>3, <1>4, <1>5, <1>6, <1>7, <1>8, <1>9, <1>10, <1>11, <1>12, <1>13, <1>14,
      <1>15, <1>16, <1>17, <1>18, <1>19, <1>20, <1>21, <1>22 DEF WorkspaceNext

\* A context being pruned cannot be resolved.
LEMMA PruningAbsentStep ==
  ASSUME TypeInv, UsedInv, PruningAbsent, [WorkspaceNext]_workVars
  PROVE  PruningAbsent'
<1>1. ASSUME NEW t \in Thread, NEW c \in Context, NEW op \in FirstOps, Resolve(t, c, op)
      PROVE  PruningAbsent'
  BY <1>1, CallTypes, IdAssumption, WorkspaceAssumption
  DEF Resolve, PruningAbsent, Pruning, UsedInv, At, CallRecord, TypeInv, WorkspaceTypeOK,
      StoreTypeOK, CarriedIds, FirstOps, storeVars, registryVars, noteVars, stateVars
<1>2. ASSUME NEW t \in Thread, PutBytes(t)
      PROVE  PruningAbsent'
  <2>1. PutBytesFacts(t)
    BY <1>2, PutBytesEffect
  <2>2. UNCHANGED <<registryVars, noteVars, stateVars, promised, removed, said, disturbed>>
    BY <1>2 DEF PutBytes, WriteBytes
  <2> QED
    BY <2>1, <2>2 DEF PutBytesFacts, PruningAbsent, Pruning, UsedInv, At, Idle, registryVars,
        noteVars, stateVars
<1>3. ASSUME NEW t \in Thread, PutEntry(t)
      PROVE  PruningAbsent'
  <2>1. PutEntryFacts(t)
    BY <1>3, PutEntryEffect
  <2>2. UNCHANGED <<registryVars, noteVars, stateVars, removed, said, disturbed>>
    BY <1>3 DEF PutEntry
  <2> QED
    BY <2>1, <2>2 DEF PutEntryFacts, PruningAbsent, Pruning, UsedInv, At, Idle, registryVars,
        noteVars, stateVars, PersistIndex
<1>4. ASSUME NEW t \in Thread, PutCapture(t)
      PROVE  PruningAbsent'
  BY <1>4
  DEF PutCapture, RegisterCapture, PersistIndex, PruningAbsent, Pruning, UsedInv, At, Idle,
      Ends, registryVars, noteVars, stateVars
<1>5. ASSUME NEW t \in Thread, Annotate(t)
      PROVE  PruningAbsent'
  BY <1>5
  DEF Annotate, ChangeNotes, PersistNotes, PruningAbsent, Pruning, UsedInv, At, Idle, Ends,
      storeVars, registryVars, noteVars, stateVars
<1>6. ASSUME NEW t \in Thread, ImportNotes(t)
      PROVE  PruningAbsent'
  BY <1>6
  DEF ImportNotes, ChangeNotes, PersistNotes, PruningAbsent, Pruning, UsedInv, At, Idle, Ends,
      storeVars, registryVars, noteVars, stateVars
<1>7. ASSUME NEW t \in Thread, Erase(t)
      PROVE  PruningAbsent'
  BY <1>7
  DEF Erase, ChangeNotes, PersistNotes, PruningAbsent, Pruning, UsedInv, At, Idle, Ends,
      storeVars, registryVars, noteVars, stateVars
<1>8. ASSUME NEW t \in Thread, Refused(t)
      PROVE  PruningAbsent'
  BY <1>8
  DEF Refused, PruningAbsent, Pruning, UsedInv, At, Idle, Ends, storeVars, registryVars,
      noteVars, stateVars
<1>9. ASSUME NEW t \in Thread, SaveFile(t)
      PROVE  PruningAbsent'
  <2>1. SaveFileFacts(t)
    BY <1>9, SaveFileEffect
  <2>2. UNCHANGED <<storeVars, registryVars, noteVars, snapshots, promised, removed, said,
      disturbed>>
    BY <1>9 DEF SaveFile
  <2> QED
    BY <2>1, <2>2 DEF SaveFileFacts, PruningAbsent, Pruning, UsedInv, At, Idle, storeVars,
        registryVars, noteVars
<1>10. ASSUME NEW t \in Thread, SaveRecord(t)
      PROVE  PruningAbsent'
  <2>1. SaveRecordFacts(t)
    BY <1>10, SaveRecordEffect
  <2>2. UNCHANGED <<storeVars, registryVars, noteVars, stateFiles, used, promised, removed,
      said, disturbed>>
    BY <1>10 DEF SaveRecord
  <2> QED
    BY <2>1, <2>2 DEF SaveRecordFacts, PruningAbsent, Pruning, UsedInv, At, Idle, storeVars,
        registryVars, noteVars
<1>11. ASSUME NEW t \in Thread, DropRecord(t)
      PROVE  PruningAbsent'
  <2>1. DropRecordFacts(t)
    BY <1>11, DropRecordEffect
  <2>2. UNCHANGED <<storeVars, registryVars, noteVars, stateFiles, used, promised, removed,
      said, disturbed>>
    BY <1>11 DEF DropRecord
  <2> QED
    BY <2>1, <2>2
    DEF DropRecordFacts, PruningAbsent, Pruning, UsedInv, At, storeVars, registryVars, noteVars
<1>12. ASSUME NEW t \in Thread, DropFile(t)
      PROVE  PruningAbsent'
  BY <1>12
  DEF DropFile, PruningAbsent, Pruning, UsedInv, At, Idle, Ends, storeVars, registryVars,
      noteVars, stateVars
<1>13. ASSUME NEW t \in Thread, CreateContext(t)
      PROVE  PruningAbsent'
  BY <1>13 DEF CreateContext, PruningAbsent, Pruning, UsedInv, At, storeVars, noteVars, stateVars
<1>14. ASSUME NEW t \in Thread, PersistCreated(t)
      PROVE  PruningAbsent'
  BY <1>14
  DEF PersistCreated, PruningAbsent, Pruning, UsedInv, At, Idle, Ends, storeVars, noteVars,
      stateVars
<1>15. ASSUME NEW t \in Thread, CloseContext(t)
      PROVE  PruningAbsent'
  BY <1>15 DEF CloseContext, PruningAbsent, Pruning, UsedInv, At, storeVars, noteVars, stateVars
<1>16. ASSUME NEW t \in Thread, PruneContext(t)
      PROVE  PruningAbsent'
  BY <1>16, CallTypes, IdAssumption
  DEF PruneContext, NoteFacts, InFlight, PruningAbsent, Pruning, UsedInv, At, CallRecord,
      TypeInv, WorkspaceTypeOK, StoreTypeOK, storeVars, stateVars
<1>17. ASSUME NEW t \in Thread, PruneArtifacts(t)
      PROVE  PruningAbsent'
  BY <1>17, CallTypes, IdAssumption
  DEF PruneArtifacts, DeleteContext, PersistIndex, Without, Owned, OwnedCaptures, PruningAbsent,
      Pruning, UsedInv, At, CallRecord, TypeInv, WorkspaceTypeOK, StoreTypeOK, Becomes,
      registryVars, noteVars, stateVars
<1>18. ASSUME NEW t \in Thread, PruneStates(t)
      PROVE  PruningAbsent'
  BY <1>18
  DEF PruneStates, PruningAbsent, Pruning, UsedInv, At, Idle, Ends, storeVars, registryVars,
      noteVars, stateVars
<1>19. CASE Sweep
  BY <1>19
  DEF Sweep, ExpireOlderThan, Expired, ExpiredCaptures, PersistIndex, Without, PruningAbsent,
      Pruning, UsedInv, At, registryVars, noteVars, stateVars
<1>20. CASE TimePasses
  BY <1>20
  DEF TimePasses, Age, PruningAbsent, Pruning, UsedInv, At, registryVars, noteVars, stateVars
<1>21. CASE Restart
  BY <1>21 DEF Restart, RestartStore, Recovered, PruningAbsent, Pruning, UsedInv, At, Idle
<1>22. CASE UNCHANGED workVars
  BY <1>22 DEF workVars, PruningAbsent, Pruning
<1> QED
  BY <1>1, <1>2, <1>3, <1>4, <1>5, <1>6, <1>7, <1>8, <1>9, <1>10, <1>11, <1>12, <1>13, <1>14,
      <1>15, <1>16, <1>17, <1>18, <1>19, <1>20, <1>21, <1>22 DEF WorkspaceNext

\* The records of a context name its files, each once.
LEMMA SnapshotStep ==
  ASSUME TypeInv, UsedInv, PruningAbsent, SnapshotInv, [WorkspaceNext]_workVars
  PROVE  SnapshotInv'
<1>1. ASSUME NEW t \in Thread, NEW c \in Context, NEW op \in FirstOps, Resolve(t, c, op)
      PROVE  SnapshotInv'
  BY <1>1, CallTypes, IdAssumption, WorkspaceAssumption, SMTT(40)
  DEF Resolve, SnapshotInv, SnapshotsReadable, UsedInv, At, CallRecord, TypeInv,
      WorkspaceTypeOK, StoreTypeOK, CarriedIds, FirstOps, storeVars, registryVars, noteVars,
      stateVars
<1>2. ASSUME NEW t \in Thread, PutBytes(t)
      PROVE  SnapshotInv'
  <2>1. PutBytesFacts(t)
    BY <1>2, PutBytesEffect
  <2>2. UNCHANGED <<registryVars, noteVars, stateVars, promised, removed, said, disturbed>>
    BY <1>2 DEF PutBytes, WriteBytes
  <2> QED
    BY <2>1, <2>2 DEF PutBytesFacts, SnapshotInv, SnapshotsReadable, UsedInv, At, Idle,
        registryVars, noteVars, stateVars
<1>3. ASSUME NEW t \in Thread, PutEntry(t)
      PROVE  SnapshotInv'
  <2>1. PutEntryFacts(t)
    BY <1>3, PutEntryEffect
  <2>2. UNCHANGED <<registryVars, noteVars, stateVars, removed, said, disturbed>>
    BY <1>3 DEF PutEntry
  <2> QED
    BY <2>1, <2>2 DEF PutEntryFacts, SnapshotInv, SnapshotsReadable, UsedInv, At, Idle,
        registryVars, noteVars, stateVars, PersistIndex
<1>4. ASSUME NEW t \in Thread, PutCapture(t)
      PROVE  SnapshotInv'
  BY <1>4
  DEF PutCapture, RegisterCapture, PersistIndex, SnapshotInv, SnapshotsReadable, UsedInv, At,
      Idle, Ends, registryVars, noteVars, stateVars
<1>5. ASSUME NEW t \in Thread, Annotate(t)
      PROVE  SnapshotInv'
  BY <1>5
  DEF Annotate, ChangeNotes, PersistNotes, SnapshotInv, SnapshotsReadable, UsedInv, At, Idle,
      Ends, storeVars, registryVars, noteVars, stateVars
<1>6. ASSUME NEW t \in Thread, ImportNotes(t)
      PROVE  SnapshotInv'
  BY <1>6
  DEF ImportNotes, ChangeNotes, PersistNotes, SnapshotInv, SnapshotsReadable, UsedInv, At, Idle,
      Ends, storeVars, registryVars, noteVars, stateVars
<1>7. ASSUME NEW t \in Thread, Erase(t)
      PROVE  SnapshotInv'
  BY <1>7
  DEF Erase, ChangeNotes, PersistNotes, SnapshotInv, SnapshotsReadable, UsedInv, At, Idle, Ends,
      storeVars, registryVars, noteVars, stateVars
<1>8. ASSUME NEW t \in Thread, Refused(t)
      PROVE  SnapshotInv'
  BY <1>8
  DEF Refused, SnapshotInv, SnapshotsReadable, UsedInv, At, Idle, Ends, storeVars, registryVars,
      noteVars, stateVars
<1>9. ASSUME NEW t \in Thread, SaveFile(t)
      PROVE  SnapshotInv'
  <2>1. PICK s \in Snapshot \ used :
          /\ \A u \in Thread \ {t} : call'[u] = call[u]
          /\ \/ /\ stateFiles' = [stateFiles EXCEPT ![call[t].context] = @ \cup {s}]
                /\ \/ call'[t] = Idle
                   \/ call'[t] = [op |-> "record", context |-> call[t].context, id |-> s]
             \/ stateFiles' = stateFiles /\ call'[t] = Idle
    BY <1>9, SaveFileEffect DEF SaveFileFacts
  <2>2. UNCHANGED <<registryVars, snapshots>>
    BY <1>9 DEF SaveFile
  <2>3. \A c \in Context : stateFiles[c] \subseteq stateFiles'[c]
    BY <2>1 DEF TypeInv, WorkspaceTypeOK
  <2>4. SnapshotsReadable'
    BY <2>2, <2>3 DEF SnapshotInv, SnapshotsReadable, registryVars
  <2>5. call'[t].op = "idle" \/ (call'[t].op = "record" /\ call'[t].id \notin used)
    BY <2>1 DEF Idle
  <2> QED
    BY <2>1, <2>2, <2>4, <2>5 DEF SnapshotInv, UsedInv, At
<1>10. ASSUME NEW t \in Thread, SaveRecord(t)
      PROVE  SnapshotInv'
  <2> DEFINE c == call[t].context  s == call[t].id
  <2>1. /\ At(t, "record") /\ call'[t] = Idle
        /\ \A u \in Thread \ {t} : call'[u] = call[u]
        /\ \A d \in Context \ {c} : snapshots'[d] = snapshots[d]
    BY <1>10, SaveRecordEffect DEF SaveRecordFacts
  <2>2. UNCHANGED <<registryVars, stateFiles>>
    BY <1>10 DEF SaveRecord
  <2>3. CASE UNCHANGED snapshots
    BY <2>1, <2>2, <2>3 DEF SnapshotInv, SnapshotsReadable, At, Idle, registryVars
  <2>4. CASE ~UNCHANGED snapshots
    <3>1. PICK skipped \in Nat :
            \A i \in 1..Len(snapshots'[c]) :
              \/ i + skipped \in 1..Len(snapshots[c]) /\ snapshots'[c][i] = snapshots[c][i + skipped]
              \/ i + skipped = Len(snapshots[c]) + 1 /\ snapshots'[c][i] = s
      BY <1>10, <2>4, SaveRecordEffect DEF SaveRecordFacts
    <3>2. s \in stateFiles[c] /\ c \in Context
      BY <1>10, <2>4, SaveRecordEffect, CallTypes DEF SaveRecordFacts
    <3>3. \A d \in Context : \A i \in 1..Len(snapshots[d]) : snapshots[d][i] # s
      BY <2>1 DEF SnapshotInv
    <3>4. \A d \in Context : /\ snapshots[d] \in Seq(Snapshot) /\ snapshots'[d] \in Seq(Snapshot)
                             /\ DOMAIN snapshots[d] = 1..Len(snapshots[d])
                             /\ DOMAIN snapshots'[d] = 1..Len(snapshots'[d])
                             /\ Len(snapshots[d]) \in Nat /\ Len(snapshots'[d]) \in Nat
      <4>1. TypeInv'
        BY TypeStep
      <4> QED
        BY <4>1, LenProperties DEF TypeInv, WorkspaceTypeOK
    <3> HIDE DEF c, s
    <3>5. \A i \in 1..Len(snapshots'[c]) :
            snapshots'[c][i] = s \/ \E j \in 1..Len(snapshots[c]) : snapshots'[c][i] = snapshots[c][j]
      BY <3>1
    <3>6. \A i, j \in 1..Len(snapshots'[c]) : snapshots'[c][i] = snapshots'[c][j] => i = j
      <4>1. TAKE i, j \in 1..Len(snapshots'[c])
      <4>2. /\ Len(snapshots[c]) \in Nat /\ i \in Nat /\ j \in Nat
            /\ \A k, l \in 1..Len(snapshots[c]) : snapshots[c][k] = snapshots[c][l] => k = l
        BY <3>2, <3>4 DEF SnapshotInv
      <4>3. \/ i + skipped \in 1..Len(snapshots[c]) /\ snapshots'[c][i] = snapshots[c][i + skipped]
            \/ i + skipped = Len(snapshots[c]) + 1 /\ snapshots'[c][i] = s
        BY <3>1
      <4>4. \/ j + skipped \in 1..Len(snapshots[c]) /\ snapshots'[c][j] = snapshots[c][j + skipped]
            \/ j + skipped = Len(snapshots[c]) + 1 /\ snapshots'[c][j] = s
        BY <3>1
      <4>5. \A k \in 1..Len(snapshots[c]) : snapshots[c][k] # s
        BY <3>2, <3>3
      <4>6. snapshots'[c][i] = snapshots'[c][j] => i + skipped = j + skipped
        BY <4>2, <4>3, <4>4, <4>5
      <4> QED
        BY <4>2, <4>6
    <3>7. SnapshotsReadable'
      <4>2. SUFFICES ASSUME NEW d \in Context, contexts'[d] # "absent", NEW i \in DOMAIN snapshots'[d]
                     PROVE  snapshots'[d][i] \in stateFiles'[d]
        BY DEF SnapshotsReadable
      <4>4. \A j \in 1..Len(snapshots[d]) : snapshots[d][j] \in stateFiles'[d]
        BY <2>2, <3>4, <4>2 DEF SnapshotInv, SnapshotsReadable, registryVars
      <4>5. CASE d = c
        BY <2>2, <3>2, <3>4, <3>5, <4>4, <4>5
      <4>6. CASE d # c
        BY <2>1, <3>4, <4>4, <4>6 DEF c
      <4> QED
        BY <4>5, <4>6
    <3>8. \A u \in Thread, d \in Context :
            (At(u, "record") \/ (At(u, "unlink") /\ call[u].context = d))' =>
              \A i \in 1..Len(snapshots'[d]) : snapshots'[d][i] # call'[u].id
      <4>1. TAKE u \in Thread, d \in Context
      <4>2. HAVE (At(u, "record") \/ (At(u, "unlink") /\ call[u].context = d))'
      <4>3. u # t /\ call'[u] = call[u] /\ (At(u, "record") \/ (At(u, "unlink") /\ call[u].context = d))
        BY <2>1, <4>2 DEF At, Idle
      <4>4. call[u].id # s
        BY <2>1, <4>3 DEF SnapshotInv, s
      <4>5. \A j \in 1..Len(snapshots[d]) : snapshots[d][j] # call[u].id
        BY <4>3 DEF SnapshotInv
      <4>6. CASE d = c
        BY <3>5, <4>3, <4>4, <4>5, <4>6
      <4>7. CASE d # c
        BY <2>1, <4>3, <4>5, <4>7 DEF c
      <4> QED
        BY <4>6, <4>7
    <3>9. \A d \in Context : \A i, j \in 1..Len(snapshots'[d]) : snapshots'[d][i] = snapshots'[d][j] => i = j
      BY <2>1, <3>6 DEF SnapshotInv, c
    <3> QED
      BY <2>1, <3>7, <3>8, <3>9 DEF SnapshotInv, At, Idle
  <2> QED
    BY <2>3, <2>4
<1>11. ASSUME NEW t \in Thread, DropRecord(t)
      PROVE  SnapshotInv'
  <2> DEFINE c == call[t].context
  <2>1. /\ c \in Context
        /\ \A u \in Thread \ {t} : call'[u] = call[u]
        /\ \A d \in Context \ {c} : snapshots'[d] = snapshots[d]
    BY <1>11, DropRecordEffect DEF DropRecordFacts
  <2>2. UNCHANGED <<registryVars, stateFiles>>
    BY <1>11 DEF DropRecord
  <2>3. PICK i \in 1..Len(snapshots[c]) :
          /\ call'[t] = [op |-> "unlink", context |-> c, id |-> snapshots[c][i]]
          /\ Len(snapshots[c]) \in Nat
          /\ Len(snapshots'[c]) = Len(snapshots[c]) - 1
          /\ \A j \in 1..Len(snapshots[c]) - 1 :
               snapshots'[c][j] = snapshots[c][IF j < i THEN j ELSE j + 1]
    BY <1>11, DropRecordEffect DEF DropRecordFacts
  <2>4. \A d \in Context : /\ DOMAIN snapshots[d] = 1..Len(snapshots[d])
                           /\ DOMAIN snapshots'[d] = 1..Len(snapshots'[d])
    <3>1. TypeInv'
      BY TypeStep
    <3> QED
      BY <3>1, LenProperties DEF TypeInv, WorkspaceTypeOK
  <2> HIDE DEF c
  <2>5. \A j, k \in 1..Len(snapshots[c]) : snapshots[c][j] = snapshots[c][k] => j = k
    BY <2>1 DEF SnapshotInv
  <2>6. \A j \in 1..Len(snapshots'[c]) :
          \E k \in 1..Len(snapshots[c]) : k # i /\ snapshots'[c][j] = snapshots[c][k]
    <3>1. TAKE j \in 1..Len(snapshots'[c])
    <3>2. CASE j < i
      BY <2>3, <3>2
    <3>3. CASE ~(j < i)
      BY <2>3, <3>3
    <3> QED
      BY <3>2, <3>3
  <2>7. \A j, k \in 1..Len(snapshots'[c]) : snapshots'[c][j] = snapshots'[c][k] => j = k
    <3>1. TAKE j, k \in 1..Len(snapshots'[c])
    <3> DEFINE here  == IF j < i THEN j ELSE j + 1
               there == IF k < i THEN k ELSE k + 1
    <3>2. here \in 1..Len(snapshots[c]) /\ there \in 1..Len(snapshots[c])
      BY <2>3
    <3>3. snapshots'[c][j] = snapshots[c][here] /\ snapshots'[c][k] = snapshots[c][there]
      BY <2>3
    <3>4. here = there => j = k
      BY <2>3
    <3> HIDE DEF here, there
    <3> QED
      BY <2>5, <3>2, <3>3, <3>4
  <2>8. \A d \in Context : \A j, k \in 1..Len(snapshots'[d]) : snapshots'[d][j] = snapshots'[d][k] => j = k
    BY <2>1, <2>7 DEF SnapshotInv
  <2>9. \A d \in Context : \A j \in 1..Len(snapshots'[d]) :
          \E k \in 1..Len(snapshots[d]) : snapshots'[d][j] = snapshots[d][k]
    BY <2>1, <2>6
  <2>10. SnapshotsReadable'
    BY <2>2, <2>4, <2>9 DEF SnapshotInv, SnapshotsReadable, registryVars
  <2>11. \A u \in Thread, d \in Context :
           (At(u, "record") \/ (At(u, "unlink") /\ call[u].context = d))' =>
             \A j \in 1..Len(snapshots'[d]) : snapshots'[d][j] # call'[u].id
    <3>1. TAKE u \in Thread, d \in Context
    <3>2. HAVE (At(u, "record") \/ (At(u, "unlink") /\ call[u].context = d))'
    <3>3. CASE u = t
      <4>1. d = c /\ call'[u].id = snapshots[c][i]
        BY <2>3, <3>2, <3>3 DEF At
      <4> QED
        BY <2>5, <2>6, <4>1
    <3>4. CASE u # t
      <4>1. call'[u] = call[u] /\ (At(u, "record") \/ (At(u, "unlink") /\ call[u].context = d))
        BY <2>1, <3>2, <3>4 DEF At
      <4>2. \A k \in 1..Len(snapshots[d]) : snapshots[d][k] # call[u].id
        BY <4>1 DEF SnapshotInv
      <4> QED
        BY <2>9, <4>1, <4>2
    <3> QED
      BY <3>3, <3>4
  <2>12. \A u, v \in Thread :
           (At(u, "record") /\ (At(v, "record") \/ At(v, "unlink")) /\ u # v)' => call'[u].id # call'[v].id
    <3>1. TAKE u, v \in Thread
    <3>2. HAVE (At(u, "record") /\ (At(v, "record") \/ At(v, "unlink")) /\ u # v)'
    <3>3. u # t /\ call'[u] = call[u] /\ At(u, "record")
      BY <2>1, <2>3, <3>2 DEF At
    <3>4. CASE v = t
      BY <2>1, <2>3, <3>3, <3>4 DEF SnapshotInv
    <3>5. CASE v # t
      BY <2>1, <3>2, <3>3, <3>5 DEF SnapshotInv, At
    <3> QED
      BY <3>4, <3>5
  <2> QED
    BY <2>8, <2>10, <2>11, <2>12 DEF SnapshotInv, At
<1>12. ASSUME NEW t \in Thread, DropFile(t)
      PROVE  SnapshotInv'
  BY <1>12
  DEF DropFile, SnapshotInv, SnapshotsReadable, UsedInv, At, Idle, Ends, storeVars,
      registryVars, noteVars, stateVars
<1>13. ASSUME NEW t \in Thread, CreateContext(t)
      PROVE  SnapshotInv'
  BY <1>13
  DEF CreateContext, SnapshotInv, SnapshotsReadable, UsedInv, At, storeVars, noteVars, stateVars
<1>14. ASSUME NEW t \in Thread, PersistCreated(t)
      PROVE  SnapshotInv'
  BY <1>14
  DEF PersistCreated, SnapshotInv, SnapshotsReadable, UsedInv, At, Idle, Ends, storeVars,
      noteVars, stateVars
<1>15. ASSUME NEW t \in Thread, CloseContext(t)
      PROVE  SnapshotInv'
  BY <1>15
  DEF CloseContext, SnapshotInv, SnapshotsReadable, UsedInv, At, storeVars, noteVars, stateVars
<1>16. ASSUME NEW t \in Thread, PruneContext(t)
      PROVE  SnapshotInv'
  BY <1>16
  DEF PruneContext, NoteFacts, InFlight, SnapshotInv, SnapshotsReadable, UsedInv, At, storeVars,
      stateVars
<1>17. ASSUME NEW t \in Thread, PruneArtifacts(t)
      PROVE  SnapshotInv'
  BY <1>17, CallTypes, IdAssumption
  DEF PruneArtifacts, DeleteContext, PersistIndex, Without, Owned, OwnedCaptures, SnapshotInv,
      SnapshotsReadable, UsedInv, At, CallRecord, TypeInv, WorkspaceTypeOK, StoreTypeOK, Becomes,
      registryVars, noteVars, stateVars
<1>18. ASSUME NEW t \in Thread, PruneStates(t)
      PROVE  SnapshotInv'
  <2>1. /\ At(t, "pruneStates") /\ Ends(t)
        /\ \E left : stateFiles' = [stateFiles EXCEPT ![call[t].context] = left]
        /\ UNCHANGED <<registryVars, snapshots>>
    BY <1>18 DEF PruneStates
  <2>2. call'[t] = Idle /\ \A u \in Thread \ {t} : call'[u] = call[u]
    BY <2>1, Returns
  <2>3. contexts[call[t].context] = "absent"
    BY <2>1 DEF PruningAbsent, Pruning, At
  <2>4. \A c \in Context : c # call[t].context => stateFiles'[c] = stateFiles[c]
    BY <2>1 DEF TypeInv, WorkspaceTypeOK
  <2>5. SnapshotsReadable'
    BY <2>1, <2>3, <2>4 DEF SnapshotInv, SnapshotsReadable, registryVars
  <2> QED
    BY <2>1, <2>2, <2>5 DEF SnapshotInv, At, Idle
<1>19. CASE Sweep
  BY <1>19
  DEF Sweep, ExpireOlderThan, Expired, ExpiredCaptures, PersistIndex, Without, SnapshotInv,
      SnapshotsReadable, UsedInv, At, registryVars, noteVars, stateVars
<1>20. CASE TimePasses
  BY <1>20
  DEF TimePasses, Age, SnapshotInv, SnapshotsReadable, UsedInv, At, registryVars, noteVars,
      stateVars
<1>21. CASE Restart
  BY <1>21 DEF Restart, RestartStore, Recovered, SnapshotInv, SnapshotsReadable, UsedInv, At, Idle
<1>22. CASE UNCHANGED workVars
  BY <1>22 DEF workVars, SnapshotInv, SnapshotsReadable, At
<1> QED
  BY <1>1, <1>2, <1>3, <1>4, <1>5, <1>6, <1>7, <1>8, <1>9, <1>10, <1>11, <1>12, <1>13, <1>14,
      <1>15, <1>16, <1>17, <1>18, <1>19, <1>20, <1>21, <1>22 DEF WorkspaceNext

-----------------------------------------------------------------------------
(* Prunes.                                                                 *)

\* What a step must leave alone for a pruned context to stay pruned: its annotation
\* document and state files, and no artifact becomes one of it.
KeptFrom(c) ==
  /\ notesFile'[c] = notesFile[c] /\ stateFiles'[c] \subseteq stateFiles[c]
  /\ \A a \in Artifact :
       /\ artifacts'[a] = c => artifacts[a] = c
       /\ a \in files' /\ index'.artifacts[a] = c =>
            artifacts[a] = c \/ (a \in files /\ index.artifacts[a] = c)

LEMMA PrunedKept ==
  ASSUME NEW c \in Context, Pruned(c), KeptFrom(c),
         \A u \in Thread :
           call'[u] = call[u] \/ (~Working(u, c) /\ (call'[u].op = "idle" \/ call'[u].context # c))
  PROVE  Pruned(c)'
<1>1. \A u \in Thread : Working(u, c)' <=> Working(u, c)
  BY DEF Working
<1>2. \A u \in Thread : Working(u, c) => call'[u] = call[u]
  OBVIOUS
<1>3. notesFile'[c] = None /\ \A u \in Thread : Working(u, c) => Pruning(u)'
  BY <1>2 DEF Pruned, KeptFrom, Pruning
<1>4. (\A u \in Thread : Working(u, c) => ~At(u, "pruneArtifacts")') =>
        \A a \in Artifact : artifacts'[a] # c /\ Recovered'[a] # c
  BY <1>2, IdAssumption DEF Pruned, KeptFrom, At, Recovered
<1>5. (\A u \in Thread : ~Working(u, c)) => stateFiles'[c] = {}
  BY DEF Pruned, KeptFrom
<1> QED
  BY <1>1, <1>3, <1>4, <1>5 DEF Pruned

\* It is enough to look at one context at a time.
LEMMA PruneInvPointwise ==
  ASSUME \A c \in Context : said'[c] = "pruned" /\ c \notin disturbed' =>
           /\ Pruned(c) /\ KeptFrom(c)
           /\ \A u \in Thread :
                call'[u] = call[u] \/ (~Working(u, c) /\ (call'[u].op = "idle" \/ call'[u].context # c))
  PROVE  PruneInv'
<1>1. SUFFICES ASSUME NEW c \in Context, said'[c] = "pruned", c \notin disturbed'
               PROVE  Pruned(c)'
  BY DEF PruneInv, Pruned, Working, Pruning, At, Recovered
<1>2. /\ Pruned(c) /\ KeptFrom(c)
      /\ \A u \in Thread :
           call'[u] = call[u] \/ (~Working(u, c) /\ (call'[u].op = "idle" \/ call'[u].context # c))
  BY <1>1
<1> QED
  BY <1>2, PrunedKept

\* The steps of a call that is not pruning are on a context that is not pruned.
LEMMA ElsewherePruned ==
  ASSUME PruneInv, NEW t \in Thread, UNCHANGED <<said, disturbed>>,
         call[t].op # "idle", ~Pruning(t),
         call'[t].op = "idle" \/ call'[t].context = call[t].context,
         \A u \in Thread \ {t} : call'[u] = call[u],
         \A c \in Context \ {call[t].context} : KeptFrom(c)
  PROVE  PruneInv'
<1>1. ASSUME NEW c \in Context, said'[c] = "pruned", c \notin disturbed'
      PROVE  Pruned(c) /\ c # call[t].context
  <2>1. Pruned(c)
    BY <1>1 DEF PruneInv
  <2> QED
    BY <2>1 DEF Pruned, Working
<1> QED
  BY <1>1, PruneInvPointwise DEF Working

LEMMA PruneStep ==
  ASSUME TypeInv, UsedInv, BytesInv, IndexInv, SaidInv, PruneInv, [WorkspaceNext]_workVars
  PROVE  PruneInv'
<1>1. ASSUME NEW t \in Thread, PutBytes(t)
      PROVE  PruneInv'
  <2>1. /\ call[t].op # "idle" /\ ~Pruning(t)
        /\ call'[t].op = "idle" \/ call'[t].context = call[t].context
        /\ \A u \in Thread \ {t} : call'[u] = call[u]
    <3>1. PutBytesFacts(t)
      BY <1>1, PutBytesEffect
    <3> QED
      BY <3>1 DEF PutBytesFacts, Idle, Pruning
  <2>2. UNCHANGED <<said, disturbed>>
    BY <1>1 DEF PutBytes
  <2>3. \A c \in Context : KeptFrom(c)
    <3>1. PICK a \in Artifact \ used : files' \subseteq files \cup {a} /\ UNCHANGED <<artifacts,
        index>>
      BY <1>1, PutBytesEffect DEF PutBytesFacts
    <3>2. UNCHANGED <<noteVars, stateVars>>
      BY <1>1 DEF PutBytes
    <3>3. index.artifacts[a] = None
      BY <3>1 DEF UsedInv
    <3> QED
      BY <3>1, <3>2, <3>3, IdAssumption DEF KeptFrom, noteVars, stateVars
  <2> QED
    BY <2>1, <2>2, <2>3, ElsewherePruned
<1>2. ASSUME NEW t \in Thread, PutEntry(t)
      PROVE  PruneInv'
  <2>1. /\ call[t].op # "idle" /\ ~Pruning(t)
        /\ call'[t].op = "idle" \/ call'[t].context = call[t].context
        /\ \A u \in Thread \ {t} : call'[u] = call[u]
    <3>1. PutEntryFacts(t)
      BY <1>2, PutEntryEffect
    <3> QED
      BY <3>1 DEF PutEntryFacts, Writing, Idle, Pruning
  <2>2. UNCHANGED <<said, disturbed>>
    BY <1>2 DEF PutEntry
  <2>3. \A c \in Context \ {call[t].context} : KeptFrom(c)
    <3>1. /\ UNCHANGED files /\ artifacts' = [artifacts EXCEPT ![call[t].id] = call[t].context]
          /\ UNCHANGED index \/ index'.artifacts = artifacts'
      <4>1. PutEntryFacts(t)
        BY <1>2, PutEntryEffect
      <4> QED
        BY <4>1 DEF PutEntryFacts, PersistIndex
    <3>2. UNCHANGED <<noteVars, stateVars>>
      BY <1>2 DEF PutEntry
    <3>3. \A a \in Artifact : artifacts'[a] = artifacts[a] \/ artifacts'[a] = call[t].context
      BY <3>1 DEF TypeInv, WorkspaceTypeOK, StoreTypeOK
    <3> QED
      BY <3>1, <3>2, <3>3 DEF KeptFrom, noteVars, stateVars
  <2> QED
    BY <2>1, <2>2, <2>3, ElsewherePruned
<1>3. ASSUME NEW t \in Thread, PutCapture(t)
      PROVE  PruneInv'
  <2>1. /\ call[t].op # "idle" /\ ~Pruning(t)
        /\ call'[t].op = "idle" /\ \A u \in Thread \ {t} : call'[u] = call[u]
    BY <1>3, Returns DEF PutCapture, At, Pruning, Idle
  <2>2. UNCHANGED <<said, disturbed>>
    BY <1>3 DEF PutCapture
  <2>3. \A c \in Context : KeptFrom(c)
    <3>1. UNCHANGED <<files, artifacts, noteVars, stateVars>> /\ (UNCHANGED index \/
        index'.artifacts = artifacts')
      BY <1>3 DEF PutCapture, RegisterCapture, PersistIndex
    <3> QED
      BY <3>1 DEF KeptFrom, noteVars, stateVars
  <2> QED
    BY <2>1, <2>2, <2>3, ElsewherePruned
<1>4. ASSUME NEW t \in Thread, Annotate(t)
      PROVE  PruneInv'
  <2>1. /\ call[t].op # "idle" /\ ~Pruning(t)
        /\ call'[t].op = "idle" /\ \A u \in Thread \ {t} : call'[u] = call[u]
    BY <1>4, Returns DEF Annotate, At, Pruning, Idle
  <2>2. UNCHANGED <<said, disturbed>>
    BY <1>4 DEF Annotate
  <2>3. \A c \in Context \ {call[t].context} : KeptFrom(c)
    <3>1. /\ notes' = [notes EXCEPT ![call[t].context] = notes'[call[t].context]]
          /\ \/ UNCHANGED notesFile
             \/ notesFile' = [notesFile EXCEPT ![call[t].context] = notes'[call[t].context]]
      BY <1>4 DEF Annotate, ChangeNotes, PersistNotes, TypeInv, WorkspaceTypeOK
    <3>2. UNCHANGED <<storeVars, stateVars>>
      BY <1>4 DEF Annotate
    <3>3. \A c \in Context \ {call[t].context} : notesFile'[c] = notesFile[c]
      BY <3>1 DEF TypeInv, WorkspaceTypeOK
    <3> QED
      BY <3>2, <3>3 DEF KeptFrom, storeVars, stateVars
  <2> QED
    BY <2>1, <2>2, <2>3, ElsewherePruned
<1>5. ASSUME NEW t \in Thread, ImportNotes(t)
      PROVE  PruneInv'
  <2>1. /\ call[t].op # "idle" /\ ~Pruning(t)
        /\ call'[t].op = "idle" /\ \A u \in Thread \ {t} : call'[u] = call[u]
    BY <1>5, Returns DEF ImportNotes, At, Pruning, Idle
  <2>2. UNCHANGED <<said, disturbed>>
    BY <1>5 DEF ImportNotes
  <2>3. \A c \in Context \ {call[t].context} : KeptFrom(c)
    <3>1. /\ notes' = [notes EXCEPT ![call[t].context] = notes'[call[t].context]]
          /\ \/ UNCHANGED notesFile
             \/ notesFile' = [notesFile EXCEPT ![call[t].context] = notes'[call[t].context]]
      BY <1>5 DEF ImportNotes, ChangeNotes, PersistNotes, TypeInv, WorkspaceTypeOK
    <3>2. UNCHANGED <<storeVars, stateVars>>
      BY <1>5 DEF ImportNotes
    <3>3. \A c \in Context \ {call[t].context} : notesFile'[c] = notesFile[c]
      BY <3>1 DEF TypeInv, WorkspaceTypeOK
    <3> QED
      BY <3>2, <3>3 DEF KeptFrom, storeVars, stateVars
  <2> QED
    BY <2>1, <2>2, <2>3, ElsewherePruned
<1>6. ASSUME NEW t \in Thread, Erase(t)
      PROVE  PruneInv'
  <2>1. /\ call[t].op # "idle" /\ ~Pruning(t)
        /\ call'[t].op = "idle" /\ \A u \in Thread \ {t} : call'[u] = call[u]
    BY <1>6, Returns DEF Erase, At, Pruning, Idle
  <2>2. UNCHANGED <<said, disturbed>>
    BY <1>6 DEF Erase
  <2>3. \A c \in Context \ {call[t].context} : KeptFrom(c)
    <3>1. /\ notes' = [notes EXCEPT ![call[t].context] = notes'[call[t].context]]
          /\ \/ UNCHANGED notesFile
             \/ notesFile' = [notesFile EXCEPT ![call[t].context] = notes'[call[t].context]]
      BY <1>6 DEF Erase, ChangeNotes, PersistNotes, TypeInv, WorkspaceTypeOK
    <3>2. UNCHANGED <<storeVars, stateVars>>
      BY <1>6 DEF Erase
    <3>3. \A c \in Context \ {call[t].context} : notesFile'[c] = notesFile[c]
      BY <3>1 DEF TypeInv, WorkspaceTypeOK
    <3> QED
      BY <3>2, <3>3 DEF KeptFrom, storeVars, stateVars
  <2> QED
    BY <2>1, <2>2, <2>3, ElsewherePruned
<1>7. ASSUME NEW t \in Thread, Refused(t)
      PROVE  PruneInv'
  <2>1. /\ call[t].op # "idle" /\ ~Pruning(t)
        /\ call'[t].op = "idle" /\ \A u \in Thread \ {t} : call'[u] = call[u]
    BY <1>7, Returns DEF Refused, At, Pruning, Idle
  <2>2. UNCHANGED <<said, disturbed>>
    BY <1>7 DEF Refused
  <2>3. \A c \in Context : KeptFrom(c)
    BY <1>7 DEF Refused, KeptFrom, storeVars, noteVars, stateVars
  <2> QED
    BY <2>1, <2>2, <2>3, ElsewherePruned
<1>8. ASSUME NEW t \in Thread, SaveFile(t)
      PROVE  PruneInv'
  <2>1. /\ call[t].op # "idle" /\ ~Pruning(t)
        /\ call'[t].op = "idle" \/ call'[t].context = call[t].context
        /\ \A u \in Thread \ {t} : call'[u] = call[u]
    <3>1. SaveFileFacts(t)
      BY <1>8, SaveFileEffect
    <3> QED
      BY <3>1 DEF SaveFileFacts, Idle, Pruning, At
  <2>2. UNCHANGED <<said, disturbed>>
    BY <1>8 DEF SaveFile
  <2>3. \A c \in Context \ {call[t].context} : KeptFrom(c)
    <3>1. \/ UNCHANGED stateFiles
          \/ \E s : stateFiles' = [stateFiles EXCEPT ![call[t].context] = @ \cup {s}]
      BY <1>8, SaveFileEffect DEF SaveFileFacts
    <3>2. UNCHANGED <<storeVars, noteVars>>
      BY <1>8 DEF SaveFile
    <3>3. \A c \in Context \ {call[t].context} : stateFiles'[c] = stateFiles[c]
      BY <3>1 DEF TypeInv, WorkspaceTypeOK
    <3> QED
      BY <3>2, <3>3 DEF KeptFrom, noteVars, storeVars
  <2> QED
    BY <2>1, <2>2, <2>3, ElsewherePruned
<1>9. ASSUME NEW t \in Thread, SaveRecord(t)
      PROVE  PruneInv'
  <2>1. /\ call[t].op # "idle" /\ ~Pruning(t)
        /\ call'[t].op = "idle" \/ call'[t].context = call[t].context
        /\ \A u \in Thread \ {t} : call'[u] = call[u]
    <3>1. SaveRecordFacts(t)
      BY <1>9, SaveRecordEffect
    <3> QED
      BY <3>1 DEF SaveRecordFacts, Idle, Pruning, At
  <2>2. UNCHANGED <<said, disturbed>>
    BY <1>9 DEF SaveRecord
  <2>3. \A c \in Context : KeptFrom(c)
    BY <1>9 DEF SaveRecord, KeptFrom, storeVars, noteVars
  <2> QED
    BY <2>1, <2>2, <2>3, ElsewherePruned
<1>10. ASSUME NEW t \in Thread, DropRecord(t)
      PROVE  PruneInv'
  <2>1. /\ call[t].op # "idle" /\ ~Pruning(t)
        /\ call'[t].op = "idle" \/ call'[t].context = call[t].context
        /\ \A u \in Thread \ {t} : call'[u] = call[u]
    <3>1. DropRecordFacts(t)
      BY <1>10, DropRecordEffect
    <3> QED
      BY <3>1 DEF DropRecordFacts, Pruning, At
  <2>2. UNCHANGED <<said, disturbed>>
    BY <1>10 DEF DropRecord
  <2>3. \A c \in Context : KeptFrom(c)
    BY <1>10 DEF DropRecord, KeptFrom, storeVars, noteVars
  <2> QED
    BY <2>1, <2>2, <2>3, ElsewherePruned
<1>11. ASSUME NEW t \in Thread, DropFile(t)
      PROVE  PruneInv'
  <2>1. /\ call[t].op # "idle" /\ ~Pruning(t)
        /\ call'[t].op = "idle" /\ \A u \in Thread \ {t} : call'[u] = call[u]
    BY <1>11, Returns DEF DropFile, At, Pruning, Idle
  <2>2. UNCHANGED <<said, disturbed>>
    BY <1>11 DEF DropFile
  <2>3. \A c \in Context : KeptFrom(c)
    <3>1. \/ UNCHANGED stateFiles
          \/ stateFiles' = [stateFiles EXCEPT ![call[t].context] = @ \ {call[t].id}]
      BY <1>11 DEF DropFile
    <3>2. UNCHANGED <<storeVars, noteVars>>
      BY <1>11 DEF DropFile
    <3>3. \A c \in Context : stateFiles'[c] \subseteq stateFiles[c]
      BY <3>1, ZenonT(60) DEF TypeInv, WorkspaceTypeOK
    <3> QED
      BY <3>2, <3>3 DEF KeptFrom, noteVars, storeVars
  <2> QED
    BY <2>1, <2>2, <2>3, ElsewherePruned
<1>12. ASSUME NEW t \in Thread, NEW d \in Context, NEW op \in FirstOps, Resolve(t, d, op)
      PROVE  PruneInv'
  <2>1. /\ At(t, "idle") /\ contexts[d] = "open"
        /\ call' = [call EXCEPT ![t] = [op |-> op, context |-> d, id |-> None]]
        /\ UNCHANGED <<storeVars, noteVars, stateVars, said, disturbed>>
    BY <1>12 DEF Resolve
  <2>2. \A c \in Context : said'[c] = "pruned" => c # d
    BY <2>1 DEF SaidInv
  <2>3. \A u \in Thread : call'[u] = call[u] \/ (call[u].op = "idle" /\ call'[u].context = d)
    BY <2>1 DEF At, TypeInv, WorkspaceTypeOK
  <2>4. \A c \in Context : KeptFrom(c)
    BY <2>1 DEF KeptFrom, storeVars, noteVars, stateVars
  <2> QED
    BY <2>1, <2>2, <2>3, <2>4, PruneInvPointwise DEF PruneInv, Working
<1>13. ASSUME NEW t \in Thread, CreateContext(t)
      PROVE  PruneInv'
  <2>1. PICK d \in Context \ used :
          /\ At(t, "idle") /\ call' = [call EXCEPT ![t] = [op |-> "created", context |-> d, id |-> None]]
          /\ UNCHANGED <<storeVars, noteVars, stateVars, said, disturbed>>
    BY <1>13 DEF CreateContext
  <2>2. \A c \in Context : said'[c] = "pruned" => c # d
    BY <2>1 DEF UsedInv
  <2>3. \A u \in Thread : call'[u] = call[u] \/ (call[u].op = "idle" /\ call'[u].context = d)
    BY <2>1 DEF At, TypeInv, WorkspaceTypeOK
  <2>4. \A c \in Context : KeptFrom(c)
    BY <2>1 DEF KeptFrom, storeVars, noteVars, stateVars
  <2> QED
    BY <2>1, <2>2, <2>3, <2>4, PruneInvPointwise DEF PruneInv, Working
<1>14. ASSUME NEW t \in Thread, PersistCreated(t)
      PROVE  PruneInv'
  <2>1. /\ At(t, "created") /\ Ends(t)
        /\ UNCHANGED <<storeVars, noteVars, stateVars, disturbed>>
        /\ \/ said' = [said EXCEPT ![call[t].context] = said[call[t].context]]
           \/ said' = [said EXCEPT ![call[t].context] = "open"]
           \/ said' = [said EXCEPT ![call[t].context] = "failed"]
    BY <1>14 DEF PersistCreated
  <2>2. \A c \in Context : said'[c] = "pruned" => said[c] = "pruned"
    <3>1. /\ said \in [Context -> {"nothing", "open", "closed", "pruned", "failed"}]
          /\ call[t].context \in Context
      BY CallTypes DEF TypeInv, WorkspaceTypeOK
    <3> QED
      BY <2>1, <3>1
  <2>3. call'[t].op = "idle" /\ \A u \in Thread \ {t} : call'[u] = call[u]
    BY <2>1, Returns DEF Idle
  <2>4. \A c \in Context : KeptFrom(c)
    BY <2>1 DEF KeptFrom, storeVars, noteVars, stateVars
  <2>5. \A c \in Context : Pruned(c) => ~Working(t, c)
    BY <2>1 DEF Pruned, Pruning, At
  <2> QED
    BY <2>1, <2>2, <2>3, <2>4, <2>5, PruneInvPointwise DEF PruneInv
<1>15. ASSUME NEW t \in Thread, CloseContext(t)
      PROVE  PruneInv'
  <2>1. PICK d \in Context :
          /\ UNCHANGED <<storeVars, noteVars, stateVars, call, disturbed>>
          /\ said' = [said EXCEPT ![d] = "closed"] \/ said' = [said EXCEPT ![d] = "failed"]
    BY <1>15 DEF CloseContext
  <2>2. \A c \in Context : said'[c] = "pruned" => said[c] = "pruned"
    BY <2>1 DEF TypeInv, WorkspaceTypeOK
  <2>3. \A c \in Context : KeptFrom(c)
    BY <2>1 DEF KeptFrom, storeVars, noteVars, stateVars
  <2> QED
    BY <2>1, <2>2, <2>3, PruneInvPointwise DEF PruneInv
<1>16. ASSUME NEW t \in Thread, PruneContext(t)
      PROVE  PruneInv'
  <2>1. PICK d \in Context, ok \in BOOLEAN :
          /\ At(t, "idle")
          /\ notesFile' = [notesFile EXCEPT ![d] = None] \/ (~ok /\ UNCHANGED notesFile)
          /\ IF ok THEN call' = [call EXCEPT ![t] = [op |-> "pruneArtifacts", context |-> d, id |-> None]]
                   ELSE UNCHANGED call
          /\ said' = [said EXCEPT ![d] = IF ok THEN "pruned" ELSE "failed"]
          /\ disturbed' = IF ok /\ ~InFlight(d) THEN disturbed ELSE disturbed \cup {d}
          /\ UNCHANGED <<storeVars, stateVars>>
    BY <1>16 DEF PruneContext
  <2>2. SUFFICES ASSUME NEW c \in Context, said'[c] = "pruned", c \notin disturbed'
                 PROVE  Pruned(c)'
    BY DEF PruneInv, Pruned, Working, Pruning, At, Recovered
  <2>3. CASE c = d
    <3>1. ok /\ ~InFlight(c) /\ notesFile'[c] = None
      BY <2>1, <2>2, <2>3 DEF TypeInv, WorkspaceTypeOK
    <3>2. \A u \in Thread : ~Working(u, c)
      BY <3>1 DEF InFlight, Working
    <3>3. call'[t].op = "pruneArtifacts" /\ call'[t].context = c /\ \A u \in Thread \ {t} : call'[u] = call[u]
      BY <2>1, <2>3, <3>1 DEF TypeInv, WorkspaceTypeOK
    <3>4. \A u \in Thread : Working(u, c)' <=> u = t
      BY <3>2, <3>3 DEF Working
    <3> QED
      BY <3>1, <3>3, <3>4 DEF Pruned, Pruning, At
  <2>4. CASE c # d
    <3>1. Pruned(c)
      BY <2>1, <2>2, <2>4 DEF PruneInv, TypeInv, WorkspaceTypeOK
    <3>2. KeptFrom(c)
      BY <2>1, <2>4 DEF KeptFrom, storeVars, stateVars, TypeInv, WorkspaceTypeOK
    <3>3. \A u \in Thread :
            call'[u] = call[u] \/ (~Working(u, c) /\ (call'[u].op = "idle" \/ call'[u].context # c))
      BY <2>1, <2>4 DEF Working, At, TypeInv, WorkspaceTypeOK
    <3> QED
      BY <3>1, <3>2, <3>3, PrunedKept
  <2> QED
    BY <2>3, <2>4
<1>17. ASSUME NEW t \in Thread, PruneArtifacts(t)
      PROVE  PruneInv'
  <2> DEFINE d == call[t].context
  <2>1. PICK gone \in SUBSET Owned(d) :
          /\ At(t, "pruneArtifacts")
          /\ artifacts' = Without(artifacts, gone, None) /\ files' = files \ gone
          /\ UNCHANGED index \/ index'.artifacts = artifacts'
          /\ disturbed' = IF gone = Owned(d) THEN disturbed ELSE disturbed \cup {d}
          /\ UNCHANGED <<noteVars, stateVars, said>>
    BY <1>17 DEF PruneArtifacts, DeleteContext, PersistIndex
  <2>2. /\ call'[t].op = "pruneStates" /\ call'[t].context = d
        /\ \A u \in Thread \ {t} : call'[u] = call[u]
    <3>1. Becomes(t, "pruneStates", None)
      BY <1>17 DEF PruneArtifacts
    <3> QED
      <4>1. /\ call'[t] = [op |-> "pruneStates", context |-> call[t].context, id |-> None]
            /\ \A u \in Thread \ {t} : call'[u] = call[u]
        BY <3>1, Moves
      <4> QED
        BY <4>1
  <2>3. \A a \in Artifact : artifacts'[a] = IF a \in gone THEN None ELSE artifacts[a]
    BY <2>1 DEF Without, TypeInv, WorkspaceTypeOK, StoreTypeOK
  <2>4. SUFFICES ASSUME NEW c \in Context, said'[c] = "pruned", c \notin disturbed'
                 PROVE  Pruned(c)'
    BY DEF PruneInv, Pruned, Working, Pruning, At, Recovered
  <2>5. Pruned(c)
    BY <2>1, <2>4 DEF PruneInv
  <2>6. d \in Context
    BY CallTypes
  <2> HIDE DEF d
  <2>7. CASE c = d
    <3>1. gone = Owned(c)
      BY <2>1, <2>4, <2>7
    <3>2. \A a \in Artifact : artifacts'[a] # c
      BY <2>3, <3>1, IdAssumption DEF Owned
    <3>3. \A a \in files' : a \in Artifact /\ index'.artifacts[a] # c
      <4>1. TAKE a \in files'
      <4>2. a \in Artifact /\ a \in files /\ a \notin Owned(c)
        BY <2>1, <3>1 DEF TypeInv, WorkspaceTypeOK, StoreTypeOK
      <4>3. index.artifacts[a] # c
        BY <4>2, IdAssumption DEF IndexInv, Owned
      <4> QED
        BY <2>1, <3>2, <4>2, <4>3
    <3>4. \A a \in Artifact : artifacts'[a] # c /\ Recovered'[a] # c
      BY <3>2, <3>3, IdAssumption DEF Recovered
    <3>5. Working(t, c) /\ \A u \in Thread : Working(u, c) <=> u = t
      BY <2>1, <2>5, <2>7 DEF Pruned, Working, At, d
    <3>6. \A u \in Thread : Working(u, c)' <=> u = t
      BY <2>2, <2>7, <3>5 DEF Working
    <3>7. notesFile'[c] = None
      BY <2>1, <2>5 DEF Pruned, noteVars
    <3> QED
      BY <2>2, <3>4, <3>6, <3>7 DEF Pruned, Pruning
  <2>8. CASE c # d
    <3>1. KeptFrom(c)
      BY <2>1, <2>3, IdAssumption DEF KeptFrom, noteVars, stateVars
    <3>2. \A u \in Thread :
            call'[u] = call[u] \/ (~Working(u, c) /\ (call'[u].op = "idle" \/ call'[u].context # c))
      BY <2>2, <2>8 DEF Working, d
    <3> QED
      BY <2>5, <3>1, <3>2, PrunedKept
  <2> QED
    BY <2>7, <2>8
<1>18. ASSUME NEW t \in Thread, PruneStates(t)
      PROVE  PruneInv'
  <2> DEFINE d == call[t].context
  <2>1. PICK left \in SUBSET stateFiles[d] :
          /\ At(t, "pruneStates") /\ Ends(t)
          /\ stateFiles' = [stateFiles EXCEPT ![d] = left]
          /\ disturbed' = IF left = {} THEN disturbed ELSE disturbed \cup {d}
          /\ UNCHANGED <<storeVars, noteVars, said>>
    BY <1>18 DEF PruneStates
  <2>2. call'[t].op = "idle" /\ \A u \in Thread \ {t} : call'[u] = call[u]
    BY <2>1, Returns DEF Idle
  <2>3. d \in Context /\ stateFiles'[d] = left /\ \A c \in Context \ {d} : stateFiles'[c] = stateFiles[c]
    BY <2>1, CallTypes DEF TypeInv, WorkspaceTypeOK
  <2>4. SUFFICES ASSUME NEW c \in Context, said'[c] = "pruned", c \notin disturbed'
                 PROVE  Pruned(c)'
    BY DEF PruneInv, Pruned, Working, Pruning, At, Recovered
  <2>5. Pruned(c)
    BY <2>1, <2>4 DEF PruneInv
  <2>7. CASE c = d
    <3>1. stateFiles'[c] = {}
      BY <2>1, <2>3, <2>4, <2>7
    <3>2. \A u \in Thread : Working(u, c) <=> u = t
      BY <2>1, <2>5, <2>7 DEF Pruned, Working, At
    <3>3. \A u \in Thread : ~Working(u, c)'
      BY <2>2, <3>2 DEF Working
    <3>4. \A a \in Artifact : artifacts'[a] # c /\ Recovered'[a] # c
      BY <2>1, <2>5, <3>2 DEF Pruned, At, Recovered, storeVars
    <3>5. notesFile'[c] = None
      BY <2>1, <2>5 DEF Pruned, noteVars
    <3> QED
      BY <3>1, <3>3, <3>4, <3>5 DEF Pruned
  <2>8. CASE c # d
    <3>1. KeptFrom(c)
      BY <2>1, <2>3, <2>8 DEF KeptFrom, noteVars, storeVars
    <3>2. \A u \in Thread :
            call'[u] = call[u] \/ (~Working(u, c) /\ (call'[u].op = "idle" \/ call'[u].context # c))
      BY <2>2, <2>8 DEF Working
    <3> QED
      BY <2>5, <3>1, <3>2, PrunedKept
  <2> QED
    BY <2>7, <2>8
<1>19. CASE Sweep
  <2>1. PICK gone :
          /\ artifacts' = Without(artifacts, gone, None) /\ files' = files \ gone
          /\ UNCHANGED index \/ index'.artifacts = artifacts'
          /\ UNCHANGED <<noteVars, stateVars, call, said, disturbed>>
    BY <1>19 DEF Sweep, ExpireOlderThan, PersistIndex
  <2>2. \A a \in Artifact : artifacts'[a] = None \/ artifacts'[a] = artifacts[a]
    BY <2>1 DEF Without, TypeInv, WorkspaceTypeOK, StoreTypeOK
  <2>3. \A c \in Context : KeptFrom(c)
    BY <2>1, <2>2, IdAssumption DEF KeptFrom, noteVars, stateVars
  <2> QED
    BY <2>1, <2>3, PruneInvPointwise DEF PruneInv
<1>20. CASE TimePasses
  <2>1. \A c \in Context : KeptFrom(c)
    BY <1>20 DEF TimePasses, Age, KeptFrom, noteVars, stateVars
  <2> QED
    BY <1>20, <2>1, PruneInvPointwise DEF TimePasses, PruneInv
<1>21. CASE Restart
  <2>1. /\ artifacts' = Recovered /\ files' \subseteq files
        /\ UNCHANGED <<index, notesFile, stateFiles>>
    BY <1>21 DEF Restart, RestartStore
  <2>2. \A u \in Thread : call'[u].op = "idle"
    BY <1>21 DEF Restart, Idle
  <2>3. \A u \in Thread : Pruning(u) => call[u].context \in disturbed'
    BY <1>21 DEF Restart, Pruning
  <2>4. \A c \in Context :
          said'[c] = "pruned" /\ c \notin disturbed' => said[c] = "pruned" /\ c \notin disturbed
    BY <1>21 DEF Restart
  <2>5. SUFFICES ASSUME NEW c \in Context, said'[c] = "pruned", c \notin disturbed'
                 PROVE  Pruned(c)'
    BY DEF PruneInv, Pruned, Working, Pruning, At, Recovered
  <2>6. Pruned(c) /\ \A u \in Thread : ~Working(u, c)
    BY <2>3, <2>4, <2>5 DEF PruneInv, Pruned, Working
  <2>7. stateFiles'[c] = {} /\ notesFile'[c] = None /\ \A a \in Artifact : Recovered[a] # c
    BY <2>1, <2>6 DEF Pruned
  <2>8. \A a \in Artifact : artifacts'[a] # c /\ Recovered'[a] # c
    BY <2>1, <2>7, IdAssumption DEF Recovered
  <2>9. \A u \in Thread : ~Working(u, c)'
    BY <2>2 DEF Working
  <2> QED
    BY <2>7, <2>8, <2>9 DEF Pruned
<1>22. CASE UNCHANGED workVars
  <2>1. \A c \in Context : KeptFrom(c)
    BY <1>22 DEF workVars, KeptFrom
  <2> QED
    BY <1>22, <2>1, PruneInvPointwise DEF workVars, PruneInv
<1> QED
  BY <1>1, <1>2, <1>3, <1>4, <1>5, <1>6, <1>7, <1>8, <1>9, <1>10, <1>11, <1>12, <1>13, <1>14,
      <1>15, <1>16, <1>17, <1>18, <1>19, <1>20, <1>21, <1>22 DEF WorkspaceNext

-----------------------------------------------------------------------------
(* The invariant holds, and implies the properties.                         *)

LEMMA InitHolds == WorkspaceInit => WInv
<1> SUFFICES ASSUME WorkspaceInit
             PROVE  WInv
  OBVIOUS
<1> USE IdAssumption, WorkspaceAssumption
<1>1. TypeInv
  <2>1. StoreTypeOK
    BY DEF WorkspaceInit, StoreInit, StoreTypeOK, CaptureRecord, NoCapture
  <2>2. <<>> \in Seq(Snapshot) /\ Len(<<>>) = 0
    BY EmptySeq
  <2>3. snapshots \in [Context -> Seq(Snapshot)] /\ \A c \in Context : Len(snapshots[c]) <= MaxSnapshots
    BY <2>2 DEF WorkspaceInit
  <2> QED
    BY <2>1, <2>3
    DEF WorkspaceInit, TypeInv, WorkspaceTypeOK, CallRecord, CarriedIds, Writing, At, Idle
<1>2. /\ files = {} /\ removed = {} /\ promised = {} /\ used = {Default}
      /\ \A a \in Artifact : artifacts[a] = None /\ index.artifacts[a] = None
      /\ \A k \in Capture : captures[k].parts = {} /\ index.captures[k].parts = {}
      /\ \A t \in Thread : call[t].op = "idle"
      /\ \A c \in Context : snapshots[c] = <<>>
      /\ \A c \in Context : said[c] = IF c = Default THEN "open" ELSE "nothing"
      /\ \A c \in Context : contexts[c] = IF c = Default THEN "open" ELSE "absent"
      /\ contextsFile = contexts
  BY DEF WorkspaceInit, StoreInit, NoCapture, Idle
<1>3. \A c \in Context : Len(snapshots[c]) = 0 /\ DOMAIN snapshots[c] = {}
  BY <1>2, EmptySeq
<1>4. UsedInv
  BY <1>2, <1>3 DEF UsedInv, At
<1>5. BytesInv /\ IndexInv /\ RemovedInv /\ PromisedInv
  BY <1>2 DEF BytesInv, IndexInv, RemovedInv, PromisedInv, Stored, Writing
<1>6. CapturesInv /\ NotesInv
  BY <1>2 DEF CapturesInv, NotesInv, At
<1>7. SaidInv /\ PruningAbsent
  BY <1>2 DEF SaidInv, PruningAbsent, Pruning, At
<1>8. PruneInv
  BY <1>2 DEF PruneInv
<1>9. SnapshotInv
  BY <1>2, <1>3 DEF SnapshotInv, SnapshotsReadable, At
<1> QED
  BY <1>1, <1>4, <1>5, <1>6, <1>7, <1>8, <1>9 DEF WInv

LEMMA StepHolds ==
  ASSUME WInv, [WorkspaceNext]_workVars
  PROVE  WInv'
<1>1. /\ TypeInv /\ UsedInv /\ BytesInv /\ IndexInv /\ RemovedInv /\ PromisedInv /\ CapturesInv
      /\ NotesInv /\ SaidInv /\ PruningAbsent /\ PruneInv /\ SnapshotInv
  BY DEF WInv
<1>2. TypeInv' /\ UsedInv' /\ BytesInv' /\ IndexInv' /\ RemovedInv'
  BY <1>1, TypeStep, UsedStep, BytesStep, IndexStep, RemovedStep
<1>3. PromisedInv' /\ CapturesInv' /\ NotesInv' /\ SaidInv'
  BY <1>1, PromisedStep, CapturesStep, NotesStep, SaidStep
<1>4. PruningAbsent' /\ PruneInv' /\ SnapshotInv'
  BY <1>1, PruningAbsentStep, PruneStep, SnapshotStep
<1> QED
  BY <1>2, <1>3, <1>4 DEF WInv

LEMMA Inductive == WorkspaceSpec => []WInv
<1>1. WInv /\ [WorkspaceNext]_workVars => WInv'
  BY StepHolds
<1> QED
  BY <1>1, InitHolds, PTL DEF WorkspaceSpec

\* Every variable of the workspace keeps its type: a list of snapshot records never
\* exceeds its limit, and the default context is always there.
THEOREM WorkspaceTypeCorrect == WorkspaceSpec => []WorkspaceTypeOK
<1>1. WInv => WorkspaceTypeOK
  BY DEF WInv, TypeInv
<1> QED
  BY <1>1, Inductive, PTL

\* No interleaving of stores, sweeps, prunes and restarts leaves an entry whose
\* bytes are gone.
THEOREM EntriesKeepBytes == WorkspaceSpec => []EntriesHaveBytes
<1>1. WInv => EntriesHaveBytes
  BY DEF WInv, BytesInv, EntriesHaveBytes
<1> QED
  BY <1>1, Inductive, PTL

\* What a response said is stored would be read back by a restart at every instant,
\* until it is removed.
THEOREM PromisesAreDurable == WorkspaceSpec => []Durable
<1>1. ASSUME WInv
      PROVE  Durable
  <2>1. \A a \in promised \cap Artifact : Recovered[a] # None
    BY <1>1 DEF WInv, PromisedInv, BytesInv, Stored, Recovered
  <2>2. \A k \in promised \cap Capture :
          /\ index.captures[k] # NoCapture
          /\ \A a \in index.captures[k].parts : Recovered[a] # None \/ a \in removed
    BY <1>1 DEF WInv, CapturesInv, KeptParts
  <2>3. \A c \in Context, n \in Note :
          <<c, n>> \in promised /\ contextsFile[c] # "absent" => notesFile[c] # None /\ n \in notesFile[c]
    BY <1>1 DEF WInv, NotesInv
  <2>4. \A c \in Context : /\ said[c] = "open"   => contextsFile[c] # "absent"
                           /\ said[c] = "closed" => contextsFile[c] # "open"
                           /\ said[c] = "pruned" => contextsFile[c] = "absent"
    BY <1>1 DEF WInv, SaidInv
  <2> QED
    BY <2>1, <2>2, <2>3, <2>4 DEF Durable
<1>2. WInv => Durable
  BY <1>1
<1> QED
  BY <1>2, Inductive, PTL

\* What the sweep or a prune removed never comes back, and an undisturbed prune
\* leaves nothing of its context behind.
THEOREM RemovalsAreFinal == WorkspaceSpec => []RemovalsHold
<1>1. ASSUME WInv
      PROVE  RemovalsHold
  <2>1. RemovedStayRemoved
    BY <1>1 DEF WInv, RemovedInv, BytesInv, Stored, Recovered, RemovedStayRemoved
  <2>2. ASSUME NEW c \in Context, said[c] = "pruned", ~InFlight(c), c \notin disturbed
        PROVE  /\ Owned(c) = {} /\ \A a \in Artifact : Recovered[a] # c
               /\ notesFile[c] = None
               /\ stateFiles[c] = {}
    <3>1. Pruned(c) /\ \A t \in Thread : ~Working(t, c)
      BY <1>1, <2>2 DEF WInv, PruneInv, InFlight, Working
    <3> QED
      BY <3>1 DEF Pruned, Owned
  <2> QED
    BY <2>1, <2>2 DEF RemovalsHold, PruneLeavesNothing
<1>2. WInv => RemovalsHold
  BY <1>1
<1> QED
  BY <1>2, Inductive, PTL

\* Whatever is saved, evicted, deleted and pruned at the same time, a record of a
\* reachable context names a file that exists.
THEOREM RecordsNameFiles == WorkspaceSpec => []SnapshotsReadable
<1>1. WInv => SnapshotsReadable
  BY DEF WInv, SnapshotInv
<1> QED
  BY <1>1, Inductive, PTL

=============================================================================
