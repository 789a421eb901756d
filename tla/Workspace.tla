------------------------------ MODULE Workspace ------------------------------
(***************************************************************************)
(* The persistent workspace: the registry of analysis contexts with        *)
(* contexts.json, one annotation store and document per context, the       *)
(* in-memory snapshot records with their state files, and the artifact     *)
(* store, worked on by concurrent tool calls that resolve a context first  *)
(* and act on it later, by the expiry sweep, and by a process that may die *)
(* and start again between any two steps.                                  *)
(***************************************************************************)
EXTENDS ArtifactStore, SequencesExt

CONSTANTS Thread, Default, Note, Snapshot,
          MaxNotes,     \* MaxAnnotationsPerContext
          MaxSnapshots, \* maxSnapshotsPerContext
          MaxCalls,     \* bound: calls started
          MaxFaults     \* bound: failed disk operations and crashes

\* Ids carry the prefix of their kind: no two kinds share one.
ASSUME IdAssumption ==
  /\ None \notin Context /\ \A document \in SUBSET Note : document # None
  /\ Artifact \cap Capture = {}
  /\ (Artifact \cup Capture) \cap (Context \X Note) = {}

ASSUME WorkspaceAssumption ==
  /\ Default \in Context
  /\ MaxNotes \in Nat /\ MaxSnapshots \in Nat \ {0}
  /\ MaxCalls \in Nat /\ MaxFaults \in Nat

VARIABLES contexts,     \* Registry.contexts, in memory
          contextsFile, \* contexts.json
          notes,        \* AnnotationStore of each context, in memory
          notesFile,    \* its document, or None when there is no file
          snapshots,    \* StateStore.snapshots: oldest first
          stateFiles,   \* the snapshot files in the directory of each context
          call,         \* what each request thread is doing
          used,         \* ids generated so far (random, never generated twice)
          calls, faults,
          promised,     \* history: what a response said is stored
          removed,      \* history: artifacts the store has removed
          said,         \* history: what the last response said of each context
          disturbed     \* history: contexts whose removal did not run undisturbed

registryVars == <<contexts, contextsFile>>
noteVars     == <<notes, notesFile>>
stateVars    == <<snapshots, stateFiles>>
workVars     == <<artifacts, captures, index, files, old, contexts, contextsFile, notes, notesFile,
                  snapshots, stateFiles, call, used, calls, faults, promised, removed, said, disturbed>>

Idle == [op |-> "idle", context |-> Default, id |-> None]

\* The operations a call performs on the context it has resolved, and the later
\* steps of those that take several.
FirstOps == {"put", "compose", "annotate", "import", "erase", "save", "drop"}
LaterOps == {"entry", "composeEntry", "register", "record", "unlink",
             "created", "pruneArtifacts", "pruneStates"}

CallRecord == [op : {"idle"} \cup FirstOps \cup LaterOps, context : Context,
               id : Artifact \cup Snapshot \cup {None}]

WorkspaceTypeOK ==
  /\ StoreTypeOK
  /\ contexts \in [Context -> {"absent", "open", "closed"}]
  /\ contextsFile \in [Context -> {"absent", "open", "closed"}]
  /\ notes \in [Context -> SUBSET Note]
  /\ notesFile \in [Context -> (SUBSET Note) \cup {None}]
  /\ snapshots \in [Context -> Seq(Snapshot)]
  /\ \A c \in Context : Len(snapshots[c]) <= MaxSnapshots
  /\ stateFiles \in [Context -> SUBSET Snapshot]
  /\ call \in [Thread -> CallRecord]
  /\ said \in [Context -> {"nothing", "open", "closed", "pruned", "failed"}]
  /\ contexts[Default] = "open"

\* OpenRegistry on an empty directory: the default context, persisted.
WorkspaceInit ==
  /\ StoreInit
  /\ contexts     = [c \in Context |-> IF c = Default THEN "open" ELSE "absent"]
  /\ contextsFile = contexts
  /\ notes        = [c \in Context |-> {}]
  /\ notesFile    = [c \in Context |-> None]
  /\ snapshots    = [c \in Context |-> <<>>]
  /\ stateFiles   = [c \in Context |-> {}]
  /\ call         = [t \in Thread |-> Idle]
  /\ used         = {Default}
  /\ calls        = 0
  /\ faults       = 0
  /\ promised     = {}
  /\ removed      = {}
  /\ said         = [c \in Context |-> IF c = Default THEN "open" ELSE "nothing"]
  /\ disturbed    = {}

At(t, op) == call[t].op = op
Becomes(t, op, id) == call' = [call EXCEPT ![t].op = op, ![t].id = id]
Ends(t) == call' = [call EXCEPT ![t] = Idle]
\* A disk operation succeeds, or one of the faults is spent on it.
Kept(ok) == \/ ok /\ faults' = faults
            \/ ~ok /\ faults < MaxFaults /\ faults' = faults + 1

-----------------------------------------------------------------------------
\* Calls on a resolved context

\* Registry.Resolve at the head of a tool: an open context, by id or by default.
Resolve(t, c, op) ==
  /\ At(t, "idle") /\ calls < MaxCalls
  /\ contexts[c] = "open"
  /\ call'  = [call EXCEPT ![t] = [op |-> op, context |-> c, id |-> None]]
  /\ calls' = calls + 1
  /\ UNCHANGED <<storeVars, registryVars, noteVars, stateVars, used, faults, promised, removed, said, disturbed>>

\* Store.PutWithProvenance, first half.
PutBytes(t) ==
  \E a \in Artifact \ used, ok \in BOOLEAN :
    /\ call[t].op \in {"put", "compose"}
    /\ Kept(ok)
    /\ WriteBytes(a, ok)
    /\ used' = used \cup {a}
    /\ IF ok THEN Becomes(t, IF At(t, "put") THEN "entry" ELSE "composeEntry", a) ELSE Ends(t)
    /\ UNCHANGED <<registryVars, noteVars, stateVars, calls, promised, removed, said, disturbed>>

\* Store.PutWithProvenance, second half; a composite goes on to its capture.
PutEntry(t) ==
  \E ok \in BOOLEAN :
    /\ call[t].op \in {"entry", "composeEntry"}
    /\ Kept(ok)
    /\ RegisterArtifact(call[t].id, call[t].context, ok)
    /\ promised' = IF ok THEN promised \cup {call[t].id} ELSE promised
    /\ IF ok /\ At(t, "composeEntry") THEN Becomes(t, "register", call[t].id) ELSE Ends(t)
    /\ UNCHANGED <<registryVars, noteVars, stateVars, used, calls, removed, said, disturbed>>

\* registerCapture, the last step of a composite capture.
PutCapture(t) ==
  \E k \in Capture \ used, ok \in BOOLEAN :
    /\ At(t, "register")
    /\ Kept(ok)
    /\ RegisterCapture(k, call[t].context, {call[t].id}, ok)
    /\ used' = used \cup {k}
    /\ promised' = IF ok THEN promised \cup {k} ELSE promised
    /\ Ends(t)
    /\ UNCHANGED <<registryVars, noteVars, stateVars, calls, removed, said, disturbed>>

\* AnnotationStore.persistLocked: the whole document, atomically replaced.
PersistNotes(c, ok) ==
  notesFile' = IF ok THEN [notesFile EXCEPT ![c] = notes'[c]] ELSE notesFile

NoteFacts(c) == {<<c, n>> : n \in Note}

\* AnnotationStore.Create, Import and Delete under the lock of the store: the
\* change stays in memory when the document cannot be written.
ChangeNotes(c, changed, ok) ==
  /\ notes' = [notes EXCEPT ![c] = changed]
  /\ PersistNotes(c, ok)

\* annotation_create: refused at the limit.
Annotate(t) ==
  \E n \in Note \ used, ok \in BOOLEAN :
    LET c == call[t].context IN
    /\ At(t, "annotate")
    /\ Cardinality(notes[c]) < MaxNotes
    /\ Kept(ok)
    /\ ChangeNotes(c, notes[c] \cup {n}, ok)
    /\ used' = used \cup {n}
    /\ promised' = IF ok THEN promised \cup {<<c, n>>} ELSE promised
    /\ Ends(t)
    /\ UNCHANGED <<storeVars, registryVars, stateVars, calls, removed, said, disturbed>>

\* annotation_import: ids of an earlier export, of this context or of another one,
\* which may bring back an annotation deleted here; an id that is present is kept
\* or replaced, and the limit counts it once.
ImportNotes(t) ==
  \E added \in SUBSET (Note \cap used), ok \in BOOLEAN :
    LET c == call[t].context IN
    /\ At(t, "import")
    /\ added # {} /\ Cardinality(notes[c] \cup added) <= MaxNotes
    /\ Kept(ok)
    /\ ChangeNotes(c, notes[c] \cup added, ok)
    /\ promised' = IF ok THEN promised \cup {<<c, n>> : n \in added} ELSE promised
    /\ Ends(t)
    /\ UNCHANGED <<storeVars, registryVars, stateVars, used, calls, removed, said, disturbed>>

\* annotation_delete: after a failed write the document alone still has it.
Erase(t) ==
  \E n \in notes[call[t].context], ok \in BOOLEAN :
    LET c == call[t].context IN
    /\ At(t, "erase")
    /\ Kept(ok)
    /\ ChangeNotes(c, notes[c] \ {n}, ok)
    /\ promised' = promised \ {<<c, n>>}
    /\ Ends(t)
    /\ UNCHANGED <<storeVars, registryVars, stateVars, used, calls, removed, said, disturbed>>

\* The early returns of annotation_create and annotation_import over the limit, of
\* annotation_delete and state_delete with nothing to delete.
Refused(t) ==
  LET c == call[t].context IN
  /\ \/ At(t, "annotate") /\ Cardinality(notes[c]) >= MaxNotes
     \/ At(t, "import") /\ \E n \in used \cap Note : Cardinality(notes[c] \cup {n}) > MaxNotes
     \/ At(t, "erase") /\ notes[c] = {}
     \/ At(t, "drop") /\ snapshots[c] = <<>>
  /\ Ends(t)
  /\ UNCHANGED <<storeVars, registryVars, noteVars, stateVars, used, calls, faults, promised, removed, said, disturbed>>

\* runStateSave until the plugin has written the file; a save that fails may have
\* written it.
SaveFile(t) ==
  \E s \in Snapshot \ used, ok \in BOOLEAN :
    LET c == call[t].context IN
    /\ At(t, "save")
    /\ Kept(ok)
    /\ used' = used \cup {s}
    /\ stateFiles' \in {[stateFiles EXCEPT ![c] = @ \cup {s}]} \cup (IF ok THEN {} ELSE {stateFiles})
    /\ IF ok THEN Becomes(t, "record", s) ELSE Ends(t)
    /\ UNCHANGED <<storeVars, registryVars, noteVars, snapshots, calls, promised, removed, said, disturbed>>

\* Mutant of Newest: the list grows without eviction.
NewestOfAll(list, n) == list

\* StateStore.Create: the newest records stay, the oldest is evicted.
Newest(list, n) == SubSeq(list, IF Len(list) > n THEN Len(list) - n + 1 ELSE 1, Len(list))

\* runStateSave after the native answer: the file is looked at, then recorded; the
\* file of the record that is evicted for it stays.
SaveRecord(t) ==
  LET c == call[t].context  s == call[t].id IN
  /\ At(t, "record")
  /\ snapshots' = IF s \in stateFiles[c]
                    THEN [snapshots EXCEPT ![c] = Newest(Append(@, s), MaxSnapshots)] ELSE snapshots
  /\ Ends(t)
  /\ UNCHANGED <<storeVars, registryVars, noteVars, stateFiles, used, calls, faults, promised, removed, said, disturbed>>

\* Mutant of DropRecord: the file goes before the record does.
DropFileFirst(t) ==
  \E i \in DOMAIN snapshots[call[t].context] :
    LET c == call[t].context IN
    /\ At(t, "drop")
    /\ stateFiles' = [stateFiles EXCEPT ![c] = @ \ {snapshots[c][i]}]
    /\ Becomes(t, "unlink", snapshots[c][i])
    /\ UNCHANGED <<storeVars, registryVars, noteVars, snapshots, used, calls, faults, promised, removed, said, disturbed>>

\* StateStore.Delete, the first half of state_delete.
DropRecord(t) ==
  \E i \in DOMAIN snapshots[call[t].context] :
    LET c == call[t].context IN
    /\ At(t, "drop")
    /\ snapshots' = [snapshots EXCEPT ![c] = RemoveAt(@, i)]
    /\ Becomes(t, "unlink", snapshots[c][i])
    /\ UNCHANGED <<storeVars, registryVars, noteVars, stateFiles, used, calls, faults, promised, removed, said, disturbed>>

\* os.Remove of the snapshot file: a failure is told in the answer.
DropFile(t) ==
  \E ok \in BOOLEAN :
    LET c == call[t].context IN
    /\ At(t, "unlink")
    /\ Kept(ok)
    /\ stateFiles' = IF ok THEN [stateFiles EXCEPT ![c] = @ \ {call[t].id}] ELSE stateFiles
    /\ Ends(t)
    /\ UNCHANGED <<storeVars, registryVars, noteVars, snapshots, used, calls, promised, removed, said, disturbed>>

-----------------------------------------------------------------------------
\* The life of a context

\* Registry.create: in memory, and so resolvable, before it is persisted.
CreateContext(t) ==
  \E c \in Context \ used :
    /\ At(t, "idle") /\ calls < MaxCalls
    /\ contexts' = [contexts EXCEPT ![c] = "open"]
    /\ used' = used \cup {c}
    /\ calls' = calls + 1
    /\ call' = [call EXCEPT ![t] = [op |-> "created", context |-> c, id |-> None]]
    /\ UNCHANGED <<storeVars, contextsFile, noteVars, stateVars, faults, promised, removed, said, disturbed>>

\* Registry.Create, its second critical section.
PersistCreated(t) ==
  \E ok \in BOOLEAN :
    LET c == call[t].context IN
    /\ At(t, "created")
    /\ Kept(ok)
    /\ contextsFile' = IF ok THEN contexts ELSE contextsFile
    /\ said' = [said EXCEPT ![c] = IF @ # "nothing" THEN @ ELSE IF ok THEN "open" ELSE "failed"]
    /\ Ends(t)
    /\ UNCHANGED <<storeVars, contexts, noteVars, stateVars, used, calls, promised, removed, disturbed>>

\* Registry.Close: a failed write is reported, but the context is closed in memory.
CloseContext(t) ==
  \E c \in Context \ {Default}, ok \in BOOLEAN :
    /\ At(t, "idle") /\ calls < MaxCalls
    /\ contexts[c] = "open"
    /\ Kept(ok)
    /\ contexts' = [contexts EXCEPT ![c] = "closed"]
    /\ contextsFile' = IF ok THEN contexts' ELSE contextsFile
    /\ said' = [said EXCEPT ![c] = IF ok THEN "closed" ELSE "failed"]
    /\ calls' = calls + 1
    /\ UNCHANGED <<storeVars, noteVars, stateVars, call, used, promised, removed, disturbed>>

\* A call that resolved c, or creates it, is still under way.
InFlight(c) == \E t \in Thread : call[t].op # "idle" /\ call[t].context = c

\* Registry.Prune: the entry goes first; then the annotation document is removed
\* and the registry written, either of which may fail and end the call there.
PruneContext(t) ==
  \E c \in Context \ {Default}, unlinked, ok \in BOOLEAN :
    /\ At(t, "idle") /\ calls < MaxCalls
    /\ contexts[c] = "closed"
    /\ ok => unlinked
    /\ Kept(ok)
    /\ contexts' = [contexts EXCEPT ![c] = "absent"]
    /\ notesFile' = IF unlinked THEN [notesFile EXCEPT ![c] = None] ELSE notesFile
    /\ contextsFile' = IF ok THEN contexts' ELSE contextsFile
    /\ call' = IF ok THEN [call EXCEPT ![t] = [op |-> "pruneArtifacts", context |-> c, id |-> None]] ELSE call
    /\ promised' = promised \ NoteFacts(c)
    /\ said' = [said EXCEPT ![c] = IF ok THEN "pruned" ELSE "failed"]
    /\ disturbed' = IF ok /\ ~InFlight(c) THEN disturbed ELSE disturbed \cup {c}
    /\ calls' = calls + 1
    /\ UNCHANGED <<storeVars, notes, stateVars, used, removed>>

\* runContextPrune, DeleteContext: its failure is noted and the call goes on.
PruneArtifacts(t) ==
  LET c == call[t].context IN
  \E gone \in SUBSET Owned(c), kept \in BOOLEAN :
    /\ At(t, "pruneArtifacts")
    /\ Kept(gone = Owned(c) /\ kept)
    /\ DeleteContext(c, gone, kept)
    /\ removed'  = removed \cup gone
    /\ promised' = promised \ (gone \cup OwnedCaptures(c))
    /\ disturbed' = IF gone = Owned(c) THEN disturbed ELSE disturbed \cup {c}
    /\ Becomes(t, "pruneStates", None)
    /\ UNCHANGED <<registryVars, noteVars, stateVars, used, calls, said>>

\* Mutant of PruneStates: only the files the snapshot records name are removed.
PruneRecordedStates(t) ==
  LET c == call[t].context
      recorded == {snapshots[c][i] : i \in DOMAIN snapshots[c]} IN
  /\ At(t, "pruneStates")
  /\ stateFiles' = [stateFiles EXCEPT ![c] = @ \ recorded]
  /\ Ends(t)
  /\ UNCHANGED <<storeVars, registryVars, noteVars, snapshots, used, calls, faults, promised, removed, said, disturbed>>

\* removeStateDirectory: whatever is in the directory, recorded or not; a file
\* that cannot be removed is not counted, and stays.
PruneStates(t) ==
  LET c == call[t].context IN
  \E left \in SUBSET stateFiles[c] :
    /\ At(t, "pruneStates")
    /\ Kept(left = {})
    /\ stateFiles' = [stateFiles EXCEPT ![c] = left]
    /\ disturbed' = IF left = {} THEN disturbed ELSE disturbed \cup {c}
    /\ Ends(t)
    /\ UNCHANGED <<storeVars, registryVars, noteVars, snapshots, used, calls, promised, removed, said>>

-----------------------------------------------------------------------------
\* The sweep, the clock, the process

\* One tick of runArtifactSweeper.
Sweep ==
  \E gone \in SUBSET Expired, kept \in BOOLEAN :
    /\ Expired \cup ExpiredCaptures # {}
    /\ Kept(gone = Expired /\ kept)
    /\ ExpireOlderThan(gone, kept)
    /\ removed'  = removed \cup gone
    /\ promised' = promised \ (gone \cup ExpiredCaptures)
    /\ UNCHANGED <<registryVars, noteVars, stateVars, call, used, calls, said, disturbed>>

TimePasses ==
  /\ Age
  /\ UNCHANGED <<registryVars, noteVars, stateVars, call, used, calls, faults, promised, removed, said, disturbed>>

\* The process dies and main starts again: NewStore, then OpenRegistry.  Snapshot
\* records do not survive; a context that was never written, or whose removal is
\* not finished, is left with whatever its calls had stored.
Restart ==
  /\ faults < MaxFaults
  /\ faults' = faults + 1
  /\ RestartStore
  /\ contexts'  = contextsFile
  /\ notes'     = [c \in Context |-> IF contextsFile[c] = "absent" \/ notesFile[c] = None
                                       THEN {} ELSE notesFile[c]]
  /\ snapshots' = [c \in Context |-> <<>>]
  /\ call'      = [t \in Thread |-> Idle]
  /\ said'      = [c \in Context |-> IF c \in used /\ said[c] = "nothing" THEN "failed" ELSE said[c]]
  /\ disturbed' = disturbed
       \cup {call[t].context : t \in {u \in Thread : call[u].op \in {"pruneArtifacts", "pruneStates"}}}
  /\ UNCHANGED <<contextsFile, notesFile, stateFiles, used, calls, promised, removed>>

WorkspaceNext ==
  \/ \E t \in Thread, c \in Context, op \in FirstOps : Resolve(t, c, op)
  \/ \E t \in Thread :
       \/ PutBytes(t) \/ PutEntry(t) \/ PutCapture(t)
       \/ Annotate(t) \/ ImportNotes(t) \/ Erase(t) \/ Refused(t)
       \/ SaveFile(t) \/ SaveRecord(t) \/ DropRecord(t) \/ DropFile(t)
       \/ CreateContext(t) \/ PersistCreated(t) \/ CloseContext(t)
       \/ PruneContext(t) \/ PruneArtifacts(t) \/ PruneStates(t)
  \/ Sweep \/ TimePasses \/ Restart

WorkspaceSpec == WorkspaceInit /\ [][WorkspaceNext]_workVars

-----------------------------------------------------------------------------
\* Properties

\* An entry in memory always has its bytes: artifact_get of a listed artifact
\* never finds the file missing, whatever sweep, prune or restart failed half-way.
EntriesHaveBytes == Stored \subseteq files

\* What a response said is stored is what a restart would read at every instant,
\* until a later operation removes it: the bytes and the entry of an artifact, a
\* capture and those of its parts that were not expired, an annotation of a
\* context that still exists, and the last acknowledged state of each context.
Durable ==
  /\ \A a \in promised \cap Artifact : Recovered[a] # None
  /\ \A k \in promised \cap Capture :
       /\ index.captures[k] # NoCapture
       /\ \A a \in index.captures[k].parts : Recovered[a] # None \/ a \in removed
  /\ \A c \in Context, n \in Note :
       <<c, n>> \in promised /\ contextsFile[c] # "absent" => notesFile[c] # None /\ n \in notesFile[c]
  /\ \A c \in Context : /\ said[c] = "open"   => contextsFile[c] # "absent"
                        /\ said[c] = "closed" => contextsFile[c] # "open"
                        /\ said[c] = "pruned" => contextsFile[c] = "absent"

\* An artifact the sweep or a prune removed never comes back, in memory or by a
\* restart, although the write of the index that records its removal may fail.
RemovedStayRemoved ==
  \A a \in removed : artifacts[a] = None /\ Recovered[a] = None

\* A prune reclaims the whole context: once it has answered, no entry, annotation
\* document or state file of the context is left, evicted and forgotten snapshots
\* included, unless one of its own removals failed, the process died in the middle
\* of it, or a call that had resolved the context was still under way.
PruneLeavesNothing ==
  \A c \in Context :
    said[c] = "pruned" /\ ~InFlight(c) /\ c \notin disturbed =>
      /\ Owned(c) = {} /\ \A a \in Artifact : Recovered[a] # c
      /\ notesFile[c] = None
      /\ stateFiles[c] = {}

\* What is removed stays removed, and a prune removes everything.
RemovalsHold == RemovedStayRemoved /\ PruneLeavesNothing

\* state_load and state_list of a reachable context name only snapshots whose file
\* exists.
SnapshotsReadable ==
  \A c \in Context : contexts[c] # "absent" =>
    \A i \in DOMAIN snapshots[c] : snapshots[c][i] \in stateFiles[c]
=============================================================================
