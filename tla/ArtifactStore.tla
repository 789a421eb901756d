---------------------------- MODULE ArtifactStore ----------------------------
(***************************************************************************)
(* artifact.Store: immutable byte files in one directory, their entries    *)
(* and the capture index in memory, and artifact-index.json, the document  *)
(* a restart reads.  Every critical section of the store is one operator;  *)
(* the callers, and the process that may die between two sections, are in  *)
(* Workspace.  "kept" says whether the write of the index succeeded (it    *)
(* goes to a temporary file and is renamed, so a failure leaves the        *)
(* previous document).                                                     *)
(***************************************************************************)
EXTENDS Naturals, FiniteSets

CONSTANTS Context, Artifact, Capture, None

VARIABLES artifacts, \* Store.artifacts: the context that owns each entry, or None
          captures,  \* Store.captures: owner and component artifacts, or NoCapture
          index,     \* artifact-index.json
          files,     \* the byte files in the directory
          old        \* the artifacts and captures created before the TTL cutoff

storeVars == <<artifacts, captures, index, files, old>>

NoCapture == [context |-> None, parts |-> {}]

CaptureRecord == [context : Context \cup {None}, parts : SUBSET Artifact]

StoreTypeOK ==
  /\ artifacts \in [Artifact -> Context \cup {None}]
  /\ captures \in [Capture -> CaptureRecord]
  /\ index \in [artifacts : [Artifact -> Context \cup {None}],
                captures  : [Capture -> CaptureRecord]]
  /\ files \subseteq Artifact
  /\ old \subseteq Artifact \cup Capture

Stored     == {a \in Artifact : artifacts[a] # None}
Registered == {k \in Capture : captures[k] # NoCapture}

\* NewStore on an empty directory.
StoreInit ==
  /\ artifacts = [a \in Artifact |-> None]
  /\ captures  = [k \in Capture |-> NoCapture]
  /\ index     = [artifacts |-> artifacts, captures |-> captures]
  /\ files     = {}
  /\ old       = {}

Without(entries, gone, none) ==
  [x \in DOMAIN entries |-> IF x \in gone THEN none ELSE entries[x]]

\* persistIndexLocked, after the maps have changed.
PersistIndex(kept) ==
  index' = IF kept THEN [artifacts |-> artifacts', captures |-> captures'] ELSE index

\* PutWithProvenance up to os.WriteFile: outside the lock, before any entry
\* exists.  A write that fails may leave part of the file.
WriteBytes(a, kept) ==
  /\ files' \in IF kept THEN {files \cup {a}} ELSE {files, files \cup {a}}
  /\ UNCHANGED <<artifacts, captures, index, old>>

\* Mutant of RegisterArtifact: an index that cannot be written is not an error
\* of the call (the caller is told it is stored, FinalizeCaptureConsistency
\* treats its own write that way).
RegisterUnpersisted(a, c, kept) ==
  /\ artifacts' = [artifacts EXCEPT ![a] = c]
  /\ UNCHANGED <<index, captures, files, old>>

\* PutWithProvenance under the lock: a failed index write is reported, but the
\* entry stays in memory and goes out with the next write that succeeds.
RegisterArtifact(a, c, kept) ==
  /\ artifacts' = [artifacts EXCEPT ![a] = c]
  /\ UNCHANGED <<captures, files, old>>
  /\ PersistIndex(kept)

\* PutCapture.
RegisterCapture(k, c, parts, kept) ==
  /\ captures' = [captures EXCEPT ![k] = [context |-> c, parts |-> parts]]
  /\ UNCHANGED <<artifacts, files, old>>
  /\ PersistIndex(kept)

\* Time passes: what was created so far is older than the cutoff.
Age == 
  /\ old # files \cup Stored \cup Registered
  /\ old' = files \cup Stored \cup Registered
  /\ UNCHANGED <<artifacts, captures, index, files>>

Expired         == Stored \cap old
ExpiredCaptures == Registered \cap old

\* Mutant of ExpireOlderThan: the entries go only when every file went.
ExpireBytesFirst(gone, kept) ==
  /\ gone \subseteq Expired
  /\ files' = files \ gone
  /\ IF gone = Expired
       THEN /\ artifacts' = Without(artifacts, gone, None)
            /\ captures' = Without(captures, ExpiredCaptures, NoCapture)
            /\ PersistIndex(kept)
       ELSE UNCHANGED <<artifacts, captures, index>>
  /\ UNCHANGED old

\* ExpireOlderThan: the sweep removes bytes and entry together and returns at
\* the first file it cannot remove, before the captures and without an index
\* write.  A capture expires by its own age, whatever became of its parts.
ExpireOlderThan(gone, kept) ==
  /\ gone \subseteq Expired
  /\ artifacts' = Without(artifacts, gone, None)
  /\ files'     = files \ gone
  /\ IF gone = Expired
       THEN /\ captures' = Without(captures, ExpiredCaptures, NoCapture)
            /\ PersistIndex(kept)
       ELSE UNCHANGED <<captures, index>>
  /\ UNCHANGED old

Owned(c)         == {a \in Artifact : artifacts[a] = c}
OwnedCaptures(c) == {k \in Capture : captures[k].context = c}

\* DeleteContext: as the sweep, for the entries of one context.
DeleteContext(c, gone, kept) ==
  /\ gone \subseteq Owned(c)
  /\ artifacts' = Without(artifacts, gone, None)
  /\ files'     = files \ gone
  /\ IF gone = Owned(c)
       THEN /\ captures' = Without(captures, OwnedCaptures(c), NoCapture)
            /\ PersistIndex(kept /\ Owned(c) \cup OwnedCaptures(c) # {})
       ELSE UNCHANGED <<captures, index>>
  /\ UNCHANGED old

Recovered ==
  [a \in Artifact |-> IF a \in files THEN index.artifacts[a] ELSE None]

\* NewStore after a restart: loadIndex, then every file no entry claims goes.
RestartStore ==
  /\ artifacts' = Recovered
  /\ captures'  = index.captures
  /\ files'     = {a \in files : Recovered[a] # None}
  /\ UNCHANGED <<index, old>>
=============================================================================
