---------------------------- MODULE CatalogueProofs ----------------------------
(***************************************************************************)
(* What the archive is for who uses it, in four parts.                     *)
(*                                                                         *)
(* What a restore writes is what its manifest refers to, whatever other    *)
(* commands do meanwhile.  The argument is that a member of a chunk is     *)
(* written once: a chunk belongs to the archiver that drew its id, and an  *)
(* archiver adds no path twice.                                            *)
(*                                                                         *)
(* While commands do not overlap and are not cut short, all that is listed *)
(* can be fetched and comes back, and all that is stored is listed.        *)
(*                                                                         *)
(* A backup archives exactly what changed.                                 *)
(*                                                                         *)
(* And the commands as a whole: SecureBackup, one at a time, implements    *)
(* Catalogue.                                                              *)
(***************************************************************************)
EXTENDS SecureBackupProofs

(* A chunk nobody has drawn is empty. *)
FreshEmpty == \A c \in ChunkIds \ minted : content[c] = NoFiles

(* The chunk an archiver fills is its own, and holds none of the paths left. *)
CurOwned ==
    \A p \in Procs :
        arc[p].cur # None =>
            /\ arc[p].cur \in minted
            /\ \A q \in Procs \ {p} : arc[q].cur # arc[p].cur
            /\ \A x \in arc[p].todo : content[arc[p].cur][x] = None

(* Nothing is drawn before the archiver runs. *)
CurLate == \A p \in Procs : pc[p] \in {"idle", "fetch", "walk"} => arc[p].cur = None

(* Only a restore writes files, and only what its manifest refers to. *)
OutGood(p) ==
    /\ pc[p] # "restore" => out[p] = NoFiles
    /\ \A x \in Paths : out[p][x] # None =>
          /\ x \in Wanted(p)
          /\ out[p][x] = StoredVersion(man[p].files, x)

RestoreInv == TypeInv /\ FreshEmpty /\ CurOwned /\ CurLate /\ \A p \in Procs : OutGood(p)

(* No step changes a member that is there. *)
Frozen == \A c \in ChunkIds, x \in Paths : content[c][x] # None => content'[c][x] = content[c][x]

(* Processes that neither restore nor move keep what they wrote. *)
LEMMA OutKept ==
    ASSUME TypeInv, Frozen, NEW p \in Procs, OutGood(p),
           out'[p] = out[p], man'[p] = man[p], job'[p] = job[p],
           pc'[p] # "restore" => pc[p] # "restore"
    PROVE  OutGood(p)'
<1>1. man[p].files \in Files
  BY DEF TypeInv, TypeOK, Manifest
<1>2. ASSUME NEW x \in Paths, out[p][x] # None
      PROVE  x \in Wanted(p)' /\ out[p][x] = StoredVersion(man[p].files, x)'
  <2>1. x \in Wanted(p) /\ out[p][x] = StoredVersion(man[p].files, x)
    BY <1>2 DEF OutGood
  <2>2. man[p].files[x] # None /\ man[p].files[x].chunk \in ChunkIds
    BY <1>1, <2>1 DEF Wanted, Selected, Listed, Files, Entry
  <2>3. content'[man[p].files[x].chunk][x] = out[p][x]
    BY <1>2, <2>1, <2>2 DEF StoredVersion, Frozen
  <2> QED
    BY <2>1, <2>2, <2>3 DEF Wanted, StoredVersion
<1> QED
  BY <1>2 DEF OutGood

(* A process that restored nothing so far has nothing wrong. *)
LEMMA OutEmpty ==
    ASSUME NEW p \in Procs, out'[p] = NoFiles
    PROVE  OutGood(p)'
  BY DEF OutGood, NoFiles

(* Steps that draw no chunk and add no path keep the ownership of chunks. *)
LEMMA OwnedKept ==
    ASSUME RestoreInv, content' = content, minted' = minted,
           \A p \in Procs : \/ arc'[p] = arc[p]
                            \/ arc'[p].cur = None
    PROVE  FreshEmpty' /\ CurOwned' /\ Frozen
  BY DEF RestoreInv, FreshEmpty, CurOwned, Frozen

(* Ending keeps the invariant. *)
LEMMA RestoreExit ==
    ASSUME RestoreInv, NEW p \in Procs, Exit(p), UNCHANGED chunkdata
    PROVE  FreshEmpty' /\ CurOwned' /\ CurLate' /\ \A q \in Procs : OutGood(q)'
<1> USE DEF RestoreInv
<1>1. /\ arc'[p].cur = None /\ out'[p] = NoFiles
      /\ \A q \in Procs \ {p} : /\ arc'[q] = arc[q] /\ out'[q] = out[q] /\ man'[q] = man[q]
                                /\ job'[q] = job[q] /\ pc'[q] = pc[q]
  BY DEF Exit, TypeInv, TypeOK, NewArchiver
<1>2. FreshEmpty' /\ CurOwned' /\ Frozen
  BY <1>1, OwnedKept DEF chunkdata
<1>3. CurLate'
  BY <1>1 DEF CurLate
<1>4. ASSUME NEW q \in Procs
      PROVE  OutGood(q)'
  <2>1. CASE q = p
    BY <1>1, <2>1, OutEmpty
  <2>2. CASE q # p
    BY <1>1, <1>2, <2>2, OutKept
  <2> QED
    BY <2>1, <2>2
<1> QED
  BY <1>2, <1>3, <1>4

(* Steps of p outside the restore loop that draw no chunk. *)
LEMMA RestoreElse ==
    ASSUME RestoreInv, NEW p \in Procs, UNCHANGED <<content, minted, out>>,
           pc[p] # "restore",
           arc'[p] = arc[p] \/ arc'[p].cur = None,
           pc'[p] \in {"idle", "fetch", "walk"} => arc'[p].cur = None,
           \A q \in Procs \ {p} : /\ arc'[q] = arc[q] /\ man'[q] = man[q]
                                  /\ job'[q] = job[q] /\ pc'[q] = pc[q]
    PROVE  FreshEmpty' /\ CurOwned' /\ CurLate' /\ \A q \in Procs : OutGood(q)'
<1> USE DEF RestoreInv
<1>1. FreshEmpty' /\ CurOwned' /\ Frozen
  BY OwnedKept
<1>2. CurLate'
  BY DEF CurLate
<1>3. out'[p] = NoFiles
  BY DEF OutGood
<1>4. ASSUME NEW q \in Procs
      PROVE  OutGood(q)'
  <2>1. CASE q = p
    BY <1>3, <2>1, OutEmpty
  <2>2. CASE q # p
    BY <1>1, <2>2, OutKept
  <2> QED
    BY <2>1, <2>2
<1> QED
  BY <1>1, <1>2, <1>4

(* Adding path x, or passing it over, when the chunk for it is c. *)
LEMMA RestoreAdd ==
    ASSUME RestoreInv, NEW p \in Procs, pc[p] = "archive", pc' = pc,
           NEW x \in arc[p].todo, NEW c \in ChunkIds,
           c \in Fresh \/ c = arc[p].cur,
           minted' = minted \cup {c}, UNCHANGED <<man, job, out>>,
           arc'[p].cur = c, arc'[p].todo = arc[p].todo \ {x},
           \A q \in Procs \ {p} : arc'[q] = arc[q],
           \/ content' = content
           \/ content' = [content EXCEPT ![c][x] = disk[x]]
    PROVE  FreshEmpty' /\ CurOwned' /\ CurLate' /\ \A q \in Procs : OutGood(q)'
<1> USE DEF RestoreInv
<1>0. content \in [ChunkIds -> FileMap] /\ x \in Paths
  BY DEF TypeInv, TypeOK, Archiver
<1>1. content[c][x] = None /\ \A y \in arc[p].todo : content[c][y] = None
  <2>1. CASE c \in Fresh
    BY <1>0, <2>1 DEF Fresh, FreshEmpty, NoFiles, TypeInv, TypeOK, Archiver
  <2>2. CASE c = arc[p].cur
    BY <2>2, NoneAssumption DEF CurOwned
  <2> QED
    BY <2>1, <2>2
<1>2. /\ \A d \in ChunkIds \ {c} : content'[d] = content[d]
      /\ \A y \in Paths \ {x} : content'[c][y] = content[c][y]
  BY <1>0 DEF FileMap
<1>3. Frozen
  BY <1>1, <1>2 DEF Frozen
<1>4. FreshEmpty'
  BY <1>2 DEF FreshEmpty
<1>5. \A q \in Procs \ {p} : arc[q].cur # c
  <2>1. CASE c \in Fresh
    BY <2>1, NoneAssumption DEF Fresh, CurOwned
  <2>2. CASE c = arc[p].cur
    BY <2>2, NoneAssumption DEF CurOwned
  <2> QED
    BY <2>1, <2>2
<1>6. CurOwned'
  <2> SUFFICES ASSUME NEW q \in Procs, arc'[q].cur # None
               PROVE  /\ arc'[q].cur \in minted'
                      /\ \A r \in Procs \ {q} : arc'[r].cur # arc'[q].cur
                      /\ \A y \in arc'[q].todo : content'[arc'[q].cur][y] = None
    BY DEF CurOwned
  <2>1. CASE q = p
    <3>1. \A y \in arc'[p].todo : y \in Paths \ {x} /\ content'[c][y] = None
      BY <1>1, <1>2 DEF TypeInv, TypeOK, Archiver
    <3> QED
      BY <1>5, <2>1, <3>1
  <2>2. CASE q # p
    <3>1. arc'[q] = arc[q] /\ arc[q].cur # c
      BY <1>5, <2>2
    <3>2. arc[q].cur \in ChunkIds
      BY <3>1 DEF TypeInv, TypeOK, Archiver
    <3>3. content'[arc[q].cur] = content[arc[q].cur]
      BY <1>2, <3>1, <3>2
    <3> QED
      BY <2>2, <3>1, <3>3 DEF CurOwned
  <2> QED
    BY <2>1, <2>2
<1>7. CurLate'
  BY DEF CurLate
<1> QED
  BY <1>3, <1>4, <1>6, <1>7, OutKept

LEMMA RestoreStep == RestoreInv /\ [Next]_vars => RestoreInv'
<1> USE DEF RestoreInv
<1> DEFINE Rest == FreshEmpty /\ CurOwned /\ CurLate /\ \A q \in Procs : OutGood(q)
<1> SUFFICES ASSUME RestoreInv, [Next]_vars
             PROVE  Rest'
  BY TypeStep
<1> USE DEF TypeInv, TypeOK
<1>1. ASSUME UNCHANGED <<content, minted, pc, job, man, arc, out>>
      PROVE  Rest'
  BY <1>1, OwnedKept, OutKept DEF CurLate
<1>2. CASE UNCHANGED vars \/ \E x \in Paths : Edit(x)
  BY <1>1, <1>2 DEF vars, Edit, local, chunkdata
<1>3. CASE \E call \in late : LateCall(call) \/ LateCallLost(call)
  BY <1>1, <1>3 DEF LateCall, LateCallLost, local, chunkdata
<1>4. ASSUME NEW p \in Procs, Start(p) \/ Crash(p)
      PROVE  Rest'
  BY <1>4, RestoreExit, RestoreElse DEF Start, Crash, Goto, chunkdata, CurLate
<1>5. ASSUME NEW p \in Procs, Download(p)
      PROVE  Rest'
  BY <1>5, RestoreExit, RestoreElse
     DEF Download, Fetch, FetchAbsent, FetchFails, Fetched, Goto, chunkdata, CurLate
<1>6. ASSUME NEW p \in Procs, Walk(p)
      PROVE  Rest'
  <2>1. arc'[p].cur = None
    BY <1>6 DEF Walk, CurLate, Archiver
  <2> QED
    BY <1>6, <2>1, RestoreElse DEF Walk, Goto, chunkdata
<1>7. ASSUME NEW p \in Procs, Archive(p)
      PROVE  Rest'
  <2>1. ASSUME NEW x \in Paths, AddFile(p, x) \/ AddFileShort(p, x)
        PROVE  Rest'
    <3>1. PICK c \in ChunkFor(p, x) :
            /\ minted' = minted \cup {c}
            /\ arc' = [arc EXCEPT ![p] = Recorded(arc[p], x, EntryFor(x, seen[p][x], c))]
            /\ content' = content \/ content' = [content EXCEPT ![c][x] = disk[x]]
      BY <2>1 DEF AddFile, AddFileShort
    <3>2. c \in ChunkIds /\ (c \in Fresh \/ c = arc[p].cur)
      BY <3>1 DEF ChunkFor, Fresh, Archiver
    <3>3. arc'[p].cur = c /\ arc'[p].todo = arc[p].todo \ {x}
      BY <3>1 DEF Recorded, EntryFor, Archiver
    <3> QED
      BY <2>1, <3>1, <3>2, <3>3, RestoreAdd DEF AddFile, AddFileShort
  <2>2. ASSUME NEW x \in Paths, AddFileFails(p, x)
        PROVE  Rest'
    <3>1. PICK c \in (IF arc[p].stuck THEN {arc[p].cur}
                      ELSE ChunkFor(p, x) \cup {arc[p].cur}), broken \in BOOLEAN :
            /\ minted' = minted \cup ({c} \ {None})
            /\ arc' = [arc EXCEPT ![p] = PassedOver(arc[p], x, c, broken)]
      BY <2>2 DEF AddFileFails
    <3>2. arc'[p].cur = c /\ arc'[p].todo = arc[p].todo \ {x}
      BY <3>1 DEF PassedOver, Archiver
    <3>3. CASE c = None
      BY <2>2, <3>1, <3>2, <3>3, RestoreElse DEF AddFileFails
    <3>4. CASE c # None
      <4>1. c \in ChunkIds /\ (c \in Fresh \/ c = arc[p].cur)
        BY <3>1, <3>4 DEF ChunkFor, Fresh, Archiver
      <4> QED
        BY <2>2, <3>1, <3>2, <3>4, <4>1, RestoreAdd DEF AddFileFails
    <3> QED
      BY <3>3, <3>4
  <2>3. CASE ArchiveAborts(p) \/ Finalize(p)
    BY <2>3, RestoreExit, RestoreElse DEF ArchiveAborts, Finalize, Goto, chunkdata
  <2> QED
    BY <1>7, <2>1, <2>2, <2>3 DEF Archive
<1>8. ASSUME NEW p \in Procs, Upload(p)
      PROVE  Rest'
  BY <1>8, RestoreExit, RestoreElse
     DEF Upload, UploadChunk, UploadFails, Merge, Goto, chunkdata
<1>9. ASSUME NEW p \in Procs, Delete(p) \/ Purge(p)
      PROVE  Rest'
  BY <1>9, RestoreExit, RestoreElse
     DEF Delete, Confirm, Decline, Purge, PurgeChunk, PurgeFails, Goto, chunkdata
<1>10. ASSUME NEW p \in Procs, Store(p)
       PROVE  Rest'
  BY <1>10, RestoreExit, RestoreElse
     DEF Store, Publish, Truncate, Rewrite, PublishFails, DeleteManifest, Purged, Goto,
         chunkdata, local
<1>11. ASSUME NEW p \in Procs, Restore(p)
       PROVE  Rest'
  <2>1. CASE NothingToRestore(p) \/ RestoreDone(p) \/ Select(p)
    BY <2>1, RestoreExit, RestoreElse DEF NothingToRestore, RestoreDone, Select, Goto, chunkdata
  <2>2. ASSUME NEW c \in ChunkIds, NEW got \in SUBSET Found(p, c), pc[p] = "restore",
               Restored(p, c, got)
        PROVE  Rest'
    <3>1. FreshEmpty' /\ CurOwned' /\ Frozen /\ CurLate'
      BY <2>2, OwnedKept DEF Restored, chunkdata, CurLate
    <3>2. \A x \in Paths :
              out'[p][x] = IF x \in got THEN content[c][x] ELSE out[p][x]
      BY <2>2 DEF Restored, FileMap
    <3>3. ASSUME NEW x \in Paths, out'[p][x] # None
          PROVE  x \in Wanted(p) /\ out'[p][x] = StoredVersion(man[p].files, x)
      <4>1. CASE x \in got
        BY <2>2, <3>2, <4>1 DEF Found, Extracted, Wanted, Selected, Listed, StoredVersion
      <4>2. CASE x \notin got
        BY <3>2, <3>3, <4>2 DEF OutGood
      <4> QED
        BY <4>1, <4>2
    <3>4. OutGood(p)'
      <4>1. UNCHANGED <<content, job, man, pc>>
        BY <2>2 DEF Restored, chunkdata
      <4> QED
        BY <2>2, <3>3, <4>1 DEF OutGood, Wanted, StoredVersion
    <3>5. \A q \in Procs \ {p} : OutGood(q)'
      BY <2>2, <3>1, OutKept DEF Restored
    <3> QED
      BY <3>1, <3>4, <3>5
  <2>3. ASSUME NEW c \in ChunkIds, RestoreChunkFails(p, c)
        PROVE  Rest'
    BY <1>1, <2>3 DEF RestoreChunkFails, chunkdata
  <2> QED
    BY <1>11, <2>1, <2>2, <2>3 DEF Restore, RestoreChunk, RestoreChunkPartly
<1> QED
  BY <1>2, <1>3, <1>4, <1>5, <1>6, <1>7, <1>8, <1>9, <1>10, <1>11 DEF Next, Run

LEMMA RestoreInit == Init => RestoreInv
  BY TypeInit DEF Init, RestoreInv, FreshEmpty, CurOwned, CurLate, OutGood, NewArchiver, NoFiles

(***************************************************************************)
(* A restore writes only what it was asked for, each file with the bytes   *)
(* its manifest refers to, while other commands back up, purge, delete and *)
(* fail: an object it fetches may be gone, never hold something else.      *)
(***************************************************************************)
THEOREM RestoreAlwaysFaithful == Spec => []RestoreFaithful
<1>1. RestoreInv => RestoreFaithful
  BY DEF RestoreInv, OutGood, RestoreFaithful
<1> QED
  BY <1>1, RestoreInit, RestoreStep, PTL DEF Spec

-----------------------------------------------------------------------------
(***************************************************************************)
(* Commands one at a time.  Between the first deletion of a purge and the  *)
(* new manifest, the stored one may refer to chunks that are gone; so no   *)
(* command may overlap another, be killed, or fail to store its manifest,  *)
(* and delete --all may not be refused the deletion of the old one.        *)
(***************************************************************************)
Uncut ==
    /\ Faults \cap {"crash", "publish"} = {}
    /\ "deleteAll" \notin Commands \/ "delete" \notin Faults

Alone(p) == p \in Procs /\ Procs = {p}

(* No file refers to a chunk whose deletion was asked for. *)
Spared(f) == Active(f) \cap purged = {}

(* Whatever is listed, archived or waiting for a deletion has been drawn,   *)
(* and a chunk that is archived was drawn since: it was never purged.       *)
ProcSpare(p) ==
    /\ man[p].chunks \cup arc[p].chunks \cup queue[p] \subseteq minted
    /\ arc[p].cur \in arc[p].chunks \cup {None}
    /\ pc[p] \in {"archive", "upload"} => arc[p].chunks \cap purged = {}
    /\ Spared(man[p].files)
    /\ pc[p] = "writing" => manifest = Corrupt
    /\ Stored /\ pc[p] # "purge" => Spared(manifest.files)

StoreSpare ==
    /\ purged \subseteq minted
    /\ Stored => manifest.chunks \subseteq minted
    /\ \A call \in late : call.op # "manifest"

SpareInv ==
    /\ PhaseInv /\ SafetyInv
    /\ StoreSpare /\ \A p \in Procs : ProcSpare(p)

(* A process that ends leaves the store as it found it, or its own copy. *)
LEMMA SpareExit ==
    ASSUME SpareInv, NEW p, Alone(p), Exit(p), UNCHANGED <<minted, purged>>,
           \A call \in late' \ late : call.op # "manifest",
           \/ manifest' = manifest /\ pc[p] \notin {"purge", "writing"}
           \/ manifest' \in {man[p], None}
    PROVE  StoreSpare' /\ ProcSpare(p)'
<1> USE DEF SpareInv, Alone, SafetyInv, TypeInv, TypeOK
<1>1. man'[p] = NewManifest /\ arc'[p] = NewArchiver /\ queue'[p] = {} /\ pc'[p] = "idle"
  BY DEF Exit
<1>2. Spared(NewManifest.files)' /\ NewManifest.chunks = {}
  BY DEF Spared, Active, Listed, NewManifest, NoFiles
<1>3. Stored' => /\ manifest'.chunks \subseteq minted
                 /\ Active(manifest'.files) \cap purged = {}
  BY SentinelsAssumption DEF Stored, StoreSpare, ProcSpare, Spared
<1>4. StoreSpare'
  BY <1>3 DEF StoreSpare
<1>5. ProcSpare(p)'
  BY <1>1, <1>2, <1>3 DEF ProcSpare, NewArchiver, Spared
<1> QED
  BY <1>4, <1>5

(* A step that moves only the process itself, outside the purge. *)
LEMMA SpareLocal ==
    ASSUME SpareInv, NEW p, Alone(p), UNCHANGED <<purged, manifest, late>>,
           minted \subseteq minted',
           pc[p] \notin {"purge", "writing"}, pc'[p] # "writing",
           man'[p].chunks \cup arc'[p].chunks \cup queue'[p] \subseteq minted',
           arc'[p].cur \in arc'[p].chunks \cup {None},
           pc'[p] \in {"archive", "upload"} => arc'[p].chunks \cap purged = {},
           Active(man'[p].files) \cap purged = {}
    PROVE  StoreSpare' /\ ProcSpare(p)'
<1> USE DEF SpareInv, Alone
<1>1. StoreSpare'
  BY DEF StoreSpare, Stored
<1>2. ProcSpare(p)'
  BY DEF ProcSpare, Spared, Stored
<1> QED
  BY <1>1, <1>2

LEMMA SpareBegin ==
    ASSUME SpareInv, NEW p, Alone(p), Start(p) \/ Download(p) \/ Walk(p)
    PROVE  StoreSpare' /\ ProcSpare(p)'
<1> USE DEF SpareInv, Alone, SafetyInv, TypeInv, TypeOK
<1>0. ProcSpare(p) /\ StoreSpare /\ Phase(p)
  BY DEF PhaseInv
<1>1. CASE Start(p)
  BY <1>0, <1>1, SpareLocal DEF Start, Goto, ProcSpare, Spared, remote, chunkdata
<1>2. ASSUME NEW m \in Manifest, m = manifest \/ m = NewManifest, pc[p] = "fetch",
             Fetched(p, m)
      PROVE  StoreSpare' /\ ProcSpare(p)'
  <2>1. m.chunks \subseteq minted /\ Active(m.files) \cap purged = {}
    BY <1>0, <1>2 DEF ProcSpare, StoreSpare, Spared, Stored, NewManifest, NoFiles, Active, Listed
  <2>2. /\ man'[p] = m /\ arc'[p] = arc[p] /\ queue'[p] = queue[p]
        /\ pc'[p] \in {"walk", "confirm", "select"}
    BY <1>2 DEF Fetched, Goto, AfterFetch
  <2>3. UNCHANGED <<minted, purged, manifest, late>>
    BY <1>2 DEF Fetched, remote, chunkdata
  <2> QED
    BY <1>0, <1>2, <2>1, <2>2, <2>3, SpareLocal DEF ProcSpare
<1>3. CASE Fetch(p) \/ FetchAbsent(p)
  BY <1>2, <1>3, InitialValues DEF Fetch, FetchAbsent
<1>4. CASE FetchFails(p)
  BY <1>4, SpareExit DEF FetchFails, remote, chunkdata
<1>5. CASE Walk(p)
  <2>1. PICK now, args : /\ arc' = [arc EXCEPT ![p].todo = Changed(man[p].files, now)]
                         /\ man' = [man EXCEPT ![p].files = Pruned(man[p].files, now, args)]
    BY <1>5 DEF Walk
  <2>2. /\ man'[p].chunks = man[p].chunks
        /\ man'[p].files = Pruned(man[p].files, now, args)
        /\ arc'[p].cur = arc[p].cur /\ arc'[p].chunks = arc[p].chunks
    BY <2>1 DEF Manifest, Archiver
  <2>3. Active(Pruned(man[p].files, now, args)) \subseteq Active(man[p].files)
    BY DEF Active, Listed, Pruned
  <2>4. arc[p].chunks = {}
    BY <1>0, <1>5 DEF Walk, Phase, NewArchiver
  <2>5. UNCHANGED <<minted, purged, manifest, late>> /\ pc'[p] = "archive" /\ queue' = queue
    BY <1>5 DEF Walk, Goto, remote, chunkdata
  <2> QED
    BY <1>0, <1>5, <2>2, <2>3, <2>4, <2>5, SpareLocal DEF ProcSpare, Spared, Walk
<1> QED
  BY <1>1, <1>3, <1>4, <1>5 DEF Download

LEMMA SpareArchive ==
    ASSUME SpareInv, NEW p, Alone(p), Archive(p)
    PROVE  StoreSpare' /\ ProcSpare(p)'
<1> USE DEF SpareInv, Alone, SafetyInv, TypeInv, TypeOK
<1>0. ProcSpare(p) /\ StoreSpare /\ arc[p] \in Archiver
  OBVIOUS
<1>1. ASSUME NEW c \in ChunkIds, c \in Fresh \/ c = arc[p].cur, pc[p] = "archive", pc' = pc,
             minted' = minted \cup {c}, UNCHANGED <<remote, purged, man, queue>>,
             arc'[p].cur = c, arc'[p].chunks = arc[p].chunks \cup {c}
      PROVE  StoreSpare' /\ ProcSpare(p)'
  <2>1. c \notin purged
    BY <1>0, <1>1, NoneAssumption DEF Fresh, StoreSpare, ProcSpare
  <2> QED
    BY <1>0, <1>1, <2>1, SpareLocal DEF ProcSpare, Spared, remote
<1>2. ASSUME NEW x \in Paths, AddFile(p, x) \/ AddFileShort(p, x)
      PROVE  StoreSpare' /\ ProcSpare(p)'
  <2>1. PICK c \in ChunkFor(p, x) :
          /\ minted' = minted \cup {c}
          /\ arc' = [arc EXCEPT ![p] = Recorded(arc[p], x, EntryFor(x, seen[p][x], c))]
    BY <1>2 DEF AddFile, AddFileShort
  <2>2. c \in ChunkIds /\ (c \in Fresh \/ c = arc[p].cur)
    BY <1>0, <2>1 DEF ChunkFor, Fresh, Archiver
  <2>3. arc'[p].cur = c /\ arc'[p].chunks = arc[p].chunks \cup {c}
    BY <1>0, <2>1 DEF Recorded, EntryFor, Archiver
  <2> QED
    BY <1>1, <1>2, <2>1, <2>2, <2>3 DEF AddFile, AddFileShort
<1>3. ASSUME NEW x \in Paths, AddFileFails(p, x)
      PROVE  StoreSpare' /\ ProcSpare(p)'
  <2>1. PICK c \in (IF arc[p].stuck THEN {arc[p].cur}
                    ELSE ChunkFor(p, x) \cup {arc[p].cur}), broken \in BOOLEAN :
          /\ minted' = minted \cup ({c} \ {None})
          /\ arc' = [arc EXCEPT ![p] = PassedOver(arc[p], x, c, broken)]
    BY <1>3 DEF AddFileFails
  <2>2. arc'[p].cur = c /\ arc'[p].chunks = arc[p].chunks \cup ({c} \ {None})
    BY <1>0, <2>1 DEF PassedOver, Archiver
  <2>3. CASE c = None
    BY <1>0, <1>3, <2>1, <2>2, <2>3, SpareLocal DEF AddFileFails, ProcSpare, Spared, remote
  <2>4. CASE c # None
    <3>1. c \in ChunkIds /\ (c \in Fresh \/ c = arc[p].cur)
      BY <1>0, <2>1, <2>4 DEF ChunkFor, Fresh, Archiver
    <3> QED
      BY <1>1, <1>3, <2>1, <2>2, <2>4, <3>1 DEF AddFileFails
  <2> QED
    BY <2>3, <2>4
<1>4. CASE ArchiveAborts(p)
  BY <1>4, SpareExit DEF ArchiveAborts, remote, chunkdata
<1>5. CASE Finalize(p)
  BY <1>0, <1>5, SpareLocal DEF Finalize, Goto, ProcSpare, Spared, remote, chunkdata
<1> QED
  BY <1>2, <1>3, <1>4, <1>5 DEF Archive

LEMMA SpareUpload ==
    ASSUME SpareInv, NEW p, Alone(p), Upload(p)
    PROVE  StoreSpare' /\ ProcSpare(p)'
<1> USE DEF SpareInv, Alone, SafetyInv, TypeInv, TypeOK
<1>0. ProcSpare(p) /\ StoreSpare /\ ProcGood(p) /\ man[p] \in Manifest
  OBVIOUS
<1>1. ASSUME NEW c \in ChunkIds, UploadChunk(p, c)
      PROVE  StoreSpare' /\ ProcSpare(p)'
  <2>1. /\ man'[p].files = man[p].files /\ man'[p].chunks = man[p].chunks \cup {c}
        /\ queue'[p] = queue[p] \ {c} /\ arc'[p] = arc[p]
    BY <1>0, <1>1 DEF UploadChunk, Listing, Manifest
  <2> QED
    BY <1>0, <1>1, <2>1, SpareLocal DEF UploadChunk, ProcSpare, Spared, chunkdata
<1>2. ASSUME NEW c \in ChunkIds, UploadFails(p, c)
      PROVE  StoreSpare' /\ ProcSpare(p)'
  <2>1. late' \subseteq late \cup {[op |-> "put", key |-> Key(p, c)]}
    BY <1>2 DEF UploadFails, MayLinger
  <2> QED
    BY <1>2, <2>1, SpareExit DEF UploadFails, chunkdata
<1>3. CASE Merge(p)
  <2>1. /\ man'[p].files = Merged(man[p].files, arc[p].files)
        /\ man'[p].chunks = man[p].chunks /\ queue'[p] = Orphans(man'[p])
        /\ arc'[p] = arc[p] /\ pc'[p] = "purge" /\ pc[p] = "upload"
    BY <1>0, <1>3 DEF Merge, Goto, Manifest
  <2>2. Active(man'[p].files) \subseteq Active(man[p].files) \cup Active(arc[p].files)
    BY <2>1 DEF Active, Listed, Merged
  <2>3. Active(man'[p].files) \cap purged = {}
    BY <1>0, <2>1, <2>2 DEF ProcSpare, Spared, ProcGood, ArcGood
  <2>4. man'[p].chunks \cup arc'[p].chunks \cup queue'[p] \subseteq minted
    BY <1>0, <2>1 DEF ProcSpare, Orphans
  <2> QED
    BY <1>0, <1>3, <2>1, <2>3, <2>4, SpareLocal DEF Merge, ProcSpare, remote, chunkdata
<1> QED
  BY <1>1, <1>2, <1>3 DEF Upload

LEMMA SpareDelete ==
    ASSUME SpareInv, NEW p, Alone(p), Delete(p)
    PROVE  StoreSpare' /\ ProcSpare(p)'
<1> USE DEF SpareInv, Alone, SafetyInv, TypeInv, TypeOK
<1>0. ProcSpare(p) /\ StoreSpare /\ man[p] \in Manifest
  OBVIOUS
<1>1. CASE Confirm(p)
  <2>1. PICK gone : man'[p].files = Without(man[p].files, gone)
    BY <1>0, <1>1 DEF Confirm, Manifest
  <2>2. /\ man'[p].chunks = man[p].chunks /\ queue'[p] = Orphans(man'[p])
        /\ arc'[p] = arc[p] /\ pc'[p] = "purge" /\ pc[p] = "confirm"
    BY <1>0, <1>1 DEF Confirm, Goto, Manifest
  <2>3. Active(man'[p].files) \subseteq Active(man[p].files)
    BY <2>1 DEF Active, Listed, Without
  <2>4. man'[p].chunks \cup arc'[p].chunks \cup queue'[p] \subseteq minted
    BY <1>0, <2>2 DEF ProcSpare, Orphans
  <2> QED
    BY <1>0, <1>1, <2>2, <2>3, <2>4, SpareLocal DEF Confirm, ProcSpare, Spared, remote, chunkdata
<1>2. CASE Decline(p)
  BY <1>2, SpareExit DEF Decline, remote, chunkdata
<1> QED
  BY <1>1, <1>2 DEF Delete

(* What a purge asks to delete is an orphan of its own copy. *)
LEMMA SparePurge ==
    ASSUME SpareInv, NEW p, Alone(p), NEW c \in ChunkIds, PurgeChunk(p, c) \/ PurgeFails(p, c)
    PROVE  StoreSpare' /\ ProcSpare(p)'
<1> USE DEF SpareInv, Alone, SafetyInv, TypeInv, TypeOK
<1>0. ProcSpare(p) /\ StoreSpare /\ QueueGood(p) /\ man[p] \in Manifest
  BY DEF ProcGood
<1>1. /\ pc[p] = "purge" /\ pc' = pc /\ c \in queue[p] /\ purged' = purged \cup {c}
      /\ queue'[p] = queue[p] \ {c} /\ arc' = arc
      /\ manifest' = manifest /\ minted' = minted
  BY DEF PurgeChunk, PurgeFails, chunkdata
<1>2. man'[p].files = man[p].files /\ man'[p].chunks \subseteq man[p].chunks
  BY <1>0 DEF PurgeChunk, PurgeFails, Unlisting, Manifest
<1>3. late' \subseteq late \cup {[op |-> "del", key |-> Key(p, c)]}
  BY DEF PurgeChunk, PurgeFails, MayLinger
<1>4. StoreSpare'
  BY <1>0, <1>1, <1>3 DEF StoreSpare, ProcSpare, Stored
<1>5. Spared(man[p].files)'
  BY <1>0, <1>1, <1>2 DEF ProcSpare, Spared, QueueGood
<1> QED
  BY <1>0, <1>1, <1>2, <1>4, <1>5 DEF ProcSpare

LEMMA SpareStore ==
    ASSUME Uncut, SpareInv, NEW p, Alone(p), Store(p)
    PROVE  StoreSpare' /\ ProcSpare(p)'
<1> USE DEF SpareInv, Alone, SafetyInv, TypeInv, TypeOK
<1>0. ProcSpare(p) /\ StoreSpare /\ Phase(p)
  BY DEF PhaseInv
<1>1. CASE Publish(p)
  BY <1>1, SpareExit DEF Publish, chunkdata
<1>2. CASE Truncate(p)
  <2>1. StoreSpare'
    BY <1>0, <1>2, SentinelsAssumption DEF Truncate, StoreSpare, Stored, chunkdata
  <2>2. ProcSpare(p)'
    BY <1>0, <1>2, SentinelsAssumption DEF Truncate, Goto, local, ProcSpare, Spared, Stored, chunkdata
  <2> QED
    BY <2>1, <2>2
<1>3. CASE Rewrite(p)
  <2>1. manifest' = man[p]
    BY <1>0, <1>3, SentinelsAssumption DEF Rewrite, Rewritten, Overtaken, Alone, ProcSpare
  <2> QED
    BY <1>3, <2>1, SpareExit DEF Rewrite, chunkdata
<1>4. ~PublishFails(p)
  BY DEF PublishFails, Uncut
<1>5. CASE DeleteManifest(p)
  <2>1. "delete" \notin Faults
    BY <1>0, <1>5, NoneAssumption DEF DeleteManifest, Uncut, Phase, CommandKinds
  <2> QED
    BY <1>5, <2>1, SpareExit DEF DeleteManifest, chunkdata
<1> QED
  BY <1>1, <1>2, <1>3, <1>4, <1>5 DEF Store

LEMMA SpareRestore ==
    ASSUME SpareInv, NEW p, Alone(p), Restore(p)
    PROVE  StoreSpare' /\ ProcSpare(p)'
<1> USE DEF SpareInv, Alone, SafetyInv, TypeInv, TypeOK
<1>0. ProcSpare(p) /\ StoreSpare /\ ProcGood(p)
  OBVIOUS
<1>1. CASE NothingToRestore(p) \/ RestoreDone(p)
  BY <1>1, SpareExit DEF NothingToRestore, RestoreDone, remote, chunkdata
<1>2. CASE Select(p)
  <2>1. queue'[p] \subseteq Active(man[p].files)
    BY <1>2 DEF Select, Wanted, Selected, Active, Listed
  <2>2. queue'[p] \subseteq minted
    BY <1>0, <2>1 DEF ProcGood, Good, ProcSpare
  <2> QED
    BY <1>0, <1>2, <2>2, SpareLocal DEF Select, Goto, ProcSpare, Spared, remote, chunkdata
<1>3. ASSUME NEW c \in ChunkIds, pc[p] = "restore", pc' = pc,
             queue' = [queue EXCEPT ![p] = @ \ {c}],
             UNCHANGED <<remote, chunkdata, purged, man, arc>>
      PROVE  StoreSpare' /\ ProcSpare(p)'
  BY <1>0, <1>3, SpareLocal DEF ProcSpare, Spared, remote, chunkdata
<1> QED
  BY <1>1, <1>2, <1>3
     DEF Restore, RestoreChunk, RestoreChunkPartly, RestoreChunkFails, Restored

LEMMA SpareStep ==
    ASSUME Uncut, NEW p, Alone(p), SpareInv, [Next]_vars
    PROVE  SpareInv'
<1> SUFFICES StoreSpare' /\ ProcSpare(p)'
  BY PhaseStep, SafetyStep DEF SpareInv, Alone
<1> USE DEF SpareInv, Alone, SafetyInv, TypeInv, TypeOK
<1>0. ProcSpare(p) /\ StoreSpare
  OBVIOUS
<1>1. ASSUME UNCHANGED <<manifest, minted, purged, pc, man, arc, queue>>, late' \subseteq late
      PROVE  StoreSpare' /\ ProcSpare(p)'
  BY <1>0, <1>1 DEF StoreSpare, ProcSpare, Spared, Stored
<1>2. CASE UNCHANGED vars \/ \E x \in Paths : Edit(x)
  BY <1>1, <1>2 DEF vars, Edit, remote, chunkdata, local
<1>3. ASSUME NEW call \in late, LateCall(call) \/ LateCallLost(call)
      PROVE  StoreSpare' /\ ProcSpare(p)'
  <2>1. call \in LateCalls /\ call.op # "manifest"
    BY <1>0 DEF StoreSpare
  <2>2. manifest' = manifest
    BY <1>3, <2>1 DEF LateCall, LateCallLost, LateCalls
  <2> QED
    BY <1>1, <1>3, <2>2 DEF LateCall, LateCallLost, chunkdata, local
<1>4. ~Crash(p)
  BY DEF Crash, Uncut
<1>5. ASSUME NEW c \in ChunkIds, PurgeChunk(p, c) \/ PurgeFails(p, c)
      PROVE  StoreSpare' /\ ProcSpare(p)'
  BY <1>5, SparePurge
<1>6. CASE Start(p) \/ Run(p)
  BY <1>5, <1>6, SpareBegin, SpareArchive, SpareUpload, SpareDelete, SpareStore, SpareRestore
     DEF Run, Purge
<1> QED
  BY <1>2, <1>3, <1>4, <1>6 DEF Next

LEMMA SpareInit == Init => SpareInv
<1>1. ASSUME Init, NEW p \in Procs
      PROVE  ProcSpare(p)
  BY <1>1, SentinelsAssumption
     DEF Init, ProcSpare, Spared, Active, Listed, NewManifest, NoFiles, NewArchiver, Stored
<1> QED
  BY <1>1, PhaseInit, SafetyInit, SentinelsAssumption DEF Init, SpareInv, StoreSpare, Stored

(***************************************************************************)
(* While commands run one at a time and none is cut short, every file the  *)
(* stored manifest lists can be fetched: whatever else fails, however late *)
(* deletions land, and with stores that truncate the manifest first.       *)
(***************************************************************************)
THEOREM AlwaysRestorable ==
    ASSUME Uncut, NEW one, Alone(one)
    PROVE  Spec => []Restorable
<1>1. SpareInv => Restorable
  <2> SUFFICES ASSUME SpareInv, Quiet, Stored, NEW x \in Listed(manifest.files)
               PROVE  \E q \in Prefixes : <<q, manifest.files[x].chunk>> \in objects
    BY DEF Restorable
  <2> DEFINE c == manifest.files[x].chunk
  <2>1. c \in Active(manifest.files)
    BY DEF Active
  <2>2. c \notin purged
    BY <2>1 DEF SpareInv, ProcSpare, Spared, Alone, Quiet
  <2>3. Sent(c)
    BY <2>1 DEF SpareInv, SafetyInv, StoreGood, Good
  <2> QED
    BY <2>2, <2>3 DEF Sent
<1>2. SpareInv /\ [Next]_vars => SpareInv'
  BY SpareStep
<1> QED
  BY <1>1, <1>2, SpareInit, PTL DEF Spec

-----------------------------------------------------------------------------
(***************************************************************************)
(* A restore alone at work.  Every wanted file is written, or its chunk is *)
(* still to come; and no fetch fails, because the chunk is there under the *)
(* only prefix there is.                                                   *)
(***************************************************************************)
Whole(p) ==
    pc[p] = "restore" =>
        \A x \in Wanted(p) : \/ man[p].files[x].chunk \in queue[p]
                             \/ out[p][x] = StoredVersion(man[p].files, x)

CompleteInv == SpareInv /\ RestoreInv /\ \A p \in Procs : Whole(p)

LEMMA WholeStep ==
    ASSUME Faults \cap {"download", "extract"} = {}, Prefixes = {NoPrefix},
           NEW p, Alone(p), CompleteInv, [Next]_vars
    PROVE  Whole(p)'
<1> USE DEF CompleteInv, RestoreInv, TypeInv, TypeOK, Alone
<1>0. Whole(p) /\ OutGood(p) /\ ProcSpare(p) /\ ProcGood(p)
  BY DEF SpareInv, SafetyInv
<1>1. CASE UNCHANGED <<content, pc, job, man, queue, out>>
  BY <1>0, <1>1 DEF Whole, Wanted, StoredVersion
<1>2. CASE pc'[p] # "restore"
  BY <1>2 DEF Whole
<1>3. CASE Select(p)
  BY <1>3 DEF Select, Whole, Wanted
<1>4. ASSUME NEW c \in ChunkIds, RestoreChunk(p, c)
      PROVE  Whole(p)'
  <2>1. /\ queue'[p] = queue[p] \ {c} /\ UNCHANGED <<content, job, man>>
        /\ \A x \in Paths : out'[p][x] = IF x \in Found(p, c) THEN content[c][x] ELSE out[p][x]
    BY <1>4 DEF RestoreChunk, Restored, chunkdata
  <2> SUFFICES ASSUME NEW x \in Wanted(p), man[p].files[x].chunk \notin queue'[p]
               PROVE  out'[p][x] = StoredVersion(man[p].files, x)
    BY <2>1 DEF Whole, Wanted, StoredVersion
  <2>2. x \in Paths /\ man[p].files[x] # None
    BY DEF Wanted, Selected, Listed
  <2>3. CASE man[p].files[x].chunk = c
    <3>1. CASE content[c][x] # None
      BY <2>1, <2>2, <2>3, <3>1 DEF Found, Extracted, StoredVersion
    <3>2. CASE content[c][x] = None
      BY <1>0, <2>1, <2>2, <2>3, <3>2 DEF Found, OutGood, StoredVersion
    <3> QED
      BY <3>1, <3>2
  <2>4. CASE man[p].files[x].chunk # c
    BY <1>0, <1>4, <2>1, <2>2, <2>4 DEF RestoreChunk, Whole, Found, Extracted
  <2> QED
    BY <2>3, <2>4
<1>5. ASSUME NEW c \in ChunkIds, RestoreChunkFails(p, c)
      PROVE  Whole(p)'
  <2>1. Key(p, c) \notin objects
    BY <1>5 DEF RestoreChunkFails
  <2>2. c \notin Active(man[p].files)
    <3> SUFFICES ASSUME c \in Active(man[p].files)
                 PROVE  FALSE
      OBVIOUS
    <3>1. Sent(c) /\ c \notin purged
      BY <1>0 DEF ProcGood, Good, ProcSpare, Spared
    <3>2. <<NoPrefix, c>> \in objects /\ job[p].prefix = NoPrefix
      BY <3>1 DEF Sent, Jobs
    <3> QED
      BY <2>1, <3>2 DEF Key
  <2>3. \A x \in Wanted(p) : man[p].files[x].chunk \in Active(man[p].files)
    BY DEF Wanted, Selected, Active, Listed
  <2> QED
    BY <1>0, <1>5, <2>2, <2>3
       DEF RestoreChunkFails, Whole, Wanted, StoredVersion, chunkdata
<1>6. ASSUME NEW c \in ChunkIds
      PROVE  ~RestoreChunkPartly(p, c)
  BY DEF RestoreChunkPartly
<1>7. CASE Start(p) \/ Download(p) \/ Walk(p) \/ Crash(p)
  BY <1>2, <1>7
     DEF Start, Download, Fetch, FetchAbsent, FetchFails, Fetched, AfterFetch, Walk, Crash,
         Exit, Goto
<1>8. CASE Archive(p)
  BY <1>2, <1>8
     DEF Archive, AddFile, AddFileShort, AddFileFails, ArchiveAborts, Finalize, Exit, Goto
<1>9. CASE Upload(p) \/ Delete(p) \/ Purge(p)
  BY <1>2, <1>9
     DEF Upload, UploadChunk, UploadFails, Merge, Delete, Confirm, Decline, Purge,
         PurgeChunk, PurgeFails, Exit, Goto
<1>10. CASE Store(p)
  BY <1>2, <1>10
     DEF Store, Publish, Truncate, Rewrite, PublishFails, DeleteManifest, Purged, Exit, Goto
<1>11. CASE NothingToRestore(p) \/ RestoreDone(p)
  BY <1>2, <1>11 DEF NothingToRestore, RestoreDone, Exit
<1> QED
  BY <1>1, <1>3, <1>4, <1>5, <1>6, <1>7, <1>8, <1>9, <1>10, <1>11
     DEF Next, Run, Restore, Edit, LateCall, LateCallLost, vars, chunkdata, local

(***************************************************************************)
(* A restore that reaches its end has written every file it was asked for, *)
(* as the store had it, if every fetch that can succeed does.              *)
(***************************************************************************)
THEOREM RestoreAlwaysComplete ==
    ASSUME Uncut, NEW one, Alone(one),
           Faults \cap {"download", "extract"} = {}, Prefixes = {NoPrefix}
    PROVE  Spec => RestoreComplete
<1>1. Init => CompleteInv
  BY SpareInit, RestoreInit DEF CompleteInv, Init, Whole
<1>2. CompleteInv /\ [Next]_vars => CompleteInv'
  BY SpareStep, RestoreStep, WholeStep DEF CompleteInv, Alone
<1>3. CompleteInv => [\A p \in Procs : RestoreDone(p) =>
                       \A x \in Wanted(p) : out[p][x] = StoredVersion(man[p].files, x)]_vars
  BY DEF CompleteInv, Whole, RestoreDone
<1> QED
  BY <1>1, <1>2, <1>3, PTL DEF Spec, RestoreComplete

-----------------------------------------------------------------------------
(***************************************************************************)
(* Objects nobody lists.  An upload that fails half-way leaves one, so     *)
(* does a manifest taken for absent; a deletion under another prefix than  *)
(* the upload removes nothing, and is noticed only where deleting an       *)
(* absent object fails; delete --all then forgets the object all the same. *)
(***************************************************************************)
Accounted ==
    /\ Uncut
    /\ Faults \cap {"upload", "misread"} = {}
    /\ Prefixes = {NoPrefix} \/ (~IdempotentDelete /\ "deleteAll" \notin Commands)

(* A chunk is stored under one key, and only deletions outlive their caller. *)
StoreListed ==
    /\ \A k \in objects : k[2] \in minted
    /\ \A k, l \in objects : k[2] = l[2] => k = l
    /\ \A call \in late : call.op = "del"

(* Every object is in the stored manifest, or in the copy that follows it.  *)
ProcListed(p) ==
    /\ pc[p] \notin {"upload", "purge", "writing"} =>
          \A k \in objects : Stored /\ k[2] \in manifest.chunks
    /\ pc[p] \notin {"idle", "fetch"} => \A k \in objects : k[2] \in man[p].chunks
    /\ pc[p] = "archive" => \A k \in objects : k[2] \notin arc[p].chunks
    /\ pc[p] = "upload" => \A k \in objects : k[2] \notin queue[p]
    /\ pc[p] = "purge" /\ job[p].cmd = "deleteAll" => \A k \in objects : k[2] \in queue[p]

ListedInv == SpareInv /\ StoreListed /\ \A p \in Procs : ProcListed(p)

(* Ending after storing the copy, or outside the upload and the purge. *)
LEMMA ListedExit ==
    ASSUME ListedInv, NEW p, Alone(p), Exit(p), UNCHANGED <<minted, objects, late>>,
           \/ manifest' = manifest /\ pc[p] \notin {"upload", "purge", "writing"}
           \/ manifest' = man[p] /\ pc[p] \notin {"idle", "fetch"}
           \/ objects = {}
    PROVE  StoreListed' /\ ProcListed(p)'
<1> USE DEF ListedInv, SpareInv, Alone, SafetyInv, TypeInv, TypeOK
<1>1. pc'[p] = "idle"
  BY DEF Exit
<1>2. StoreListed'
  BY DEF StoreListed
<1>3. ProcListed(p)'
  BY <1>1 DEF ProcListed, Stored
<1> QED
  BY <1>2, <1>3

LEMMA ListedArchive ==
    ASSUME ListedInv, NEW p, Alone(p), Archive(p)
    PROVE  StoreListed' /\ ProcListed(p)'
<1> USE DEF ListedInv, SpareInv, Alone, SafetyInv, TypeInv, TypeOK
<1>0. ProcListed(p) /\ StoreListed /\ ProcSpare(p) /\ arc[p] \in Archiver
  OBVIOUS
<1>1. ASSUME NEW c, c \in Fresh \/ c = arc[p].cur, pc[p] = "archive", pc' = pc,
             minted \subseteq minted', UNCHANGED <<remote, man>>,
             arc'[p].chunks = arc[p].chunks \cup ({c} \ {None})
      PROVE  StoreListed' /\ ProcListed(p)'
  <2>1. \A k \in objects : k[2] # c \/ c = None
    BY <1>0, <1>1 DEF Fresh, StoreListed, ProcListed, ProcSpare
  <2>2. ProcListed(p)'
    BY <1>0, <1>1, <2>1 DEF ProcListed, Stored, remote
  <2>3. StoreListed'
    BY <1>0, <1>1 DEF StoreListed, remote
  <2> QED
    BY <2>2, <2>3
<1>2. ASSUME NEW x \in Paths, AddFile(p, x) \/ AddFileShort(p, x)
      PROVE  StoreListed' /\ ProcListed(p)'
  <2>1. PICK c \in ChunkFor(p, x) :
          arc' = [arc EXCEPT ![p] = Recorded(arc[p], x, EntryFor(x, seen[p][x], c))]
    BY <1>2 DEF AddFile, AddFileShort
  <2>2. c # None /\ (c \in Fresh \/ c = arc[p].cur)
    BY <1>0, <2>1, NoneAssumption DEF ChunkFor, Fresh, Archiver
  <2>3. arc'[p].chunks = arc[p].chunks \cup {c}
    BY <1>0, <2>1 DEF Recorded, EntryFor, Archiver
  <2> QED
    BY <1>1, <1>2, <2>2, <2>3 DEF AddFile, AddFileShort
<1>3. ASSUME NEW x \in Paths, AddFileFails(p, x)
      PROVE  StoreListed' /\ ProcListed(p)'
  <2>1. PICK c \in (IF arc[p].stuck THEN {arc[p].cur}
                    ELSE ChunkFor(p, x) \cup {arc[p].cur}), broken \in BOOLEAN :
          arc' = [arc EXCEPT ![p] = PassedOver(arc[p], x, c, broken)]
    BY <1>3 DEF AddFileFails
  <2>2. arc'[p].chunks = arc[p].chunks \cup ({c} \ {None})
    BY <1>0, <2>1 DEF PassedOver, Archiver
  <2>3. c \in Fresh \/ c = arc[p].cur
    BY <2>1 DEF ChunkFor
  <2> QED
    BY <1>1, <1>3, <2>2, <2>3 DEF AddFileFails
<1>4. CASE ArchiveAborts(p)
  BY <1>4, ListedExit DEF ArchiveAborts, remote, chunkdata
<1>5. CASE Finalize(p)
  <2>1. queue'[p] = arc[p].chunks /\ pc'[p] = "upload" /\ UNCHANGED <<remote, minted, man>>
    BY <1>5 DEF Finalize, Goto, chunkdata
  <2> QED
    BY <1>0, <1>5, <2>1 DEF Finalize, StoreListed, ProcListed, remote
<1> QED
  BY <1>2, <1>3, <1>4, <1>5 DEF Archive

LEMMA ListedUpload ==
    ASSUME Accounted, ListedInv, NEW p, Alone(p), Upload(p)
    PROVE  StoreListed' /\ ProcListed(p)'
<1> USE DEF ListedInv, SpareInv, PhaseInv, Alone, SafetyInv, TypeInv, TypeOK
<1>0. ProcListed(p) /\ StoreListed /\ ProcSpare(p) /\ Phase(p) /\ man[p] \in Manifest
  OBVIOUS
<1>1. ASSUME NEW c \in ChunkIds, UploadChunk(p, c)
      PROVE  StoreListed' /\ ProcListed(p)'
  <2>1. /\ man'[p].chunks = man[p].chunks \cup {c}
        /\ queue'[p] = queue[p] \ {c} /\ c \in queue[p] /\ pc[p] = "upload" /\ pc' = pc
        /\ objects' = objects \cup {Key(p, c)} /\ Key(p, c)[2] = c
        /\ UNCHANGED <<minted, late>>
    BY <1>0, <1>1 DEF UploadChunk, Listing, Manifest, Key, chunkdata
  <2>2. StoreListed'
    BY <1>0, <2>1 DEF StoreListed, ProcListed, ProcSpare
  <2>3. ProcListed(p)'
    BY <1>0, <2>1 DEF ProcListed
  <2> QED
    BY <2>2, <2>3
<1>2. ASSUME NEW c \in ChunkIds
      PROVE  ~UploadFails(p, c)
  BY DEF UploadFails, Accounted
<1>3. CASE Merge(p)
  <2>1. /\ man'[p].chunks = man[p].chunks /\ pc'[p] = "purge" /\ pc[p] = "upload"
        /\ UNCHANGED <<remote, minted, job>>
    BY <1>0, <1>3 DEF Merge, Goto, Manifest, chunkdata
  <2> QED
    BY <1>0, <2>1 DEF Phase, StoreListed, ProcListed, remote
<1> QED
  BY <1>1, <1>2, <1>3 DEF Upload

LEMMA ListedDelete ==
    ASSUME ListedInv, NEW p, Alone(p), Delete(p)
    PROVE  StoreListed' /\ ProcListed(p)'
<1> USE DEF ListedInv, SpareInv, Alone, SafetyInv, TypeInv, TypeOK
<1>0. ProcListed(p) /\ StoreListed /\ man[p] \in Manifest
  OBVIOUS
<1>1. CASE Confirm(p)
  <2>1. /\ man'[p].chunks = man[p].chunks /\ pc'[p] = "purge" /\ pc[p] = "confirm"
        /\ queue'[p] = Orphans(man'[p]) /\ UNCHANGED <<remote, minted, job>>
        /\ man'[p].files = Without(man[p].files, Selected(man[p].files, job[p]))
    BY <1>0, <1>1 DEF Confirm, Goto, Manifest, chunkdata
  <2>2. job[p].cmd = "deleteAll" => queue'[p] = man[p].chunks
    BY <2>1 DEF Orphans, Active, Listed, Without, Selected
  <2> QED
    BY <1>0, <2>1, <2>2 DEF StoreListed, ProcListed, remote
<1>2. CASE Decline(p)
  BY <1>2, ListedExit DEF Decline, remote, chunkdata
<1> QED
  BY <1>1, <1>2 DEF Delete

(* A deletion that succeeds removes the only object of its chunk. *)
LEMMA ListedPurge ==
    ASSUME Accounted, ListedInv, NEW p, Alone(p), NEW c \in ChunkIds,
           PurgeChunk(p, c) \/ PurgeFails(p, c)
    PROVE  StoreListed' /\ ProcListed(p)'
<1> USE DEF ListedInv, SpareInv, PhaseInv, Alone, SafetyInv, TypeInv, TypeOK
<1>0. ProcListed(p) /\ StoreListed /\ Phase(p) /\ man[p] \in Manifest
  OBVIOUS
<1>1. /\ pc[p] = "purge" /\ pc' = pc /\ queue'[p] = queue[p] \ {c}
      /\ UNCHANGED <<minted, job>>
  BY DEF PurgeChunk, PurgeFails, chunkdata
<1>2. Prefixes = {NoPrefix} => \A k \in objects : k[2] = c => k = Key(p, c)
  BY DEF Keys, Key, Jobs
<1>3. CASE PurgeChunk(p, c)
  <2>1. /\ objects' = objects \ {Key(p, c)} /\ late' = late
        /\ man'[p].chunks = man[p].chunks \ {c}
    BY <1>0, <1>3 DEF PurgeChunk, Unlisting, Manifest
  <2>2. \A k \in objects : k[2] = c => k = Key(p, c)
    <3>1. CASE Key(p, c) \in objects
      BY <1>0, <3>1 DEF StoreListed, Key
    <3>2. CASE Prefixes = {NoPrefix}
      BY <1>2, <3>2
    <3> QED
      BY <1>3, <3>1, <3>2 DEF PurgeChunk, Accounted
  <2>3. StoreListed'
    BY <1>0, <1>1, <2>1 DEF StoreListed
  <2>4. ProcListed(p)'
    BY <1>0, <1>1, <2>1, <2>2 DEF ProcListed
  <2> QED
    BY <2>3, <2>4
<1>4. CASE PurgeFails(p, c)
  <2>1. /\ objects' = objects /\ man'[p] = man[p]
        /\ late' \subseteq late \cup {[op |-> "del", key |-> Key(p, c)]}
    BY <1>4 DEF PurgeFails, Unlisting, MayLinger
  <2>2. StoreListed'
    BY <1>0, <1>1, <2>1 DEF StoreListed
  <2>3. job[p].cmd = "deleteAll" => \A k \in objects : k[2] # c
    <3> SUFFICES ASSUME job[p].cmd = "deleteAll"
                 PROVE  \A k \in objects : k[2] # c
      OBVIOUS
    <3>1. "delete" \notin Faults /\ Prefixes = {NoPrefix}
      BY <1>0, NoneAssumption DEF Phase, Accounted, Uncut, CommandKinds
    <3>2. Key(p, c) \notin objects
      BY <1>4, <3>1 DEF PurgeFails
    <3> QED
      BY <1>2, <3>1, <3>2
  <2>4. ProcListed(p)'
    BY <1>0, <1>1, <2>1, <2>3 DEF ProcListed
  <2> QED
    BY <2>2, <2>4
<1> QED
  BY <1>3, <1>4

LEMMA ListedStore ==
    ASSUME Accounted, ListedInv, NEW p, Alone(p), Store(p)
    PROVE  StoreListed' /\ ProcListed(p)'
<1> USE DEF ListedInv, SpareInv, PhaseInv, Alone, SafetyInv, TypeInv, TypeOK
<1>0. ProcListed(p) /\ StoreListed /\ ProcSpare(p) /\ Phase(p)
  OBVIOUS
<1>1. CASE Publish(p)
  BY <1>1, ListedExit DEF Publish, Purged, chunkdata
<1>2. CASE Truncate(p)
  <2>1. pc'[p] = "writing" /\ UNCHANGED <<objects, late, minted, man>> /\ pc[p] = "purge"
    BY <1>2 DEF Truncate, Purged, Goto, chunkdata, local
  <2> QED
    BY <1>0, <2>1 DEF StoreListed, ProcListed
<1>3. CASE Rewrite(p)
  <2>1. manifest' = man[p]
    BY <1>0, <1>3, SentinelsAssumption DEF Rewrite, Rewritten, Overtaken, Alone, ProcSpare
  <2> QED
    BY <1>3, <2>1, ListedExit DEF Rewrite, chunkdata
<1>4. ~PublishFails(p)
  BY DEF PublishFails, Accounted, Uncut
<1>5. CASE DeleteManifest(p)
  <2>1. "delete" \notin Faults /\ objects = {}
    BY <1>0, <1>5, NoneAssumption
       DEF DeleteManifest, Purged, Accounted, Uncut, Phase, CommandKinds, ProcListed
  <2> QED
    BY <1>5, <2>1, ListedExit DEF DeleteManifest, chunkdata
<1> QED
  BY <1>1, <1>2, <1>3, <1>4, <1>5 DEF Store

LEMMA ListedStep ==
    ASSUME Accounted, NEW p, Alone(p), ListedInv, [Next]_vars
    PROVE  ListedInv'
<1> SUFFICES StoreListed' /\ ProcListed(p)'
  BY SpareStep DEF ListedInv, Alone, Accounted
<1> USE DEF ListedInv, SpareInv, Alone, SafetyInv, TypeInv, TypeOK
<1>0. ProcListed(p) /\ StoreListed
  OBVIOUS
<1>1. ASSUME objects' \subseteq objects, late' \subseteq late,
             UNCHANGED <<manifest, minted, pc, job, man, arc, queue>>
      PROVE  StoreListed' /\ ProcListed(p)'
  BY <1>0, <1>1 DEF StoreListed, ProcListed, Stored
<1>2. CASE UNCHANGED vars \/ \E x \in Paths : Edit(x)
  BY <1>1, <1>2 DEF vars, Edit, remote, chunkdata, local
<1>3. ASSUME NEW call \in late, LateCall(call) \/ LateCallLost(call)
      PROVE  StoreListed' /\ ProcListed(p)'
  <2>1. call.op = "del"
    BY <1>0 DEF StoreListed
  <2> QED
    BY <1>1, <1>3, <2>1 DEF LateCall, LateCallLost, chunkdata, local
<1>4. CASE Start(p)
  BY <1>0, <1>4 DEF Start, Goto, StoreListed, ProcListed, Stored, remote, chunkdata
<1>5. CASE Fetch(p)
  BY <1>0, <1>5
     DEF Fetch, Fetched, AfterFetch, Goto, StoreListed, ProcListed, Stored, remote, chunkdata
<1>6. CASE FetchAbsent(p)
  <2>1. manifest = None
    BY <1>6 DEF FetchAbsent, Accounted
  <2>2. objects = {}
    BY <1>0, <1>6, <2>1, SentinelsAssumption DEF FetchAbsent, ProcListed, Stored
  <2> QED
    BY <1>0, <1>6, <2>2 DEF FetchAbsent, Fetched, StoreListed, ProcListed, remote
<1>7. CASE FetchFails(p)
  BY <1>7, ListedExit DEF FetchFails, remote, chunkdata
<1>8. CASE Walk(p)
  <2>1. arc[p].chunks = {}
    BY <1>8 DEF Walk, PhaseInv, Phase, NewArchiver
  <2>2. arc'[p].chunks = arc[p].chunks /\ man'[p].chunks = man[p].chunks
    BY <1>8 DEF Walk, Archiver, Manifest
  <2>3. UNCHANGED <<objects, manifest, late, minted>> /\ pc[p] = "walk" /\ pc'[p] = "archive"
    BY <1>8 DEF Walk, Goto, remote, chunkdata
  <2> QED
    BY <1>0, <2>1, <2>2, <2>3 DEF StoreListed, ProcListed, Stored
<1>9. CASE NothingToRestore(p) \/ RestoreDone(p)
  BY <1>9, ListedExit DEF NothingToRestore, RestoreDone, remote, chunkdata
<1>10. CASE Select(p)
  BY <1>0, <1>10 DEF Select, Goto, StoreListed, ProcListed, Stored, remote, chunkdata
<1>11. ASSUME NEW c \in ChunkIds,
              RestoreChunk(p, c) \/ RestoreChunkPartly(p, c) \/ RestoreChunkFails(p, c)
       PROVE  StoreListed' /\ ProcListed(p)'
  BY <1>0, <1>11 DEF RestoreChunk, RestoreChunkPartly, RestoreChunkFails, Restored,
                     StoreListed, ProcListed, Stored, remote, chunkdata
<1>12. ASSUME NEW c \in ChunkIds, PurgeChunk(p, c) \/ PurgeFails(p, c)
       PROVE  StoreListed' /\ ProcListed(p)'
  BY <1>12, ListedPurge
<1>13. CASE Archive(p) \/ Upload(p) \/ Delete(p) \/ Store(p)
  BY <1>13, ListedArchive, ListedUpload, ListedDelete, ListedStore
<1>14. ~Crash(p)
  BY DEF Crash, Accounted, Uncut
<1> QED
  BY <1>2, <1>3, <1>4, <1>5, <1>6, <1>7, <1>8, <1>9, <1>10, <1>11, <1>12, <1>13, <1>14
     DEF Next, Run, Download, Purge, Restore

(***************************************************************************)
(* While commands run one at a time, none is cut short and no upload       *)
(* fails, every object is listed by the stored manifest, for every purge   *)
(* to come; with several prefixes too, where deleting what is not there    *)
(* fails and delete --all is not used.                                     *)
(***************************************************************************)
THEOREM NothingEverLeaked ==
    ASSUME Accounted, NEW one, Alone(one)
    PROVE  Spec => []NothingLeaked
<1>1. Init => ListedInv
  BY SpareInit DEF ListedInv, Init, StoreListed, ProcListed
<1>2. ListedInv /\ [Next]_vars => ListedInv'
  BY ListedStep
<1>3. ListedInv => NothingLeaked
  BY DEF ListedInv, ProcListed, NothingLeaked, Quiet, Alone
<1> QED
  BY <1>1, <1>2, <1>3, PTL DEF Spec

-----------------------------------------------------------------------------
(***************************************************************************)
(* A backup tells versions apart by size and time, so it can find what     *)
(* changed only if they differ there.  The entry of a link says size 0,    *)
(* that of a file which changes meanwhile is not that of the bytes stored. *)
(***************************************************************************)
Distinct ==
    /\ \A v, w \in Versions : Size[v] = Size[w] /\ MTime[v] = MTime[w] => v = w
    /\ Links = {}
    /\ Faults \cap {"shrink", "edit"} = {}

(* No step changes a member that is there. *)
LEMMA StepFrozen ==
    ASSUME RestoreInv, [Next]_vars
    PROVE  Frozen
<1> USE DEF RestoreInv, TypeInv, TypeOK
<1>1. CASE content' = content
  BY <1>1 DEF Frozen
<1>2. ASSUME NEW p \in Procs, NEW x \in Paths, AddFile(p, x)
      PROVE  Frozen
  <2>1. PICK c \in ChunkFor(p, x) : content' = [content EXCEPT ![c][x] = disk[x]]
    BY <1>2 DEF AddFile
  <2>2. x \in arc[p].todo
    BY <1>2 DEF AddFile
  <2>3. content[c][x] = None
    <3>1. CASE c \in Fresh
      BY <3>1 DEF Fresh, FreshEmpty, NoFiles
    <3>2. CASE c = arc[p].cur /\ c # None
      BY <2>2, <3>2 DEF CurOwned
    <3> QED
      BY <2>1, <3>1, <3>2 DEF ChunkFor
  <2>4. c \in ChunkIds
    BY <2>1 DEF ChunkFor, Fresh, Archiver
  <2> QED
    BY <2>1, <2>3, <2>4 DEF Frozen, FileMap
<1>3. ASSUME NEW p \in Procs, Archive(p)
      PROVE  Frozen
  <2>1. CASE ~\E x \in Paths : AddFile(p, x)
    BY <1>1, <1>3, <2>1
       DEF Archive, AddFileShort, AddFileFails, ArchiveAborts, Finalize, chunkdata
  <2> QED
    BY <1>2, <2>1
<1>4. ASSUME NEW p \in Procs, Start(p) \/ Download(p) \/ Walk(p) \/ Crash(p)
      PROVE  Frozen
  BY <1>1, <1>4
     DEF Start, Download, Fetch, FetchAbsent, FetchFails, Fetched, Walk, Crash, chunkdata
<1>5. ASSUME NEW p \in Procs, Upload(p) \/ Delete(p) \/ Purge(p)
      PROVE  Frozen
  BY <1>1, <1>5
     DEF Upload, UploadChunk, UploadFails, Merge, Delete, Confirm, Decline, Purge,
         PurgeChunk, PurgeFails, chunkdata
<1>6. ASSUME NEW p \in Procs, Store(p) \/ Restore(p)
      PROVE  Frozen
  BY <1>1, <1>6
     DEF Store, Publish, Truncate, Rewrite, PublishFails, DeleteManifest, Restore, Select,
         NothingToRestore, RestoreChunk, RestoreChunkPartly, RestoreChunkFails, Restored,
         RestoreDone, chunkdata
<1> QED
  BY <1>1, <1>3, <1>4, <1>5, <1>6
     DEF Next, Run, Edit, LateCall, LateCallLost, vars, chunkdata

-----------------------------------------------------------------------------
(* Entry e is that of version v. *)
Matches(e, v) == v \in Versions /\ e.size = Size[v] /\ e.mtime = MTime[v]

(* The entries say of each file what its chunk holds of it. *)
Accurate(f) == \A x \in Listed(f) : Matches(f[x], content[f[x].chunk][x])

LateAccurate ==
    \A call \in late : call.op = "manifest" /\ call.value # None => Accurate(call.value.files)

ProcAccurate(p) ==
    /\ Accurate(man[p].files)
    /\ Accurate(arc[p].files)
    /\ \A x \in arc[p].todo : seen[p][x] = disk[x]

AllAccurate ==
    /\ Stored => Accurate(manifest.files)
    /\ LateAccurate
    /\ \A p \in Procs : ProcAccurate(p)

AccurateInv == RestoreInv /\ PhaseInv /\ AllAccurate

LEMMA AccurateKept ==
    ASSUME NEW f \in Files, Accurate(f), Frozen
    PROVE  /\ Accurate(f)'
           /\ \A x \in Paths : StoredVersion(f, x)' = StoredVersion(f, x)
<1>1. \A x \in Listed(f) : content'[f[x].chunk][x] = content[f[x].chunk][x]
  BY NoneAssumption DEF Accurate, Matches, Frozen, Listed, Files, Entry
<1> QED
  BY <1>1 DEF Accurate, Listed, StoredVersion

(* Fewer entries, or entries of two maps, are as accurate. *)
LEMMA AccurateParts ==
    ASSUME NEW f, NEW g, NEW h, Accurate(f), Accurate(g),
           \A x \in Listed(h) : \/ x \in Listed(f) /\ h[x] = f[x]
                                \/ x \in Listed(g) /\ h[x] = g[x]
    PROVE  Accurate(h)
  BY DEF Accurate

(* A process that leaves its copy, its archiver and its walk alone. *)
LEMMA OtherAccurate ==
    ASSUME AccurateInv, Frozen, NEW q \in Procs,
           man'[q] = man[q], arc'[q] = arc[q], seen'[q] = seen[q],
           \A x \in arc[q].todo : disk'[x] = disk[x]
    PROVE  ProcAccurate(q)'
<1>1. man[q].files \in Files /\ arc[q].files \in Files /\ ProcAccurate(q)
  BY DEF AccurateInv, AllAccurate, RestoreInv, TypeInv, TypeOK, Manifest, Archiver
<1>2. PICK f \in Files, g \in Files : f = man[q].files /\ g = arc[q].files
  BY <1>1
<1>3. Accurate(f)' /\ Accurate(g)'
  BY <1>1, <1>2, AccurateKept DEF ProcAccurate
<1>4. Accurate(man[q].files)' /\ Accurate(arc[q].files)'
  BY <1>2, <1>3 DEF Accurate
<1> QED
  BY <1>1, <1>4 DEF ProcAccurate

(* Manifests travel between the store, the processes and the late calls. *)
LEMMA AccurateMove ==
    ASSUME AccurateInv, Frozen, NEW p \in Procs, ProcAccurate(p)', disk' = disk,
           \A q \in Procs \ {p} : man'[q] = man[q] /\ arc'[q] = arc[q] /\ seen'[q] = seen[q],
           manifest' \in {manifest, man[p], None, Corrupt},
           \A call \in late' \ late :
               call.op = "manifest" /\ call.value # None => call.value = man[p]
    PROVE  AllAccurate'
<1> USE DEF AccurateInv, AllAccurate, RestoreInv, TypeInv, TypeOK
<1>1. ASSUME NEW m \in Manifest, Accurate(m.files)
      PROVE  Accurate(m.files)'
  BY <1>1, AccurateKept DEF Manifest
<1>2. PICK m \in Manifest : m = man[p]
  OBVIOUS
<1>3. Accurate(m.files)'
  BY <1>1, <1>2 DEF ProcAccurate
<1>4. (Stored => Accurate(manifest.files))'
  <2>1. CASE manifest' = man[p]
    BY <1>2, <1>3, <2>1 DEF Accurate
  <2>2. CASE manifest' = manifest
    <3> SUFFICES ASSUME manifest \in Manifest
                 PROVE  Accurate(manifest.files)'
      BY <2>2 DEF Stored
    <3>1. PICK n \in Manifest : n = manifest
      OBVIOUS
    <3>2. Accurate(n.files)'
      BY <1>1, <3>1 DEF Stored
    <3> QED
      BY <2>2, <3>1, <3>2 DEF Accurate
  <2> QED
    BY <2>1, <2>2, SentinelsAssumption DEF Stored
<1>5. LateAccurate'
  <2> SUFFICES ASSUME NEW call \in late', call.op = "manifest", call.value # None
               PROVE  Accurate(call.value.files)'
    BY DEF LateAccurate
  <2>1. CASE call \in late
    <3>1. call.value \in Manifest
      BY <2>1 DEF LateCalls
    <3> QED
      BY <1>1, <2>1, <3>1 DEF LateAccurate
  <2>2. CASE call \notin late
    BY <1>2, <1>3, <2>2
  <2> QED
    BY <2>1, <2>2
<1>6. \A q \in Procs : ProcAccurate(q)'
  BY OtherAccurate
<1> QED
  BY <1>4, <1>5, <1>6

LEMMA ProcAccurateIf ==
    ASSUME Frozen, NEW p \in Procs, NEW f \in Files, NEW g \in Files, Accurate(f), Accurate(g),
           man'[p].files = f, arc'[p].files = g,
           \A x \in arc'[p].todo : seen'[p][x] = disk'[x]
    PROVE  ProcAccurate(p)'
<1>1. Accurate(f)' /\ Accurate(g)'
  BY AccurateKept
<1> QED
  BY <1>1 DEF ProcAccurate, Accurate

LEMMA NoneAccurate == NoFiles \in Files /\ Accurate(NoFiles)
  BY DEF Accurate, Listed, NoFiles, Files

LEMMA AccurateExit ==
    ASSUME AccurateInv, Frozen, NEW p \in Procs, Exit(p), disk' = disk,
           manifest' \in {manifest, man[p], None, Corrupt},
           \A call \in late' \ late :
               call.op = "manifest" /\ call.value # None => call.value = man[p]
    PROVE  AllAccurate'
<1> USE DEF AccurateInv, RestoreInv, TypeInv, TypeOK
<1>1. /\ man'[p].files = NoFiles /\ arc'[p].files = NoFiles /\ arc'[p].todo = {}
      /\ \A q \in Procs \ {p} : man'[q] = man[q] /\ arc'[q] = arc[q] /\ seen'[q] = seen[q]
  BY DEF Exit, NewManifest, NewArchiver
<1>2. ProcAccurate(p)'
  BY <1>1, NoneAccurate, ProcAccurateIf
<1> QED
  BY <1>1, <1>2, AccurateMove

(* A step of p that leaves the machine and the store alone. *)
LEMMA AccurateLocal ==
    ASSUME AccurateInv, Frozen, NEW p \in Procs, UNCHANGED <<disk, manifest, late>>,
           NEW f \in Files, NEW g \in Files, Accurate(f), Accurate(g),
           man'[p].files = f, arc'[p].files = g,
           \A x \in arc'[p].todo : seen'[p][x] = disk[x],
           \A q \in Procs \ {p} : man'[q] = man[q] /\ arc'[q] = arc[q] /\ seen'[q] = seen[q]
    PROVE  AllAccurate'
<1>1. ProcAccurate(p)'
  BY ProcAccurateIf
<1> QED
  BY <1>1, AccurateMove

LEMMA AccurateBegin ==
    ASSUME AccurateInv, Frozen, NEW p \in Procs, Start(p) \/ Download(p) \/ Walk(p)
    PROVE  AllAccurate'
<1> USE DEF AccurateInv, AllAccurate, RestoreInv, TypeInv, TypeOK
<1>0. /\ man[p].files \in Files /\ arc[p].files \in Files /\ ProcAccurate(p)
      /\ man[p] \in Manifest /\ arc[p] \in Archiver
  BY DEF Manifest, Archiver
<1>1. CASE Start(p)
  BY <1>0, <1>1, AccurateLocal DEF Start, ProcAccurate, remote
<1>2. ASSUME NEW m \in Manifest, Accurate(m.files), Fetched(p, m)
      PROVE  AllAccurate'
  <2>1. m.files \in Files
    BY DEF Manifest
  <2>2. /\ man'[p] = m /\ arc' = arc /\ seen' = seen /\ UNCHANGED <<disk, manifest, late>>
        /\ \A q \in Procs \ {p} : man'[q] = man[q]
    BY <1>2 DEF Fetched, remote
  <2> QED
    BY <1>0, <1>2, <2>1, <2>2, AccurateLocal DEF ProcAccurate
<1>3. CASE Fetch(p)
  BY <1>2, <1>3 DEF Fetch, Stored
<1>4. CASE FetchAbsent(p)
  BY <1>2, <1>4, NoneAccurate, InitialValues DEF FetchAbsent, NewManifest
<1>5. CASE FetchFails(p)
  BY <1>5, AccurateExit DEF FetchFails, remote
<1>6. CASE Walk(p)
  <2>1. PICK found \in SUBSET Walked(job[p].args) :
            LET now == [x \in Paths |-> IF x \in found THEN disk[x] ELSE None] IN
            /\ seen' = [seen EXCEPT ![p] = now]
            /\ arc' = [arc EXCEPT ![p].todo = Changed(man[p].files, now)]
            /\ man' = [man EXCEPT ![p].files = Pruned(man[p].files, now, job[p].args)]
    BY <1>6 DEF Walk
  <2> DEFINE now == [x \in Paths |-> IF x \in found THEN disk[x] ELSE None]
             f == Pruned(man[p].files, now, job[p].args)
  <2>2. /\ man'[p].files = f /\ arc'[p].files = arc[p].files /\ seen'[p] = now
        /\ arc'[p].todo = Changed(man[p].files, now)
        /\ \A q \in Procs \ {p} : man'[q] = man[q] /\ arc'[q] = arc[q] /\ seen'[q] = seen[q]
    BY <1>0, <2>1 DEF Manifest, Archiver
  <2>3. f \in Files
    BY <1>0, FilesTypes
  <2>4. Accurate(f)
    BY <1>0, AccurateParts DEF ProcAccurate, Pruned, Listed
  <2>5. \A x \in arc'[p].todo : seen'[p][x] = disk[x]
    BY <2>2 DEF Changed
  <2>6. UNCHANGED <<disk, manifest, late>>
    BY <1>6 DEF Walk, remote
  <2> HIDE DEF f
  <2> QED
    BY <1>0, <2>2, <2>3, <2>4, <2>5, <2>6, AccurateLocal DEF ProcAccurate
<1> QED
  BY <1>1, <1>3, <1>4, <1>5, <1>6 DEF Download

(* Recording a file whose bytes are in its chunk. *)
LEMMA AccurateRecorded ==
    ASSUME AccurateInv, Frozen, NEW p \in Procs, NEW x \in Paths, NEW e \in Entry,
           Matches(e, content'[e.chunk][x]), arc'[p].files = [arc[p].files EXCEPT ![x] = e]
    PROVE  Accurate(arc[p].files)'
<1>1. PICK f \in Files : f = arc[p].files
  BY DEF AccurateInv, RestoreInv, TypeInv, TypeOK, Archiver
<1>2. Accurate(f)'
  BY <1>1, AccurateKept DEF AccurateInv, AllAccurate, ProcAccurate
<1> DEFINE g == [f EXCEPT ![x] = e]
<1>3. g[x] = e /\ \A y \in Paths \ {x} : g[y] = f[y]
  BY DEF Files
<1>4. arc'[p].files = g
  BY <1>1
<1> HIDE DEF g
<1> QED
  BY <1>2, <1>3, <1>4 DEF Accurate, Listed

LEMMA AccurateArchive ==
    ASSUME Distinct, AccurateInv, Frozen, NEW p \in Procs, Archive(p)
    PROVE  AllAccurate'
<1> USE DEF AccurateInv, AllAccurate, RestoreInv, TypeInv, TypeOK
<1>0. /\ man[p].files \in Files /\ arc[p].files \in Files /\ ProcAccurate(p)
      /\ arc[p] \in Archiver /\ seen[p] \in FileMap
  BY DEF Manifest, Archiver
<1>1. PICK m \in Files : m = man[p].files
  BY <1>0
<1>2. ASSUME NEW x \in Paths, AddFile(p, x)
      PROVE  AllAccurate'
  <2>1. PICK c \in ChunkFor(p, x) :
          /\ content' = [content EXCEPT ![c][x] = disk[x]]
          /\ arc' = [arc EXCEPT ![p] = Recorded(arc[p], x, EntryFor(x, seen[p][x], c))]
    BY <1>2 DEF AddFile
  <2>2. x \in arc[p].todo /\ c \in ChunkIds /\ seen[p][x] = disk[x] /\ disk[x] \in Versions
    BY <1>0, <1>2, <2>1
       DEF AddFile, ChunkFor, Fresh, Archiver, ProcAccurate, TodoSeen, FileMap
  <2>3. content'[c][x] = disk[x]
    BY <2>1, <2>2 DEF FileMap
  <2>4. PICK e \in Entry : e = EntryFor(x, seen[p][x], c) /\ e.chunk = c /\ Matches(e, disk[x])
    <3>1. EntryFor(x, disk[x], c) = [size |-> Size[disk[x]], mtime |-> MTime[disk[x]], chunk |-> c]
      BY DEF EntryFor, Distinct
    <3>2. Size[disk[x]] \in Nat /\ MTime[disk[x]] \in Nat
      BY <2>2, VersionsAssumption
    <3> QED
      BY <2>2, <3>1, <3>2 DEF Entry, Matches
  <2>5. /\ arc'[p].files = [arc[p].files EXCEPT ![x] = e]
        /\ arc'[p].todo = arc[p].todo \ {x}
        /\ \A q \in Procs \ {p} : arc'[q] = arc[q]
    BY <1>0, <2>1, <2>4 DEF Recorded, Archiver
  <2>6. Accurate(arc[p].files)'
    BY <2>3, <2>4, <2>5, AccurateRecorded
  <2>7. Accurate(m)' /\ man' = man /\ seen' = seen /\ disk' = disk
    BY <1>0, <1>1, <1>2, AccurateKept DEF AddFile, ProcAccurate
  <2>8. ProcAccurate(p)'
    BY <1>0, <1>1, <2>5, <2>6, <2>7 DEF ProcAccurate, Accurate
  <2> QED
    BY <1>2, <2>5, <2>8, AccurateMove DEF AddFile, remote
<1>3. ASSUME NEW x \in Paths
      PROVE  ~AddFileShort(p, x)
  BY DEF AddFileShort, Distinct
<1>4. ASSUME NEW x \in Paths, AddFileFails(p, x)
      PROVE  AllAccurate'
  <2>1. PICK c, broken : arc' = [arc EXCEPT ![p] = PassedOver(arc[p], x, c, broken)]
    BY <1>4 DEF AddFileFails
  <2>2. /\ arc'[p].files = arc[p].files /\ arc'[p].todo = arc[p].todo \ {x}
        /\ \A q \in Procs \ {p} : arc'[q] = arc[q]
    BY <1>0, <2>1 DEF PassedOver, Archiver
  <2> QED
    BY <1>0, <1>4, <2>2, AccurateLocal DEF AddFileFails, ProcAccurate, remote
<1>5. CASE ArchiveAborts(p)
  BY <1>5, AccurateExit DEF ArchiveAborts, remote
<1>6. CASE Finalize(p)
  BY <1>0, <1>6, AccurateLocal DEF Finalize, ProcAccurate, remote
<1> QED
  BY <1>2, <1>3, <1>4, <1>5, <1>6 DEF Archive

LEMMA AccurateUpload ==
    ASSUME AccurateInv, Frozen, NEW p \in Procs, Upload(p)
    PROVE  AllAccurate'
<1> USE DEF AccurateInv, AllAccurate, RestoreInv, TypeInv, TypeOK
<1>0. /\ man[p].files \in Files /\ arc[p].files \in Files /\ ProcAccurate(p)
      /\ man[p] \in Manifest
  BY DEF Manifest, Archiver
<1>1. ASSUME NEW c \in ChunkIds, UploadChunk(p, c)
      PROVE  AllAccurate'
  <2>1. /\ man'[p].files = man[p].files /\ UNCHANGED <<disk, manifest, late, arc, seen>>
        /\ \A q \in Procs \ {p} : man'[q] = man[q]
    BY <1>0, <1>1 DEF UploadChunk, Listing, Manifest
  <2> QED
    BY <1>0, <2>1, AccurateLocal DEF ProcAccurate
<1>2. ASSUME NEW c \in ChunkIds, UploadFails(p, c)
      PROVE  AllAccurate'
  <2>1. late' \subseteq late \cup {[op |-> "put", key |-> Key(p, c)]}
    BY <1>2 DEF UploadFails, MayLinger
  <2> QED
    BY <1>2, <2>1, AccurateExit DEF UploadFails
<1>3. CASE Merge(p)
  <2> DEFINE f == Merged(man[p].files, arc[p].files)
  <2>1. f \in Files
    BY <1>0, FilesTypes
  <2>2. Accurate(f)
    BY <1>0, AccurateParts DEF ProcAccurate, Merged, Listed
  <2>3. /\ man'[p].files = f /\ UNCHANGED <<disk, manifest, late, arc, seen>>
        /\ \A q \in Procs \ {p} : man'[q] = man[q]
    BY <1>0, <1>3 DEF Merge, Manifest, remote
  <2> HIDE DEF f
  <2> QED
    BY <1>0, <2>1, <2>2, <2>3, AccurateLocal DEF ProcAccurate
<1> QED
  BY <1>1, <1>2, <1>3 DEF Upload

LEMMA AccurateDelete ==
    ASSUME AccurateInv, Frozen, NEW p \in Procs, Delete(p) \/ Purge(p)
    PROVE  AllAccurate'
<1> USE DEF AccurateInv, AllAccurate, RestoreInv, TypeInv, TypeOK
<1>0. /\ man[p].files \in Files /\ arc[p].files \in Files /\ ProcAccurate(p)
      /\ man[p] \in Manifest
  BY DEF Manifest, Archiver
<1>1. CASE Confirm(p)
  <2> DEFINE f == Without(man[p].files, Selected(man[p].files, job[p]))
  <2>1. f \in Files
    BY <1>0, FilesTypes
  <2>2. Accurate(f)
    BY <1>0, AccurateParts DEF ProcAccurate, Without, Listed
  <2>3. /\ man'[p].files = f /\ UNCHANGED <<disk, manifest, late, arc, seen>>
        /\ \A q \in Procs \ {p} : man'[q] = man[q]
    BY <1>0, <1>1 DEF Confirm, Manifest, remote
  <2> HIDE DEF f
  <2> QED
    BY <1>0, <2>1, <2>2, <2>3, AccurateLocal DEF ProcAccurate
<1>2. CASE Decline(p)
  BY <1>2, AccurateExit DEF Decline, remote
<1>3. ASSUME NEW c \in ChunkIds, PurgeChunk(p, c) \/ PurgeFails(p, c)
      PROVE  AllAccurate'
  <2>1. /\ man'[p].files = man[p].files /\ UNCHANGED <<disk, manifest, arc, seen>>
        /\ \A q \in Procs \ {p} : man'[q] = man[q]
    BY <1>0, <1>3 DEF PurgeChunk, PurgeFails, Unlisting, Manifest
  <2>2. late' \subseteq late \cup {[op |-> "del", key |-> Key(p, c)]}
    BY <1>3 DEF PurgeChunk, PurgeFails, MayLinger
  <2>3. ProcAccurate(p)'
    BY <1>0, <2>1, ProcAccurateIf DEF ProcAccurate
  <2> QED
    BY <2>1, <2>2, <2>3, AccurateMove
<1> QED
  BY <1>1, <1>2, <1>3 DEF Delete, Purge

LEMMA AccurateStore ==
    ASSUME AccurateInv, Frozen, NEW p \in Procs, Store(p) \/ Restore(p)
    PROVE  AllAccurate'
<1> USE DEF AccurateInv, AllAccurate, RestoreInv, TypeInv, TypeOK
<1>0. /\ man[p].files \in Files /\ arc[p].files \in Files /\ ProcAccurate(p)
  BY DEF Manifest, Archiver
<1>1. CASE Publish(p) \/ Rewrite(p)
  BY <1>1, AccurateExit DEF Publish, Rewrite, Rewritten
<1>2. CASE Truncate(p)
  <2>1. ProcAccurate(p)'
    BY <1>0, <1>2, ProcAccurateIf DEF Truncate, ProcAccurate, local
  <2> QED
    BY <1>2, <2>1, AccurateMove DEF Truncate, local
<1>3. CASE PublishFails(p)
  <2>1. late' \subseteq late \cup {[op |-> "manifest", value |-> man[p]]}
    BY <1>3 DEF PublishFails, MayLinger
  <2> QED
    BY <1>3, <2>1, AccurateExit DEF PublishFails
<1>4. CASE DeleteManifest(p)
  <2>1. late' \subseteq late \cup {[op |-> "manifest", value |-> None]}
    BY <1>4 DEF DeleteManifest, MayLinger
  <2> QED
    BY <1>4, <2>1, AccurateExit DEF DeleteManifest
<1>5. CASE NothingToRestore(p) \/ RestoreDone(p)
  BY <1>5, AccurateExit DEF NothingToRestore, RestoreDone, remote
<1>6. CASE UNCHANGED <<disk, remote, man, arc, seen>>
  BY <1>0, <1>6, AccurateLocal DEF ProcAccurate, remote
<1> QED
  BY <1>1, <1>2, <1>3, <1>4, <1>5, <1>6
     DEF Store, Restore, Select, RestoreChunk, RestoreChunkPartly, RestoreChunkFails, Restored

LEMMA AccurateStep ==
    ASSUME Distinct, AccurateInv, [Next]_vars
    PROVE  AccurateInv'
<1> SUFFICES AllAccurate'
  BY RestoreStep, PhaseStep DEF AccurateInv
<1> USE DEF AccurateInv, AllAccurate, RestoreInv, TypeInv, TypeOK
<1>0. Frozen
  BY StepFrozen
<1>1. ASSUME UNCHANGED <<manifest, content, man, arc, seen>>, late' \subseteq late,
             \A q \in Procs : \A x \in arc[q].todo : disk'[x] = disk[x]
      PROVE  AllAccurate'
  BY <1>1 DEF LateAccurate, ProcAccurate, Accurate, Stored
<1>2. CASE UNCHANGED vars
  BY <1>1, <1>2 DEF vars
<1>3. ASSUME NEW x \in Paths, Edit(x)
      PROVE  AllAccurate'
  <2>1. \A q \in Procs : arc[q].todo = {}
    BY <1>3 DEF Edit, Distinct, PhaseInv, Phase, NewArchiver
  <2>2. UNCHANGED <<manifest, late, content, man, arc, seen>>
    BY <1>3 DEF Edit, remote, chunkdata, local
  <2> QED
    BY <1>1, <2>1, <2>2
<1>4. ASSUME NEW call \in late, LateCall(call) \/ LateCallLost(call)
      PROVE  AllAccurate'
  <2>1. UNCHANGED <<disk, content, man, arc, seen>> /\ late' \subseteq late
    BY <1>4 DEF LateCall, LateCallLost, chunkdata, local
  <2>2. call \in LateCalls
    OBVIOUS
  <2>3. manifest' = manifest \/ (manifest' \in {call.value, Corrupt} /\ call.op = "manifest")
    BY <1>4, <2>2 DEF LateCall, LateCallLost, LateCalls, Landed
  <2>4. (Stored => Accurate(manifest.files))'
    BY <2>1, <2>3, SentinelsAssumption DEF LateAccurate, Accurate, Stored
  <2> QED
    BY <2>1, <2>4 DEF LateAccurate, ProcAccurate, Accurate
<1>5. ASSUME NEW p \in Procs, Crash(p)
      PROVE  AllAccurate'
  BY <1>0, <1>5, AccurateExit DEF Crash, remote
<1>6. ASSUME NEW p \in Procs, Start(p) \/ Run(p)
      PROVE  AllAccurate'
  BY <1>0, <1>6, AccurateBegin, AccurateArchive, AccurateUpload, AccurateDelete, AccurateStore
     DEF Run
<1> QED
  BY <1>2, <1>3, <1>4, <1>5, <1>6 DEF Next

LEMMA AccurateInit == Init => AccurateInv
<1>1. ASSUME Init, NEW p \in Procs
      PROVE  ProcAccurate(p)
  BY <1>1, NoneAccurate DEF Init, ProcAccurate, NewManifest, NewArchiver
<1> QED
  BY <1>1, RestoreInit, PhaseInit, SentinelsAssumption
     DEF Init, AccurateInv, AllAccurate, LateAccurate, Stored

(* With accurate entries, what differs in size or time is what differs. *)
LEMMA ChangedExactly ==
    ASSUME Distinct, NEW f \in Files, Accurate(f), NEW now \in FileMap
    PROVE  Changed(f, now) = {x \in Paths : now[x] # None /\ now[x] # StoredVersion(f, x)}
<1> SUFFICES ASSUME NEW x \in Paths, now[x] # None
             PROVE  (\/ f[x] = None
                     \/ f[x].size # Size[now[x]]
                     \/ f[x].mtime # MTime[now[x]]) <=> now[x] # StoredVersion(f, x)
  BY DEF Changed
<1>1. now[x] \in Versions
  BY DEF FileMap
<1>2. CASE f[x] = None
  BY <1>2 DEF StoredVersion
<1>3. CASE f[x] # None
  <2>1. Matches(f[x], StoredVersion(f, x))
    BY <1>3 DEF Accurate, Listed, StoredVersion
  <2> QED
    BY <1>1, <1>3, <2>1 DEF Matches, Distinct
<1> QED
  BY <1>2, <1>3

(***************************************************************************)
(* Whatever other processes do and whatever fails, a backup archives       *)
(* exactly the files of which the manifest it read does not hold the       *)
(* present bytes.                                                          *)
(***************************************************************************)
THEOREM AlwaysDetectsChanges ==
    ASSUME Distinct
    PROVE  Spec => DetectsChanges
<1>1. AccurateInv /\ [Next]_vars => AccurateInv'
  BY AccurateStep
<1>2. AccurateInv =>
        [\A p \in Procs : Walk(p) =>
            arc'[p].todo = {x \in Paths :
                /\ seen'[p][x] # None
                /\ seen'[p][x] # StoredVersion(man[p].files, x)}]_vars
  <2> SUFFICES ASSUME AccurateInv, NEW p \in Procs, Walk(p)
               PROVE  arc'[p].todo = {x \in Paths :
                          /\ seen'[p][x] # None
                          /\ seen'[p][x] # StoredVersion(man[p].files, x)}
    OBVIOUS
  <2> USE DEF AccurateInv, AllAccurate, RestoreInv, TypeInv, TypeOK
  <2>1. /\ arc'[p].todo = Changed(man[p].files, seen'[p])
        /\ seen'[p] \in FileMap
    BY DEF Walk, Archiver, FileMap
  <2>2. man[p].files \in Files /\ Accurate(man[p].files)
    BY DEF ProcAccurate, Manifest
  <2> QED
    BY <2>1, <2>2, ChangedExactly
<1> QED
  BY <1>1, <1>2, AccurateInit, PTL DEF Spec, DetectsChanges

-----------------------------------------------------------------------------
(***************************************************************************)
(* The refinement.  A backup is the atomic snapshot it looks like if the   *)
(* files hold still, the walk meets all of them, nobody else stores a      *)
(* manifest meanwhile, also no call given up earlier, and an argument      *)
(* prunes what it walks.                                                   *)
(***************************************************************************)
Orderly ==
    /\ Distinct
    /\ Faults \cap {"late", "misread", "walk"} = {}
    /\ Under = Prefixed
    /\ AtomicPut

(* What the copy will make of the archive when the archiver is done: the    *)
(* vanished files are gone from it, and of the others the archiver has, or  *)
(* has still to add, those that differ from the archive.                    *)
BackupUnderWay(p) ==
    /\ \A x \in Paths : StoredVersion(man[p].files, x) =
                            IF x \in Walked(job[p].args) /\ disk[x] = None THEN None ELSE saved[x]
    /\ \A x \in Listed(arc[p].files) : /\ x \in Walked(job[p].args)
                                       /\ disk[x] # None
                                       /\ StoredVersion(arc[p].files, x) = disk[x]
    /\ arc[p].todo \subseteq Walked(job[p].args)
    /\ "addfile" \notin Faults =>
          /\ ~arc[p].stuck
          /\ \A x \in Walked(job[p].args) :
                \/ disk[x] = None \/ saved[x] = disk[x]
                \/ x \in arc[p].todo \cup Listed(arc[p].files)

BackupMade(p) ==
    \E skipped \in SUBSET Paths :
        /\ "addfile" \in Faults \/ skipped = {}
        /\ \A x \in skipped : disk[x] # None
        /\ \A x \in Paths : StoredVersion(man[p].files, x) =
                               IF x \in Walked(job[p].args) \ skipped THEN disk[x] ELSE saved[x]

DeleteMade(p) ==
    \A x \in Paths : StoredVersion(man[p].files, x) =
                        IF x \in Matched(job[p].args) THEN None ELSE saved[x]

ProcOrderly(p) ==
    /\ pc[p] # "writing"
    /\ pc[p] \in {"walk", "confirm"} =>
          \A x \in Paths : StoredVersion(man[p].files, x) = saved[x]
    /\ pc[p] \in {"archive", "upload"} => BackupUnderWay(p)
    /\ pc[p] = "upload" => arc[p].todo = {}
    /\ pc[p] = "purge" /\ job[p].cmd = "backup" => BackupMade(p)
    /\ pc[p] = "purge" /\ job[p].cmd = "delete" => DeleteMade(p)

OrderlyInv == AccurateInv /\ late = {} /\ \A p \in Procs : ProcOrderly(p)

(* What a map of files says of the archive changes only with the map. *)
LEMMA VersionsKept ==
    ASSUME AccurateInv, Frozen, NEW p \in Procs
    PROVE  /\ man'[p].files = man[p].files =>
                 \A x \in Paths : StoredVersion(man[p].files, x)' = StoredVersion(man[p].files, x)
           /\ arc'[p].files = arc[p].files =>
                 \A x \in Paths : StoredVersion(arc[p].files, x)' = StoredVersion(arc[p].files, x)
           /\ manifest' = manifest => saved' = saved
<1> USE DEF AccurateInv, AllAccurate, RestoreInv, TypeInv, TypeOK
<1>0. man[p].files \in Files /\ arc[p].files \in Files /\ ProcAccurate(p)
  BY DEF Manifest, Archiver
<1>1. PICK f \in Files, g \in Files : f = man[p].files /\ g = arc[p].files
  BY <1>0
<1>2. \A x \in Paths : /\ StoredVersion(f, x)' = StoredVersion(f, x)
                       /\ StoredVersion(g, x)' = StoredVersion(g, x)
  BY <1>0, <1>1, AccurateKept DEF ProcAccurate
<1>3. ASSUME manifest' = manifest
      PROVE  saved' = saved
  <2>1. CASE Stored
    <3>1. PICK m \in Manifest : m = manifest
      BY <2>1 DEF Stored
    <3>2. m.files \in Files /\ Accurate(m.files)
      BY <2>1, <3>1 DEF Manifest
    <3>3. \A x \in Paths : StoredVersion(m.files, x)' = StoredVersion(m.files, x)
      BY <3>2, AccurateKept
    <3> QED
      BY <1>3, <2>1, <3>1, <3>3 DEF saved, Stored, StoredVersion
  <2>2. CASE ~Stored
    BY <1>3, <2>2 DEF saved, Stored
  <2> QED
    BY <2>1, <2>2
<1> QED
  BY <1>1, <1>2, <1>3 DEF StoredVersion

(* A process whose copy, archiver and command stay. *)
LEMMA OrderlyKept ==
    ASSUME OrderlyInv, Frozen, NEW p \in Procs, late' = {}, manifest' = manifest, disk' = disk,
           man'[p].files = man[p].files, arc'[p] = arc[p], job'[p] = job[p],
           \/ pc'[p] = pc[p]
           \/ pc[p] = "archive" /\ pc'[p] = "upload" /\ arc[p].todo = {}
    PROVE  ProcOrderly(p)'
<1>1. saved' = saved
  BY VersionsKept DEF OrderlyInv
<1>2. \A x \in Paths : /\ StoredVersion(man[p].files, x)' = StoredVersion(man[p].files, x)
                       /\ StoredVersion(arc[p].files, x)' = StoredVersion(arc[p].files, x)
  BY VersionsKept DEF OrderlyInv
<1>3. BackupUnderWay(p) => BackupUnderWay(p)'
  BY <1>1, <1>2 DEF BackupUnderWay, Listed, Walked
<1>4. BackupMade(p) => BackupMade(p)'
  BY <1>1, <1>2 DEF BackupMade, Walked
<1>5. DeleteMade(p) => DeleteMade(p)'
  BY <1>1, <1>2 DEF DeleteMade, Matched
<1> QED
  BY <1>1, <1>2, <1>3, <1>4, <1>5 DEF OrderlyInv, ProcOrderly

LEMMA OrderlyExit ==
    ASSUME OrderlyInv, NEW p \in Procs, Exit(p)
    PROVE  ProcOrderly(p)'
  BY DEF OrderlyInv, AccurateInv, RestoreInv, TypeInv, TypeOK, Exit, ProcOrderly

LEMMA OrderlyFetch ==
    ASSUME Orderly, OrderlyInv, Frozen, NEW p \in Procs, Download(p)
    PROVE  ProcOrderly(p)'
<1> USE DEF OrderlyInv, AccurateInv, AllAccurate, RestoreInv, TypeInv, TypeOK
<1>1. ASSUME NEW m \in Manifest, Accurate(m.files), Fetched(p, m),
             \A x \in Paths : StoredVersion(m.files, x) = saved[x]
      PROVE  ProcOrderly(p)'
  <2>1. /\ pc'[p] \in {"walk", "confirm", "select"} /\ man'[p] = m
        /\ saved' = saved /\ content' = content
    BY <1>1, VersionsKept DEF Fetched, AfterFetch, Goto, remote, chunkdata
  <2>2. \A x \in Paths : StoredVersion(man[p].files, x)' = saved'[x]
    BY <1>1, <2>1 DEF StoredVersion
  <2> QED
    BY <2>1, <2>2 DEF ProcOrderly
<1>2. CASE Fetch(p)
  <2>1. \A x \in Paths : StoredVersion(manifest.files, x) = saved[x]
    BY <1>2 DEF Fetch, saved, Stored
  <2> QED
    BY <1>1, <1>2, <2>1 DEF Fetch, Stored
<1>3. CASE FetchAbsent(p)
  <2>1. manifest = None
    BY <1>3 DEF FetchAbsent, Orderly
  <2>2. \A x \in Paths : StoredVersion(NewManifest.files, x) = saved[x]
    BY <2>1, SentinelsAssumption DEF saved, Stored, StoredVersion, NewManifest, NoFiles
  <2> QED
    BY <1>1, <1>3, <2>2, NoneAccurate, InitialValues DEF FetchAbsent, NewManifest
<1>4. CASE FetchFails(p)
  BY <1>4, OrderlyExit DEF FetchFails
<1> QED
  BY <1>2, <1>3, <1>4 DEF Download

LEMMA OrderlyWalk ==
    ASSUME Orderly, OrderlyInv, Frozen, NEW p \in Procs, Walk(p)
    PROVE  ProcOrderly(p)'
<1> USE DEF OrderlyInv, AccurateInv, AllAccurate, RestoreInv, TypeInv, TypeOK
<1> DEFINE args == job[p].args
           now == [x \in Paths |-> IF x \in Walked(args) THEN disk[x] ELSE None]
<1>1. /\ arc' = [arc EXCEPT ![p].todo = Changed(man[p].files, now)]
      /\ man' = [man EXCEPT ![p].files = Pruned(man[p].files, now, args)]
  <2>1. "walk" \notin Faults
    BY DEF Orderly
  <2>2. PICK found \in SUBSET Walked(args) :
            /\ "walk" \notin Faults => found = Walked(args)
            /\ arc' = [arc EXCEPT ![p].todo =
                  Changed(man[p].files, [x \in Paths |-> IF x \in found THEN disk[x] ELSE None])]
            /\ man' = [man EXCEPT ![p].files =
                  Pruned(man[p].files, [x \in Paths |-> IF x \in found THEN disk[x] ELSE None], args)]
    BY ZenonT(30) DEF Walk
  <2> QED
    BY <2>1, <2>2
<1>2. /\ arc'[p].todo = Changed(man[p].files, now) /\ arc'[p].files = NoFiles /\ ~arc'[p].stuck
      /\ man'[p].files = Pruned(man[p].files, now, args)
      /\ pc[p] = "walk" /\ pc'[p] = "archive" /\ UNCHANGED <<disk, manifest, content, job>>
  BY <1>1 DEF Walk, Goto, PhaseInv, Phase, NewArchiver, Manifest, Archiver, remote, chunkdata
<1>3. saved' = saved
  BY <1>2, VersionsKept
<1>4. Matched(args) = Walked(args)
  BY DEF Matched, Walked, Orderly
<1>5. now \in FileMap /\ man[p].files \in Files /\ Accurate(man[p].files)
  BY DEF FileMap, Manifest, ProcAccurate
<1>6. \A x \in Paths : StoredVersion(man[p].files, x) = saved[x]
  BY <1>2 DEF ProcOrderly
<1>7. Changed(man[p].files, now) = {x \in Paths : now[x] # None /\ now[x] # saved[x]}
  BY <1>5, <1>6, ChangedExactly DEF Orderly
<1>8. \A x \in Paths : StoredVersion(man'[p].files, x) =
          IF x \in Walked(args) /\ disk[x] = None THEN None ELSE saved[x]
  BY <1>2, <1>4, <1>6 DEF Pruned, StoredVersion
<1>9. \A x \in Walked(args) : x \in Paths
  BY PathsAssumption DEF Walked, Jobs
<1>10. BackupUnderWay(p)'
  <2>1. \A x \in Paths : StoredVersion(man[p].files, x)' = StoredVersion(man'[p].files, x)
    BY <1>2 DEF StoredVersion
  <2>2. Walked(job[p].args)' = Walked(args) /\ Listed(arc'[p].files) = {}
    BY <1>2 DEF Walked, Listed, NoFiles
  <2>3. /\ arc'[p].todo \subseteq Walked(args)
        /\ \A x \in Walked(args) : disk[x] = None \/ saved[x] = disk[x] \/ x \in arc'[p].todo
    BY <1>2, <1>7, <1>9
  <2> HIDE DEF now
  <2> QED
    BY <1>2, <1>3, <1>8, <2>1, <2>2, <2>3 DEF BackupUnderWay
<1> QED
  BY <1>2, <1>10 DEF ProcOrderly

LEMMA OrderlyArchive ==
    ASSUME Orderly, OrderlyInv, Frozen, NEW p \in Procs, Archive(p)
    PROVE  ProcOrderly(p)'
<1> USE DEF OrderlyInv, AccurateInv, AllAccurate, RestoreInv, TypeInv, TypeOK
<1>0. /\ arc[p] \in Archiver /\ seen[p] \in FileMap /\ pc[p] = "archive" /\ BackupUnderWay(p)
      /\ \A x \in arc[p].todo : seen[p][x] = disk[x] /\ disk[x] # None
  BY DEF ProcOrderly, ProcAccurate, TodoSeen, Archive, AddFile, AddFileShort, AddFileFails,
         ArchiveAborts, Finalize
<1>1. ASSUME NEW x \in Paths, AddFile(p, x)
      PROVE  ProcOrderly(p)'
  <2>1. PICK c \in ChunkFor(p, x) :
          /\ content' = [content EXCEPT ![c][x] = disk[x]]
          /\ arc' = [arc EXCEPT ![p] = Recorded(arc[p], x, EntryFor(x, seen[p][x], c))]
    BY <1>1 DEF AddFile
  <2>2. /\ x \in arc[p].todo /\ pc' = pc /\ UNCHANGED <<disk, job, man, manifest>>
    BY <1>1 DEF AddFile, remote
  <2>3. /\ arc'[p].files = [arc[p].files EXCEPT ![x] = EntryFor(x, seen[p][x], c)]
        /\ arc'[p].todo = arc[p].todo \ {x} /\ arc'[p].stuck = arc[p].stuck
    BY <1>0, <2>1 DEF Recorded, Archiver
  <2>4. /\ arc'[p].files[x].chunk = c /\ arc'[p].files[x] # None
        /\ \A y \in Paths \ {x} : arc'[p].files[y] = arc[p].files[y]
    <3>1. arc[p].files \in Files /\ c \in ChunkIds /\ seen[p][x] \in Versions
      BY <1>0, <2>1, <2>2 DEF Archiver, ChunkFor, Fresh, FileMap
    <3>2. /\ EntryFor(x, seen[p][x], c).chunk = c
          /\ EntryFor(x, seen[p][x], c) \in Entry
      BY <3>1, VersionsAssumption DEF EntryFor, Entry, Orderly, Distinct
    <3>3. EntryFor(x, seen[p][x], c) # None
      BY <3>2, SentinelsAssumption
    <3>4. arc'[p].files[x] = EntryFor(x, seen[p][x], c)
      BY <2>3, <3>1 DEF Files
    <3> QED
      BY <2>3, <3>1, <3>2, <3>3, <3>4 DEF Files
  <2>5. content'[c][x] = disk[x]
    BY <2>1 DEF FileMap, ChunkFor, Fresh, Archiver
  <2>6. PICK f \in Files : f = arc[p].files
    BY <1>0 DEF Archiver
  <2>7. \A y \in Paths : StoredVersion(f, y)' = StoredVersion(f, y)
    BY <2>6, AccurateKept DEF ProcAccurate
  <2>8. \A y \in Listed(arc'[p].files) : y = x \/ y \in Listed(arc[p].files)
    BY <2>4 DEF Listed
  <2>9. \A y \in Listed(arc'[p].files) : StoredVersion(arc[p].files, y)' = disk[y]
    <3> SUFFICES ASSUME NEW y \in Listed(arc'[p].files)
                 PROVE  StoredVersion(arc[p].files, y)' = disk[y]
      OBVIOUS
    <3>1. CASE y = x
      BY <2>4, <2>5, <3>1 DEF StoredVersion
    <3>2. CASE y # x
      <4>1. arc'[p].files[y] = f[y] /\ y \in Listed(arc[p].files) /\ y \in Paths
        BY <2>4, <2>6, <3>2 DEF Listed
      <4>2. StoredVersion(f, y) = disk[y]
        BY <1>0, <2>6, <4>1 DEF BackupUnderWay
      <4> QED
        BY <2>7, <4>1, <4>2 DEF StoredVersion
    <3> QED
      BY <3>1, <3>2
  <2>10. /\ saved' = saved
         /\ \A y \in Paths : StoredVersion(man[p].files, y)' = StoredVersion(man[p].files, y)
    BY <2>2, VersionsKept
  <2>11. x \in Listed(arc'[p].files) /\ Listed(arc[p].files) \subseteq Listed(arc'[p].files)
    BY <2>4 DEF Listed
  <2>12. BackupUnderWay(p)'
    <3>1. Walked(job[p].args)' = Walked(job[p].args)
      BY <2>2 DEF Walked
    <3> QED
      BY <1>0, <2>2, <2>3, <2>8, <2>9, <2>10, <2>11, <3>1 DEF BackupUnderWay
  <2> QED
    BY <1>0, <2>2, <2>12 DEF ProcOrderly
<1>2. ASSUME NEW x \in Paths
      PROVE  ~AddFileShort(p, x)
  BY DEF AddFileShort, Orderly, Distinct
<1>3. ASSUME NEW x \in Paths, AddFileFails(p, x)
      PROVE  ProcOrderly(p)'
  <2>1. PICK c, broken : arc' = [arc EXCEPT ![p] = PassedOver(arc[p], x, c, broken)]
    BY <1>3 DEF AddFileFails
  <2>2. arc'[p].files = arc[p].files /\ arc'[p].todo \subseteq arc[p].todo
    BY <1>0, <2>1 DEF PassedOver, Archiver
  <2>3. "addfile" \in Faults
    BY <1>0, <1>3 DEF AddFileFails, Readable, BackupUnderWay
  <2>4. /\ pc' = pc /\ UNCHANGED <<disk, job, man, manifest>>
    BY <1>3 DEF AddFileFails, remote
  <2>5. /\ saved' = saved
        /\ \A y \in Paths : /\ StoredVersion(man[p].files, y)' = StoredVersion(man[p].files, y)
                            /\ StoredVersion(arc[p].files, y)' = StoredVersion(arc[p].files, y)
    BY <2>2, <2>4, VersionsKept
  <2>6. BackupUnderWay(p)'
    BY <1>0, <2>2, <2>3, <2>4, <2>5 DEF BackupUnderWay, Listed, Walked
  <2> QED
    BY <1>0, <2>4, <2>6 DEF ProcOrderly
<1>4. CASE ArchiveAborts(p)
  BY <1>4, OrderlyExit DEF ArchiveAborts
<1>5. CASE Finalize(p)
  BY <1>5, OrderlyKept DEF Finalize, Goto, remote
<1> QED
  BY <1>1, <1>2, <1>3, <1>4, <1>5 DEF Archive

LEMMA OrderlyMerge ==
    ASSUME OrderlyInv, Frozen, NEW p \in Procs, Merge(p)
    PROVE  ProcOrderly(p)'
<1> USE DEF OrderlyInv, AccurateInv, AllAccurate, RestoreInv, TypeInv, TypeOK
<1>1. /\ man'[p].files = Merged(man[p].files, arc[p].files)
      /\ pc[p] = "upload" /\ pc'[p] = "purge" /\ job[p].cmd = "backup"
      /\ UNCHANGED <<disk, manifest, content, job>>
  BY DEF Merge, Goto, Manifest, PhaseInv, Phase, remote, chunkdata
<1>2. saved' = saved
  BY <1>1, VersionsKept
<1>3. BackupUnderWay(p) /\ arc[p].todo = {}
  BY <1>1 DEF ProcOrderly
<1> DEFINE walked == Walked(job[p].args)
           skipped == {x \in Paths : /\ x \in walked \ Listed(arc[p].files)
                                     /\ disk[x] # None
                                     /\ saved[x] # disk[x]}
<1>4. "addfile" \in Faults \/ skipped = {}
  BY <1>3 DEF BackupUnderWay
<1>5. \A x \in Paths : StoredVersion(man[p].files, x)' =
          IF x \in Listed(arc[p].files) THEN StoredVersion(arc[p].files, x)
          ELSE StoredVersion(man[p].files, x)
  BY <1>1 DEF StoredVersion, Merged, Listed
<1>6. ASSUME NEW x \in Paths
      PROVE  StoredVersion(man[p].files, x)' = IF x \in walked \ skipped THEN disk[x] ELSE saved[x]
  <2>1. CASE x \in Listed(arc[p].files)
    BY <1>3, <1>5, <2>1 DEF BackupUnderWay
  <2>2. CASE x \notin Listed(arc[p].files)
    BY <1>3, <1>5, <2>2 DEF BackupUnderWay
  <2> QED
    BY <2>1, <2>2
<1>7. BackupMade(p)'
  <2>1. walked' = walked /\ disk' = disk
    BY <1>1 DEF Walked
  <2>2. skipped \subseteq Paths /\ \A x \in skipped : disk[x] # None
    OBVIOUS
  <2> HIDE DEF skipped
  <2> QED
    BY <1>2, <1>4, <1>6, <2>1, <2>2 DEF BackupMade
<1> QED
  BY <1>1, <1>7 DEF ProcOrderly

LEMMA OrderlyConfirm ==
    ASSUME OrderlyInv, Frozen, NEW p \in Procs, Confirm(p)
    PROVE  ProcOrderly(p)'
<1> USE DEF OrderlyInv, AccurateInv, AllAccurate, RestoreInv, TypeInv, TypeOK
<1>1. /\ man'[p].files = Without(man[p].files, Selected(man[p].files, job[p]))
      /\ pc[p] = "confirm" /\ pc'[p] = "purge" /\ job[p].cmd \in {"delete", "deleteAll"}
      /\ UNCHANGED <<disk, manifest, content, job>>
  BY DEF Confirm, Goto, Manifest, PhaseInv, Phase, remote, chunkdata
<1>2. saved' = saved
  BY <1>1, VersionsKept
<1>3. \A x \in Paths : StoredVersion(man[p].files, x) = saved[x]
  BY <1>1 DEF ProcOrderly
<1>4. ASSUME job[p].cmd = "delete"
      PROVE  DeleteMade(p)'
  BY <1>1, <1>2, <1>3, <1>4 DEF DeleteMade, StoredVersion, Without, Selected, Listed, Matched
<1> QED
  BY <1>1, <1>4 DEF ProcOrderly

LEMMA OrderlyPurge ==
    ASSUME Orderly, OrderlyInv, Frozen, NEW p \in Procs, Upload(p) \/ Delete(p) \/ Purge(p), late' = {}
    PROVE  ProcOrderly(p)'
<1> USE DEF OrderlyInv, AccurateInv, AllAccurate, RestoreInv, TypeInv, TypeOK
<1>1. ASSUME NEW c \in ChunkIds, UploadChunk(p, c)
      PROVE  ProcOrderly(p)'
  <2>1. man'[p].files = man[p].files
    BY <1>1 DEF UploadChunk, Listing, Manifest
  <2> QED
    BY <1>1, <2>1, OrderlyKept DEF UploadChunk
<1>2. ASSUME NEW c \in ChunkIds, UploadFails(p, c)
      PROVE  ProcOrderly(p)'
  BY <1>2, OrderlyExit DEF UploadFails
<1>3. ASSUME NEW c \in ChunkIds, PurgeChunk(p, c) \/ PurgeFails(p, c)
      PROVE  ProcOrderly(p)'
  <2>1. man'[p].files = man[p].files
    BY <1>3 DEF PurgeChunk, PurgeFails, Unlisting, Manifest
  <2> QED
    BY <1>3, <2>1, OrderlyKept DEF PurgeChunk, PurgeFails
<1>4. CASE Decline(p)
  BY <1>4, OrderlyExit DEF Decline
<1> QED
  BY <1>1, <1>2, <1>3, <1>4, OrderlyMerge, OrderlyConfirm DEF Upload, Delete, Purge

LEMMA OrderlyStore ==
    ASSUME Orderly, OrderlyInv, NEW p \in Procs, Store(p) \/ Restore(p)
    PROVE  ProcOrderly(p)'
<1> USE DEF OrderlyInv, AccurateInv, AllAccurate, RestoreInv, TypeInv, TypeOK
<1>1. CASE Publish(p) \/ Rewrite(p) \/ PublishFails(p) \/ DeleteManifest(p)
  BY <1>1, OrderlyExit DEF Publish, Rewrite, PublishFails, DeleteManifest
<1>2. ~Truncate(p)
  BY DEF Truncate, Orderly
<1>3. CASE NothingToRestore(p) \/ RestoreDone(p)
  BY <1>3, OrderlyExit DEF NothingToRestore, RestoreDone
<1>4. CASE Select(p)
  BY <1>4 DEF Select, Goto, ProcOrderly
<1>5. ASSUME NEW c \in ChunkIds,
             RestoreChunk(p, c) \/ RestoreChunkPartly(p, c) \/ RestoreChunkFails(p, c)
      PROVE  ProcOrderly(p)'
  BY <1>5
     DEF RestoreChunk, RestoreChunkPartly, RestoreChunkFails, Restored, ProcOrderly
<1> QED
  BY <1>1, <1>2, <1>3, <1>4, <1>5 DEF Store, Restore

LEMMA NoneLate ==
    ASSUME Orderly, late = {}, [Next]_vars
    PROVE  late' = {}
<1>1. "late" \notin Faults
  BY DEF Orderly
<1>2. \A call : MayLinger(call) => late' = late
  BY <1>1 DEF MayLinger
<1>3. ASSUME NEW p \in Procs, Start(p) \/ Run(p) \/ Crash(p)
      PROVE  late' = late
  <2>1. CASE Start(p) \/ Download(p) \/ Walk(p) \/ Archive(p) \/ Crash(p)
    BY <2>1
       DEF Start, Download, Fetch, FetchAbsent, FetchFails, Fetched, Walk, Archive, AddFile,
           AddFileShort, AddFileFails, ArchiveAborts, Finalize, Crash, remote
  <2>2. CASE Upload(p) \/ Delete(p) \/ Purge(p)
    BY <1>2, <2>2
       DEF Upload, UploadChunk, UploadFails, Merge, Delete, Confirm, Decline, Purge, PurgeChunk,
           PurgeFails, remote
  <2>3. CASE Store(p)
    BY <1>2, <2>3 DEF Store, Publish, Truncate, Rewrite, PublishFails, DeleteManifest, local
  <2>4. CASE Restore(p)
    BY <2>4
       DEF Restore, Select, NothingToRestore, RestoreChunk, RestoreChunkPartly,
           RestoreChunkFails, Restored, RestoreDone, remote
  <2> QED
    BY <1>3, <2>1, <2>2, <2>3, <2>4 DEF Run
<1> QED
  BY <1>3 DEF Next, Edit, vars, remote

LEMMA OrderlyStep ==
    ASSUME Orderly, NEW one \in Procs, Alone(one), OrderlyInv, [Next]_vars
    PROVE  OrderlyInv'
<1>1. AccurateInv' /\ Frozen /\ late' = {}
  BY AccurateStep, StepFrozen, NoneLate DEF OrderlyInv, AccurateInv, Orderly
<1> SUFFICES ASSUME NEW p \in Procs
             PROVE  ProcOrderly(p)'
  BY <1>1 DEF OrderlyInv
<1> USE DEF OrderlyInv
<1>2. CASE UNCHANGED vars
  BY <1>1, <1>2, OrderlyKept DEF vars
<1>3. ASSUME NEW x \in Paths, Edit(x)
      PROVE  ProcOrderly(p)'
  BY <1>3 DEF Edit, Orderly, Distinct, ProcOrderly
<1>4. CASE Start(p) \/ Crash(p)
  BY <1>4, OrderlyExit DEF Start, Crash, Goto, ProcOrderly, AccurateInv, RestoreInv, TypeInv, TypeOK
<1>5. CASE Run(p)
  BY <1>1, <1>5, OrderlyFetch, OrderlyWalk, OrderlyArchive, OrderlyPurge, OrderlyStore DEF Run
<1>6. \A q \in Procs : q = p
  BY DEF Alone
<1> QED
  BY <1>2, <1>3, <1>4, <1>5, <1>6 DEF Next

LEMMA OrderlyInit == Init => OrderlyInv
  BY AccurateInit DEF Init, OrderlyInv, ProcOrderly

LEMMA CatalogueBackup ==
    ASSUME NEW args, NEW skipped \in SUBSET Paths, disk' = disk,
           "addfile" \in Faults \/ skipped = {},
           \A x \in skipped : disk[x] # None,
           saved' = [x \in Paths |-> IF x \in Walked(args) \ skipped THEN disk[x] ELSE saved[x]]
    PROVE  Snapshot!Backup(args)
<1>1. Walked(args) = Snapshot!Below(args)
  BY DEF Walked, Snapshot!Below
<1> QED
  BY <1>1 DEF Snapshot!Backup

(* Only a store of the manifest changes the catalogue, and by what the      *)
(* command had promised when it took its copy.                              *)
LEMMA CatalogueStore ==
    ASSUME Orderly, OrderlyInv, Frozen, NEW p \in Procs, Store(p)
    PROVE  [Snapshot!Next]_<<disk, saved>>
<1> USE DEF OrderlyInv, AccurateInv, AllAccurate, RestoreInv, TypeInv, TypeOK
<1>1. disk' = disk /\ content' = content
  BY DEF Store, Publish, Truncate, Rewrite, PublishFails, DeleteManifest, chunkdata
<1>2. CASE manifest' = manifest
  BY <1>1, <1>2, VersionsKept
<1>3. CASE Publish(p)
  <2>1. manifest' = man[p] /\ pc[p] = "purge" /\ job[p].cmd \in {"backup", "delete"}
    BY <1>3 DEF Publish, Purged, PhaseInv, Phase
  <2>2. PICK m \in Manifest : m = man[p]
    OBVIOUS
  <2>3. saved' = [x \in Paths |-> StoredVersion(m.files, x)]
    BY <1>1, <2>1, <2>2 DEF saved, Stored, StoredVersion
  <2>4. PICK args \in SUBSET Targets : args = job[p].args
    BY DEF Jobs
  <2>5. CASE job[p].cmd = "backup"
    <3>1. PICK skipped \in SUBSET Paths :
              /\ "addfile" \in Faults \/ skipped = {}
              /\ \A x \in skipped : disk[x] # None
              /\ \A x \in Paths : StoredVersion(m.files, x) =
                     IF x \in Walked(args) \ skipped THEN disk[x] ELSE saved[x]
      BY <2>1, <2>2, <2>4, <2>5 DEF ProcOrderly, BackupMade
    <3>2. saved' = [x \in Paths |-> IF x \in Walked(args) \ skipped THEN disk[x] ELSE saved[x]]
      BY <2>3, <3>1
    <3>3. Snapshot!Backup(args)
      BY <1>1, <3>1, <3>2, CatalogueBackup
    <3> QED
      BY <3>3 DEF Snapshot!Next
  <2>6. CASE job[p].cmd = "delete"
    <3>1. \A x \in Paths : StoredVersion(m.files, x) =
                              IF x \in Matched(args) THEN None ELSE saved[x]
      BY <2>1, <2>2, <2>4, <2>6 DEF ProcOrderly, DeleteMade
    <3>2. saved' = [x \in Paths |-> IF x \in UNION {Prefixed[t] : t \in args}
                                    THEN None ELSE saved[x]]
      BY <2>3, <3>1 DEF Matched
    <3>3. Snapshot!Delete(args)
      BY <1>1, <3>2 DEF Snapshot!Delete
    <3> QED
      BY <3>3 DEF Snapshot!Next
  <2> QED
    BY <2>1, <2>5, <2>6
<1>4. CASE DeleteManifest(p)
  <2>1. CASE manifest' = None
    <3>1. saved' = [x \in Paths |-> None]
      BY <2>1, SentinelsAssumption DEF saved, Stored
    <3> QED
      BY <1>1, <3>1 DEF Snapshot!Next, Snapshot!DeleteAll
  <2> QED
    BY <1>2, <1>4, <2>1 DEF DeleteManifest
<1>5. CASE PublishFails(p)
  BY <1>2, <1>5 DEF PublishFails
<1>6. ~Truncate(p) /\ ~Rewrite(p)
  BY DEF Truncate, Rewrite, ProcOrderly, Orderly
<1> QED
  BY <1>3, <1>4, <1>5, <1>6 DEF Store

LEMMA CatalogueStep ==
    ASSUME Orderly, OrderlyInv, NEW one \in Procs, [Next]_vars
    PROVE  [Snapshot!Next]_<<disk, saved>>
<1>1. Frozen
  BY StepFrozen DEF OrderlyInv, AccurateInv
<1>2. ASSUME manifest' = manifest
      PROVE  saved' = saved
  BY <1>1, <1>2, VersionsKept DEF OrderlyInv
<1>3. ASSUME NEW x \in Paths, Edit(x)
      PROVE  Snapshot!Next
  <2>1. PICK v \in Versions \cup {None} : disk' = [disk EXCEPT ![x] = v]
    BY <1>3 DEF Edit
  <2>2. saved' = saved
    BY <1>2, <1>3 DEF Edit, remote
  <2> QED
    BY <2>1, <2>2 DEF Snapshot!Next, Snapshot!Edit
<1>4. ASSUME NEW p \in Procs, Start(p) \/ Run(p) \/ Crash(p)
      PROVE  [Snapshot!Next]_<<disk, saved>>
  <2>1. CASE Start(p) \/ Download(p) \/ Walk(p) \/ Archive(p) \/ Crash(p)
    <3>1. disk' = disk /\ manifest' = manifest
      BY <2>1
         DEF Start, Download, Fetch, FetchAbsent, FetchFails, Fetched, Walk, Archive, AddFile,
             AddFileShort, AddFileFails, ArchiveAborts, Finalize, Crash, remote
    <3> QED
      BY <1>2, <3>1
  <2>2. CASE Upload(p) \/ Delete(p) \/ Purge(p)
    <3>1. disk' = disk /\ manifest' = manifest
      BY <2>2
         DEF Upload, UploadChunk, UploadFails, Merge, Delete, Confirm, Decline, Purge,
             PurgeChunk, PurgeFails, remote
    <3> QED
      BY <1>2, <3>1
  <2>3. CASE Restore(p)
    <3>1. disk' = disk /\ manifest' = manifest
      BY <2>3
         DEF Restore, Select, NothingToRestore, RestoreChunk, RestoreChunkPartly,
             RestoreChunkFails, Restored, RestoreDone, remote
    <3> QED
      BY <1>2, <3>1
  <2> QED
    BY <1>1, <1>4, <2>1, <2>2, <2>3, CatalogueStore DEF Run
<1>5. CASE UNCHANGED vars
  BY <1>2, <1>5 DEF vars
<1> QED
  BY <1>3, <1>4, <1>5 DEF Next, OrderlyInv

(***************************************************************************)
(* A store used by one command at a time is a catalogue: whatever crashes  *)
(* and however many calls fail, each backup, delete and delete --all       *)
(* changes what the archive says in one step, to all that it promises, or  *)
(* not at all.                                                             *)
(***************************************************************************)
THEOREM CatalogueImplemented ==
    ASSUME Orderly, NEW one \in Procs, Alone(one)
    PROVE  Spec => ImplementsCatalogue
<1>1. OrderlyInv /\ [Next]_vars => OrderlyInv'
  BY OrderlyStep
<1>2. OrderlyInv /\ [Next]_vars => [Snapshot!Next]_<<disk, saved>>
  BY CatalogueStep
<1>3. Init => Snapshot!Init
  <2>1. Init => saved = [x \in Paths |-> None]
    BY SentinelsAssumption DEF Init, saved, Stored
  <2> QED
    BY <2>1 DEF Init, FileMap, Snapshot!Init
<1> QED
  BY <1>1, <1>2, <1>3, OrderlyInit, PTL DEF Spec, ImplementsCatalogue, Snapshot!Spec

=============================================================================
