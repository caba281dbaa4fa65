-------------------------- MODULE SecureBackupProofs --------------------------
(***************************************************************************)
(* Proofs about SecureBackup for any processes, paths, chunks, options and *)
(* failures.                                                               *)
(***************************************************************************)
EXTENDS SecureBackup, TLAPS

(* The commands and the failures are strings; None is neither, and nothing *)
(* the store holds.                                                        *)
LEMMA ConstantsFacts ==
    /\ None \notin Versions
    /\ None \notin ChunkIds
    /\ NoPrefix \in Prefixes
  BY OptionsAssumption, NoneAssumption

(* The initial and the reset values of a process have their types. *)
LEMMA InitialValues ==
    /\ NoFiles \in FileMap
    /\ NewManifest \in Manifest
    /\ NewArchiver \in Archiver
    /\ NoJob \in Jobs
  BY OptionsAssumption
     DEF NoFiles, FileMap, NewManifest, Manifest, NewArchiver, Archiver, NoJob, Jobs, Files

(* Ending a process keeps the types of its variables. *)
LEMMA ExitTypes ==
    ASSUME TypeOK, NEW p \in Procs, Exit(p)
    PROVE  /\ pc' \in [Procs -> {"idle", "fetch", "walk", "archive", "upload", "purge",
                                 "writing", "confirm", "select", "restore"}]
           /\ job' \in [Procs -> Jobs]
           /\ man' \in [Procs -> Manifest]
           /\ seen' \in [Procs -> FileMap]
           /\ arc' \in [Procs -> Archiver]
           /\ queue' \in [Procs -> SUBSET ChunkIds]
           /\ out' \in [Procs -> FileMap]
  BY InitialValues DEF TypeOK, Exit

(* The computations on manifests have the types one expects. *)
LEMMA FilesTypes ==
    ASSUME NEW f \in Files
    PROVE  /\ \A now, args : Pruned(f, now, args) \in Files
           /\ \A gone : Without(f, gone) \in Files
           /\ \A added \in Files : Merged(f, added) \in Files
  BY DEF Files, Pruned, Without, Merged

LEMMA ChunksTypes ==
    ASSUME NEW m \in Manifest, NEW c \in ChunkIds
    PROVE  /\ Listing(m, c) \in Manifest
           /\ \A b \in BOOLEAN : Unlisting(m, c, b) \in Manifest
           /\ Orphans(m) \subseteq ChunkIds
  BY DEF Manifest, Listing, Unlisting, Orphans

LEMMA LingerTypes ==
    ASSUME TypeOK, NEW call \in LateCalls, MayLinger(call)
    PROVE  late' \subseteq LateCalls
  BY DEF TypeOK, MayLinger

-----------------------------------------------------------------------------
(***************************************************************************)
(* Type correctness.  The archiver makes an entry from what the walk saw,  *)
(* so the invariant also says that the walk saw every file left to add.    *)
(***************************************************************************)
TodoSeen == \A p \in Procs : \A x \in arc[p].todo : seen[p][x] # None

TypeInv == TypeOK /\ TodoSeen

(* A reset process has nothing left to add. *)
LEMMA ExitTodo ==
    ASSUME TypeInv, NEW p \in Procs, Exit(p)
    PROVE  TodoSeen'
  BY DEF TypeInv, TypeOK, TodoSeen, Exit, NewArchiver

LEMMA TypeFetch ==
    ASSUME TypeInv, NEW p \in Procs, Download(p)
    PROVE  TypeInv'
<1>1. ASSUME NEW m \in Manifest, Fetched(p, m)
      PROVE  TypeInv'
  BY <1>1 DEF TypeInv, TypeOK, TodoSeen, Fetched, Goto, AfterFetch, remote, chunkdata
<1>2. CASE Fetch(p)
  BY <1>1, <1>2 DEF Fetch
<1>3. CASE FetchAbsent(p)
  BY <1>1, <1>3, InitialValues DEF FetchAbsent
<1>4. CASE FetchFails(p)
  BY <1>4, ExitTypes, ExitTodo DEF FetchFails, TypeInv, TypeOK, remote, chunkdata
<1> QED
  BY <1>2, <1>3, <1>4 DEF Download

LEMMA TypeWalk ==
    ASSUME TypeInv, NEW p \in Procs, Walk(p)
    PROVE  TypeInv'
<1> USE DEF TypeInv
<1>1. PICK found \in SUBSET Walked(job[p].args) :
          LET now == [x \in Paths |-> IF x \in found THEN disk[x] ELSE None] IN
          /\ seen' = [seen EXCEPT ![p] = now]
          /\ arc' = [arc EXCEPT ![p].todo = Changed(man[p].files, now)]
          /\ man' = [man EXCEPT ![p].files = Pruned(man[p].files, now, job[p].args)]
  BY DEF Walk
<1> DEFINE now == [x \in Paths |-> IF x \in found THEN disk[x] ELSE None]
<1>2. now \in FileMap
  BY DEF TypeOK, FileMap
<1>3. seen' \in [Procs -> FileMap]
  BY <1>1, <1>2 DEF TypeOK
<1>4. Changed(man[p].files, now) \subseteq Paths
  BY DEF Changed
<1>5. arc' \in [Procs -> Archiver]
  <2>1. [arc[p] EXCEPT !.todo = Changed(man[p].files, now)] \in Archiver
    BY <1>4 DEF TypeOK, Archiver
  <2> QED
    BY <1>1, <2>1 DEF TypeOK
<1>6. man' \in [Procs -> Manifest]
  <2>1. man[p] \in Manifest /\ man[p].files \in Files
    BY DEF TypeOK, Manifest
  <2>2. Pruned(man[p].files, now, job[p].args) \in Files
    BY <2>1, FilesTypes
  <2>3. [man[p] EXCEPT !.files = Pruned(man[p].files, now, job[p].args)] \in Manifest
    BY <2>1, <2>2 DEF Manifest
  <2> QED
    BY <1>1, <2>3 DEF TypeOK
<1>7. TodoSeen'
  <2> SUFFICES ASSUME NEW q \in Procs, NEW x \in arc'[q].todo
               PROVE  seen'[q][x] # None
    BY DEF TodoSeen
  <2>1. CASE q = p
    BY <1>1, <2>1 DEF Changed, TypeOK, Archiver
  <2>2. CASE q # p
    BY <1>1, <2>2 DEF TodoSeen, TypeOK
  <2> QED
    BY <2>1, <2>2
<1> QED
  BY <1>3, <1>5, <1>6, <1>7 DEF Walk, TypeOK, Goto, remote, chunkdata

LEMMA TypeArchive ==
    ASSUME TypeInv, NEW p \in Procs, Archive(p)
    PROVE  TypeInv'
<1> USE DEF TypeInv
<1>0. arc[p] \in Archiver /\ seen[p] \in FileMap
  BY DEF TypeOK
<1>1. ASSUME NEW x \in Paths, NEW c \in ChunkFor(p, x), x \in arc[p].todo
      PROVE  /\ c \in ChunkIds
             /\ EntryFor(x, seen[p][x], c) \in Entry
             /\ Recorded(arc[p], x, EntryFor(x, seen[p][x], c)) \in Archiver
             /\ Recorded(arc[p], x, EntryFor(x, seen[p][x], c)).todo \subseteq arc[p].todo
  <2>1. c \in ChunkIds
    BY <1>0 DEF ChunkFor, Fresh, Archiver
  <2>2. seen[p][x] \in Versions
    BY <1>0, <1>1 DEF TodoSeen, FileMap
  <2>3. EntryFor(x, seen[p][x], c) \in Entry
    BY <2>1, <2>2, VersionsAssumption DEF EntryFor, Entry
  <2>4. \A e \in Entry : /\ Recorded(arc[p], x, e) \in Archiver
                         /\ Recorded(arc[p], x, e).todo \subseteq arc[p].todo
    BY <1>0 DEF Recorded, Archiver, Files, Entry
  <2> QED
    BY <2>1, <2>3, <2>4
<1>2. ASSUME NEW a \in Archiver, a.todo \subseteq arc[p].todo,
             arc' = [arc EXCEPT ![p] = a], seen' = seen
      PROVE  arc' \in [Procs -> Archiver] /\ TodoSeen'
  BY <1>0, <1>2 DEF TypeOK, TodoSeen
<1>3. ASSUME NEW x \in Paths, AddFile(p, x)
      PROVE  TypeInv'
  <2>1. PICK c \in ChunkFor(p, x) :
          /\ minted' = minted \cup {c}
          /\ content' = [content EXCEPT ![c][x] = disk[x]]
          /\ arc' = [arc EXCEPT ![p] = Recorded(arc[p], x, EntryFor(x, seen[p][x], c))]
    BY <1>3 DEF AddFile
  <2>2. arc' \in [Procs -> Archiver] /\ TodoSeen'
    BY <1>1, <1>2, <1>3, <2>1 DEF AddFile
  <2>3. minted' \subseteq ChunkIds /\ content' \in [ChunkIds -> FileMap]
    BY <1>1, <1>3, <2>1 DEF AddFile, TypeOK, FileMap
  <2> QED
    BY <1>3, <2>2, <2>3 DEF AddFile, TypeOK, remote
<1>4. ASSUME NEW x \in Paths, AddFileShort(p, x)
      PROVE  TypeInv'
  <2>1. PICK c \in ChunkFor(p, x) :
          /\ minted' = minted \cup {c}
          /\ arc' = [arc EXCEPT ![p] = Recorded(arc[p], x, EntryFor(x, seen[p][x], c))]
    BY <1>4 DEF AddFileShort
  <2>2. arc' \in [Procs -> Archiver] /\ TodoSeen'
    BY <1>1, <1>2, <1>4, <2>1 DEF AddFileShort
  <2>3. minted' \subseteq ChunkIds
    BY <1>1, <1>4, <2>1 DEF AddFileShort, TypeOK
  <2> QED
    BY <1>4, <2>2, <2>3 DEF AddFileShort, TypeOK, remote
<1>5. ASSUME NEW x \in Paths, AddFileFails(p, x)
      PROVE  TypeInv'
  <2>1. PICK c \in (IF arc[p].stuck THEN {arc[p].cur}
                    ELSE ChunkFor(p, x) \cup {arc[p].cur}), broken \in BOOLEAN :
          /\ minted' = minted \cup ({c} \ {None})
          /\ arc' = [arc EXCEPT ![p] = PassedOver(arc[p], x, c, broken)]
    BY <1>5 DEF AddFileFails
  <2>2. c \in ChunkIds \cup {None}
    BY <1>0, <1>1, <1>5 DEF AddFileFails, Archiver
  <2>3. /\ PassedOver(arc[p], x, c, broken) \in Archiver
        /\ PassedOver(arc[p], x, c, broken).todo \subseteq arc[p].todo
    BY <1>0, <2>2 DEF PassedOver, Archiver
  <2>4. arc' \in [Procs -> Archiver] /\ TodoSeen'
    BY <1>2, <1>5, <2>1, <2>3 DEF AddFileFails
  <2> QED
    BY <1>5, <2>1, <2>2, <2>4 DEF AddFileFails, TypeOK, remote
<1>6. CASE ArchiveAborts(p)
  BY <1>6, ExitTypes, ExitTodo DEF ArchiveAborts, TypeOK, remote, chunkdata
<1>7. CASE Finalize(p)
  <2>1. queue' \in [Procs -> SUBSET ChunkIds]
    BY <1>0, <1>7 DEF Finalize, TypeOK, Archiver
  <2> QED
    BY <1>7, <2>1 DEF Finalize, Goto, TypeOK, TodoSeen, remote, chunkdata
<1> QED
  BY <1>3, <1>4, <1>5, <1>6, <1>7 DEF Archive

LEMMA TypeUpload ==
    ASSUME TypeInv, NEW p \in Procs, Upload(p)
    PROVE  TypeInv'
<1> USE DEF TypeInv
<1>0. man[p] \in Manifest /\ man[p].files \in Files /\ arc[p].files \in Files
  BY DEF TypeOK, Manifest, Archiver
<1>1. ASSUME NEW c \in ChunkIds
      PROVE  Key(p, c) \in Keys
  BY DEF Key, Keys, TypeOK, Jobs
<1>2. ASSUME NEW c \in ChunkIds, UploadChunk(p, c)
      PROVE  TypeInv'
  <2>1. objects' \subseteq Keys
    BY <1>1, <1>2 DEF UploadChunk, TypeOK
  <2>2. man' \in [Procs -> Manifest]
    BY <1>0, <1>2, ChunksTypes DEF UploadChunk, TypeOK
  <2>3. queue' \in [Procs -> SUBSET ChunkIds]
    BY <1>2 DEF UploadChunk, TypeOK
  <2> QED
    BY <1>2, <2>1, <2>2, <2>3 DEF UploadChunk, TypeOK, TodoSeen, chunkdata
<1>3. ASSUME NEW c \in ChunkIds, UploadFails(p, c)
      PROVE  TypeInv'
  <2>1. objects' \subseteq Keys
    BY <1>1, <1>3 DEF UploadFails, TypeOK
  <2>2. [op |-> "put", key |-> Key(p, c)] \in LateCalls
    BY <1>1 DEF LateCalls
  <2>3. late' \subseteq LateCalls
    BY <1>3, <2>2, LingerTypes DEF UploadFails
  <2> QED
    BY <1>3, <2>1, <2>3, ExitTypes, ExitTodo DEF UploadFails, TypeOK, chunkdata
<1>4. CASE Merge(p)
  <2> DEFINE m == [man[p] EXCEPT !.files = Merged(man[p].files, arc[p].files)]
  <2>1. Merged(man[p].files, arc[p].files) \in Files
    BY <1>0, FilesTypes
  <2>2. m \in Manifest
    BY <1>0, <2>1 DEF Manifest
  <2>3. /\ man' = [man EXCEPT ![p] = m]
        /\ queue' = [queue EXCEPT ![p] = Orphans(m)]
    BY <1>4 DEF Merge
  <2>4. Orphans(m) \subseteq ChunkIds
    BY <2>2 DEF Orphans, Manifest
  <2> QED
    BY <1>4, <2>2, <2>3, <2>4 DEF Merge, Goto, TypeOK, TodoSeen, remote, chunkdata
<1> QED
  BY <1>2, <1>3, <1>4 DEF Upload

LEMMA TypeDelete ==
    ASSUME TypeInv, NEW p \in Procs, Delete(p)
    PROVE  TypeInv'
<1> USE DEF TypeInv
<1>1. CASE Confirm(p)
  <2> DEFINE gone == Selected(man[p].files, job[p])
             m == [man[p] EXCEPT !.files = Without(man[p].files, gone)]
  <2>1. man[p] \in Manifest /\ man[p].files \in Files
    BY DEF TypeOK, Manifest
  <2>2. Without(man[p].files, gone) \in Files
    BY <2>1, FilesTypes
  <2>3. m \in Manifest
    BY <2>1, <2>2 DEF Manifest
  <2>4. /\ man' = [man EXCEPT ![p] = m]
        /\ queue' = [queue EXCEPT ![p] = Orphans(m)]
    BY <1>1 DEF Confirm
  <2>5. Orphans(m) \subseteq ChunkIds
    BY <2>3 DEF Orphans, Manifest
  <2> QED
    BY <1>1, <2>3, <2>4, <2>5 DEF Confirm, Goto, TypeOK, TodoSeen, remote, chunkdata
<1>2. CASE Decline(p)
  BY <1>2, ExitTypes, ExitTodo DEF Decline, TypeOK, remote, chunkdata
<1> QED
  BY <1>1, <1>2 DEF Delete

LEMMA TypePurge ==
    ASSUME TypeInv, NEW p \in Procs, Purge(p)
    PROVE  TypeInv'
<1> USE DEF TypeInv
<1>0. man[p] \in Manifest
  BY DEF TypeOK
<1>1. ASSUME NEW c \in ChunkIds, PurgeChunk(p, c)
      PROVE  TypeInv'
  <2>1. man' \in [Procs -> Manifest]
    BY <1>0, <1>1, ChunksTypes DEF PurgeChunk, TypeOK
  <2>2. queue' \in [Procs -> SUBSET ChunkIds]
    BY <1>1 DEF PurgeChunk, TypeOK
  <2>3. objects' \subseteq Keys /\ purged' \subseteq ChunkIds
    BY <1>1 DEF PurgeChunk, TypeOK
  <2> QED
    BY <1>1, <2>1, <2>2, <2>3 DEF PurgeChunk, TypeOK, TodoSeen, chunkdata
<1>2. ASSUME NEW c \in ChunkIds, PurgeFails(p, c)
      PROVE  TypeInv'
  <2>1. [op |-> "del", key |-> Key(p, c)] \in LateCalls
    BY DEF LateCalls, Key, Keys, TypeOK, Jobs
  <2>2. late' \subseteq LateCalls
    BY <1>2, <2>1, LingerTypes DEF PurgeFails
  <2>3. man' \in [Procs -> Manifest]
    BY <1>0, <1>2, ChunksTypes DEF PurgeFails, TypeOK
  <2>4. queue' \in [Procs -> SUBSET ChunkIds] /\ purged' \subseteq ChunkIds
    BY <1>2 DEF PurgeFails, TypeOK
  <2> QED
    BY <1>2, <2>2, <2>3, <2>4 DEF PurgeFails, TypeOK, TodoSeen, chunkdata
<1> QED
  BY <1>1, <1>2 DEF Purge

LEMMA TypeStore ==
    ASSUME TypeInv, NEW p \in Procs, Store(p)
    PROVE  TypeInv'
<1> USE DEF TypeInv
<1>0. man[p] \in Manifest
  BY DEF TypeOK
<1>1. CASE Publish(p)
  BY <1>0, <1>1, ExitTypes, ExitTodo DEF Publish, TypeOK, chunkdata
<1>2. CASE Truncate(p)
  BY <1>2 DEF Truncate, Goto, TypeOK, TodoSeen, chunkdata, local
<1>3. CASE Rewrite(p)
  <2>1. manifest' \in Manifest \cup {None, Corrupt}
    BY <1>0, <1>3 DEF Rewrite, Rewritten, TypeOK
  <2> QED
    BY <1>3, <2>1, ExitTypes, ExitTodo DEF Rewrite, TypeOK, chunkdata
<1>4. CASE PublishFails(p)
  <2>1. [op |-> "manifest", value |-> man[p]] \in LateCalls
    BY <1>0 DEF LateCalls
  <2>2. late' \subseteq LateCalls
    BY <1>4, <2>1, LingerTypes DEF PublishFails
  <2> QED
    BY <1>4, <2>2, ExitTypes, ExitTodo DEF PublishFails, TypeOK, chunkdata
<1>5. CASE DeleteManifest(p)
  <2>1. [op |-> "manifest", value |-> None] \in LateCalls
    BY DEF LateCalls
  <2>2. late' \subseteq LateCalls
    <3>1. CASE late' = late
      BY <3>1 DEF TypeOK
    <3>2. CASE MayLinger([op |-> "manifest", value |-> None])
      BY <2>1, <3>2, LingerTypes
    <3> QED
      BY <1>5, <3>1, <3>2 DEF DeleteManifest
  <2>3. manifest' \in {None, manifest}
    BY <1>5 DEF DeleteManifest
  <2> QED
    BY <1>5, <2>2, <2>3, ExitTypes, ExitTodo DEF DeleteManifest, TypeOK, chunkdata
<1> QED
  BY <1>1, <1>2, <1>3, <1>4, <1>5 DEF Store

LEMMA TypeRestore ==
    ASSUME TypeInv, NEW p \in Procs, Restore(p)
    PROVE  TypeInv'
<1> USE DEF TypeInv
<1>1. CASE Select(p)
  <2>1. \A x \in Wanted(p) : man[p].files[x].chunk \in ChunkIds
    BY DEF Wanted, Selected, Listed, TypeOK, Manifest, Files, Entry
  <2>2. queue' \in [Procs -> SUBSET ChunkIds]
    BY <1>1, <2>1 DEF Select, TypeOK
  <2> QED
    BY <1>1, <2>2 DEF Select, Goto, TypeOK, TodoSeen, remote, chunkdata
<1>2. CASE NothingToRestore(p) \/ RestoreDone(p)
  BY <1>2, ExitTypes, ExitTodo DEF NothingToRestore, RestoreDone, TypeOK, remote, chunkdata
<1>3. ASSUME NEW c \in ChunkIds, NEW got, Restored(p, c, got)
      PROVE  TypeInv'
  <2> DEFINE o == [x \in Paths |-> IF x \in got THEN content[c][x] ELSE out[p][x]]
  <2>1. o \in FileMap
    BY DEF TypeOK, FileMap
  <2>2. out' = [out EXCEPT ![p] = o]
    BY <1>3 DEF Restored
  <2>3. out' \in [Procs -> FileMap]
    BY <2>1, <2>2 DEF TypeOK
  <2>4. queue' \in [Procs -> SUBSET ChunkIds]
    BY <1>3 DEF Restored, TypeOK
  <2> QED
    BY <1>3, <2>3, <2>4 DEF Restored, TypeOK, TodoSeen, remote, chunkdata
<1>4. ASSUME NEW c \in ChunkIds, RestoreChunkFails(p, c)
      PROVE  TypeInv'
  BY <1>4 DEF RestoreChunkFails, TypeOK, TodoSeen, remote, chunkdata
<1> QED
  BY <1>1, <1>2, <1>3, <1>4 DEF Restore, RestoreChunk, RestoreChunkPartly

LEMMA TypeLate ==
    ASSUME TypeInv, NEW call \in late, LateCall(call) \/ LateCallLost(call)
    PROVE  TypeInv'
<1> USE DEF TypeInv
<1>0. call \in LateCalls
  BY DEF TypeOK
<1>1. CASE LateCall(call)
  <2>1. /\ call.op = "put" \/ call.op = "del" => call.key \in Keys
        /\ call.op = "manifest" => call.value \in Manifest \cup {None}
        /\ call.op \in {"put", "del", "manifest"}
    BY <1>0 DEF LateCalls
  <2>2. objects' \subseteq Keys /\ manifest' \in Manifest \cup {None, Corrupt}
    BY <1>1, <2>1 DEF LateCall, Landed, TypeOK
  <2> QED
    BY <1>1, <2>2 DEF LateCall, TypeOK, TodoSeen, chunkdata, local
<1>2. CASE LateCallLost(call)
  BY <1>2 DEF LateCallLost, TypeOK, TodoSeen, chunkdata, local
<1> QED
  BY <1>1, <1>2

LEMMA TypeStart ==
    ASSUME TypeInv, NEW p \in Procs, Start(p)
    PROVE  TypeInv'
<1>1. PICK cmd \in Commands, args \in SUBSET Targets, prefix \in Prefixes :
          job' = [job EXCEPT ![p] = [cmd |-> cmd, args |-> args, prefix |-> prefix]]
  BY DEF Start
<1>2. [cmd |-> cmd, args |-> args, prefix |-> prefix] \in Jobs
  BY OptionsAssumption DEF Jobs
<1>3. job' \in [Procs -> Jobs]
  BY <1>1, <1>2 DEF TypeInv, TypeOK
<1> QED
  BY <1>3 DEF Start, Goto, TypeInv, TypeOK, TodoSeen, remote, chunkdata

-----------------------------------------------------------------------------
LEMMA TypeInit == Init => TypeInv
  BY InitialValues DEF Init, TypeInv, TypeOK, TodoSeen, NewArchiver

LEMMA TypeStep == TypeInv /\ [Next]_vars => TypeInv'
<1> SUFFICES ASSUME TypeInv, [Next]_vars
             PROVE  TypeInv'
  OBVIOUS
<1>1. ASSUME NEW x \in Paths, Edit(x)
      PROVE  TypeInv'
  BY <1>1 DEF Edit, TypeInv, TypeOK, TodoSeen, FileMap, remote, chunkdata, local
<1>2. ASSUME NEW p \in Procs, Run(p)
      PROVE  TypeInv'
  BY <1>2, TypeFetch, TypeWalk, TypeArchive, TypeUpload, TypeDelete, TypePurge,
     TypeStore, TypeRestore DEF Run
<1>3. ASSUME NEW p \in Procs, Crash(p)
      PROVE  TypeInv'
  BY <1>3, ExitTypes, ExitTodo DEF Crash, TypeInv, TypeOK, remote, chunkdata
<1>4. CASE UNCHANGED vars
  BY <1>4 DEF vars, TypeInv, TypeOK, TodoSeen
<1> QED
  BY <1>1, <1>2, <1>3, <1>4, TypeStart, TypeLate DEF Next

(***************************************************************************)
(* Every variable keeps its type: in particular a process never sends nil  *)
(* for its copy of the manifest, and every queue holds chunk ids.          *)
(***************************************************************************)
THEOREM TypeCorrect == Spec => []TypeOK
<1>1. TypeInv => TypeOK
  BY DEF TypeInv
<1> QED
  BY <1>1, TypeInit, TypeStep, PTL DEF Spec

-----------------------------------------------------------------------------
(***************************************************************************)
(* The stored manifest.  Three facts travel together from the process that *)
(* builds a manifest, through calls that outlive it, to the store:  the    *)
(* manifest lists every chunk it refers to, every chunk it lists was       *)
(* uploaded, and every file it lists is in its chunk.  The last one needs  *)
(* an archiver that records no file it could not read in full.             *)
(***************************************************************************)
Sent(c) == c \in purged \/ \E q \in Prefixes : <<q, c>> \in objects

Backed(f) ==
    "shrink" \notin Faults => \A x \in Listed(f) : content[f[x].chunk][x] # None

Good(m) ==
    /\ Active(m.files) \subseteq m.chunks
    /\ \A c \in m.chunks : Sent(c)
    /\ Backed(m.files)

LateGood ==
    \A call \in late :
        /\ call.op = "manifest" /\ call.value # None => Good(call.value)
        /\ call.op = "del" => call.key[2] \in purged

ArcGood(p) ==
    /\ Backed(arc[p].files)
    /\ Active(arc[p].files) \subseteq arc[p].chunks

QueueGood(p) ==
    /\ pc[p] = "upload" => arc[p].chunks \subseteq queue[p] \cup man[p].chunks
    /\ pc[p] = "purge" => queue[p] \cap Active(man[p].files) = {}

ProcGood(p) == Good(man[p]) /\ ArcGood(p) /\ QueueGood(p)

StoreGood == Stored => Good(manifest)

SafetyInv == TypeInv /\ StoreGood /\ LateGood /\ \A p \in Procs : ProcGood(p)

(***************************************************************************)
(* What a step may not undo: an upload may be forgotten only by a deletion *)
(* that was asked for, and a member never disappears from a chunk.         *)
(***************************************************************************)
Kept ==
    /\ \A c \in ChunkIds : Sent(c) => Sent(c)'
    /\ \A c \in ChunkIds, x \in Paths : content[c][x] # None => content'[c][x] # None
    /\ \A c \in purged : c \in purged'

LEMMA BackedKept ==
    ASSUME NEW f \in Files, Backed(f), Kept
    PROVE  Backed(f)'
  BY DEF Backed, Kept, Listed, Files, Entry

LEMMA GoodKept ==
    ASSUME NEW m \in Manifest, Good(m), Kept
    PROVE  Good(m)'
<1>1. m.files \in Files /\ m.chunks \subseteq ChunkIds
  BY DEF Manifest
<1>2. Backed(m.files)'
  BY <1>1, BackedKept DEF Good
<1>3. \A c \in m.chunks : Sent(c)'
  BY <1>1 DEF Good, Kept
<1> QED
  BY <1>2, <1>3 DEF Good

LEMMA KeptIfUnchanged ==
    ASSUME objects \subseteq objects', purged \subseteq purged', content' = content
    PROVE  Kept
  BY DEF Kept, Sent

(* A manifest without files or chunks is good. *)
LEMMA GoodNew == Good(NewManifest) /\ Good(NewManifest)'
  BY DEF Good, NewManifest, NoFiles, Active, Listed, Backed

(* The processes that do not take a step stay good. *)
LEMMA OthersGood ==
    ASSUME SafetyInv, Kept, NEW q \in Procs,
           man'[q] = man[q], arc'[q] = arc[q], queue'[q] = queue[q], pc'[q] = pc[q]
    PROVE  ProcGood(q)'
<1>1. man[q] \in Manifest /\ arc[q].files \in Files
  BY DEF SafetyInv, TypeInv, TypeOK, Archiver
<1>2. Good(man[q]) /\ Backed(arc[q].files)
  BY DEF SafetyInv, ProcGood, ArcGood
<1>3. PICK m \in Manifest, f \in Files : m = man[q] /\ f = arc[q].files
  BY <1>1
<1>4. Good(m)' /\ Backed(f)'
  BY <1>1, <1>2, <1>3, GoodKept, BackedKept
<1>5. Good(man[q])'
  BY <1>3, <1>4 DEF Good, Backed
<1>6. Backed(arc[q].files)'
  BY <1>3, <1>4 DEF Backed
<1>7. ArcGood(q)'
  BY <1>6 DEF SafetyInv, ProcGood, ArcGood
<1>8. QueueGood(q)'
  BY DEF SafetyInv, ProcGood, QueueGood
<1> QED
  BY <1>5, <1>7, <1>8 DEF ProcGood

(* A process that has ended is good. *)
LEMMA ExitGood ==
    ASSUME SafetyInv, NEW p \in Procs, Exit(p)
    PROVE  ProcGood(p)'
<1>1. man'[p] = NewManifest /\ arc'[p] = NewArchiver /\ pc'[p] = "idle"
  BY DEF Exit, SafetyInv, TypeInv, TypeOK
<1>2. Good(man[p])'
  BY <1>1 DEF Good, NewManifest, NoFiles, Active, Listed, Backed
<1> QED
  BY <1>1, <1>2 DEF ProcGood, ArcGood, QueueGood, NewArchiver, NoFiles, Active, Listed, Backed

(* A stored manifest that is not replaced stays good, and so do late calls. *)
LEMMA RemoteGood ==
    ASSUME SafetyInv, Kept
    PROVE  /\ manifest' = manifest => StoreGood'
           /\ late' \subseteq late => LateGood'
<1>1. ASSUME manifest' = manifest
      PROVE  StoreGood'
  <2> SUFFICES ASSUME manifest \in Manifest
               PROVE  Good(manifest)'
    BY <1>1 DEF StoreGood, Stored
  <2>1. PICK m \in Manifest : m = manifest
    OBVIOUS
  <2>2. Good(m)'
    BY <2>1, GoodKept DEF SafetyInv, StoreGood, Stored
  <2> QED
    BY <1>1, <2>1, <2>2 DEF Good, Backed
<1>2. ASSUME late' \subseteq late
      PROVE  LateGood'
  <2> SUFFICES ASSUME NEW call \in late
               PROVE  /\ call.op = "manifest" /\ call.value # None => Good(call.value)'
                      /\ call.op = "del" => call.key[2] \in purged'
    BY <1>2 DEF LateGood
  <2>1. call \in LateCalls
    BY DEF SafetyInv, TypeInv, TypeOK
  <2>2. call.op = "manifest" /\ call.value # None => call.value \in Manifest
    BY <2>1 DEF LateCalls
  <2> QED
    BY <2>2, GoodKept DEF SafetyInv, LateGood, Kept
<1> QED
  BY <1>1, <1>2

(* A call that lingers after an error brings nothing new. *)
LEMMA LingerGood ==
    ASSUME SafetyInv, Kept, NEW call \in LateCalls, MayLinger(call),
           call.op = "manifest" /\ call.value # None => Good(call.value)',
           call.op = "del" => call.key[2] \in purged'
    PROVE  LateGood'
<1>1. \A k \in late : /\ k.op = "manifest" /\ k.value # None => Good(k.value)'
                      /\ k.op = "del" => k.key[2] \in purged'
  <2> SUFFICES ASSUME NEW k \in late
               PROVE  /\ k.op = "manifest" /\ k.value # None => Good(k.value)'
                      /\ k.op = "del" => k.key[2] \in purged'
    OBVIOUS
  <2>1. k \in LateCalls
    BY DEF SafetyInv, TypeInv, TypeOK
  <2>2. k.op = "manifest" /\ k.value # None => k.value \in Manifest
    BY <2>1 DEF LateCalls
  <2> QED
    BY <2>2, GoodKept DEF SafetyInv, LateGood, Kept
<1>2. late' \subseteq late \cup {call}
  BY DEF MayLinger
<1> QED
  BY <1>1, <1>2 DEF LateGood

Safe == StoreGood /\ LateGood /\ \A p \in Procs : ProcGood(p)

Elsewhere(p) ==
    \A q \in Procs \ {p} : /\ man'[q] = man[q] /\ arc'[q] = arc[q]
                           /\ queue'[q] = queue[q] /\ pc'[q] = pc[q]

LEMMA ExitElsewhere ==
    ASSUME TypeInv, NEW p \in Procs, Exit(p)
    PROVE  Elsewhere(p)
  BY DEF Elsewhere, Exit, TypeInv, TypeOK

(* A step of p that stores no manifest is safe if it leaves p good. *)
LEMMA LocalSafe ==
    ASSUME SafetyInv, Kept, NEW p \in Procs, Elsewhere(p),
           manifest' = manifest, LateGood', ProcGood(p)'
    PROVE  Safe'
<1>1. ASSUME NEW q \in Procs
      PROVE  ProcGood(q)'
  BY OthersGood DEF Elsewhere
<1>2. StoreGood'
  BY RemoteGood
<1> QED
  BY <1>1, <1>2 DEF Safe

(* Ending without a word to the store is safe. *)
LEMMA EndSafe ==
    ASSUME SafetyInv, NEW p \in Procs, Exit(p), UNCHANGED <<remote, chunkdata, purged>>
    PROVE  Safe'
<1>1. Kept
  BY KeptIfUnchanged DEF remote, chunkdata
<1>2. LateGood' /\ manifest' = manifest
  BY <1>1, RemoteGood DEF remote
<1> QED
  BY <1>1, <1>2, ExitGood, ExitElsewhere, LocalSafe DEF SafetyInv

LEMMA ManGood ==
    ASSUME NEW p \in Procs, NEW m \in Manifest, Good(m), Kept, man'[p] = m
    PROVE  Good(man[p])'
<1>1. Good(m)'
  BY GoodKept
<1> QED
  BY <1>1 DEF Good, Backed

LEMMA ArcKept ==
    ASSUME SafetyInv, Kept, NEW p \in Procs,
           arc'[p].files = arc[p].files, arc[p].chunks \subseteq arc'[p].chunks
    PROVE  ArcGood(p)'
<1>1. PICK f \in Files : f = arc[p].files
  BY DEF SafetyInv, TypeInv, TypeOK, Archiver
<1>2. Backed(f)'
  BY <1>1, BackedKept DEF SafetyInv, ProcGood, ArcGood
<1> QED
  BY <1>1, <1>2 DEF SafetyInv, ProcGood, ArcGood, Backed

LEMMA SafeFetch ==
    ASSUME SafetyInv, NEW p \in Procs, Download(p)
    PROVE  Safe'
<1>1. ASSUME NEW m \in Manifest, Good(m), Fetched(p, m), pc[p] = "fetch"
      PROVE  Safe'
  <2>1. Kept /\ LateGood' /\ manifest' = manifest
    BY <1>1, KeptIfUnchanged, RemoteGood DEF Fetched, remote, chunkdata
  <2>2. Elsewhere(p)
    BY <1>1 DEF Fetched, Goto, Elsewhere, SafetyInv, TypeInv, TypeOK
  <2>3. man'[p] = m /\ arc'[p] = arc[p] /\ pc'[p] \in {"walk", "confirm", "select"}
    BY <1>1 DEF Fetched, Goto, AfterFetch, SafetyInv, TypeInv, TypeOK
  <2>4. Good(man[p])' /\ ArcGood(p)'
    BY <1>1, <2>1, <2>3, ManGood, ArcKept
  <2>5. ProcGood(p)'
    BY <2>3, <2>4 DEF ProcGood, QueueGood
  <2> QED
    BY <2>1, <2>2, <2>5, LocalSafe
<1>2. CASE Fetch(p)
  BY <1>1, <1>2 DEF Fetch, SafetyInv, StoreGood, Stored
<1>3. CASE FetchAbsent(p)
  BY <1>1, <1>3, InitialValues, GoodNew DEF FetchAbsent
<1>4. CASE FetchFails(p)
  BY <1>4, EndSafe DEF FetchFails
<1> QED
  BY <1>2, <1>3, <1>4 DEF Download

(* Entries a backup or a delete drops do no harm. *)
LEMMA FewerGood ==
    ASSUME NEW m \in Manifest, Good(m), NEW f \in Files,
           \A x \in Listed(f) : f[x] = m.files[x]
    PROVE  Good([m EXCEPT !.files = f])
<1>1. Listed(f) \subseteq Listed(m.files)
  BY DEF Listed
<1>2. Active(f) \subseteq Active(m.files)
  BY <1>1 DEF Active
<1>3. Backed(f)
  BY <1>1 DEF Good, Backed
<1> QED
  BY <1>2, <1>3 DEF Good, Manifest

LEMMA SafeWalk ==
    ASSUME SafetyInv, NEW p \in Procs, Walk(p)
    PROVE  Safe'
<1>1. PICK found \in SUBSET Walked(job[p].args) :
          LET now == [x \in Paths |-> IF x \in found THEN disk[x] ELSE None] IN
          /\ arc' = [arc EXCEPT ![p].todo = Changed(man[p].files, now)]
          /\ man' = [man EXCEPT ![p].files = Pruned(man[p].files, now, job[p].args)]
  BY DEF Walk
<1> DEFINE now == [x \in Paths |-> IF x \in found THEN disk[x] ELSE None]
           f == Pruned(man[p].files, now, job[p].args)
           m == [man[p] EXCEPT !.files = f]
<1>2. man[p] \in Manifest /\ man[p].files \in Files /\ Good(man[p])
  BY DEF SafetyInv, TypeInv, TypeOK, ProcGood, Manifest
<1>3. f \in Files /\ \A x \in Listed(f) : f[x] = man[p].files[x]
  BY <1>2, FilesTypes DEF Pruned, Listed, Files
<1>4. m \in Manifest /\ Good(m)
  <2>1. Good(m)
    <3> HIDE DEF f
    <3> QED
      BY <1>2, <1>3, FewerGood
  <2>2. m \in Manifest
    BY <1>2, <1>3 DEF Manifest
  <2> QED
    BY <2>1, <2>2
<1>5. Kept /\ LateGood' /\ manifest' = manifest
  BY KeptIfUnchanged, RemoteGood DEF Walk, remote, chunkdata
<1>6. Elsewhere(p)
  BY <1>1 DEF Walk, Goto, Elsewhere, SafetyInv, TypeInv, TypeOK
<1>7. man'[p] = m /\ pc'[p] = "archive"
  BY <1>1 DEF Walk, Goto, SafetyInv, TypeInv, TypeOK
<1>8. arc'[p].files = arc[p].files /\ arc'[p].chunks = arc[p].chunks
  BY <1>1 DEF SafetyInv, TypeInv, TypeOK, Archiver
<1>9. Good(man[p])'
  <2> HIDE DEF m
  <2> QED
    BY <1>4, <1>5, <1>7, ManGood
<1>10. ArcGood(p)'
  BY <1>5, <1>8, ArcKept
<1> QED
  BY <1>5, <1>6, <1>7, <1>9, <1>10, LocalSafe DEF ProcGood, QueueGood

(* A process that leaves its copy of the manifest alone keeps it good. *)
LEMMA ManKept ==
    ASSUME SafetyInv, Kept, NEW p \in Procs, man'[p] = man[p]
    PROVE  Good(man[p])'
<1>1. PICK m \in Manifest : m = man[p]
  BY DEF SafetyInv, TypeInv, TypeOK
<1> QED
  BY <1>1, ManGood DEF SafetyInv, ProcGood

(* Recording a file that its chunk holds keeps the archiver good. *)
LEMMA RecordedGood ==
    ASSUME SafetyInv, Kept, NEW p \in Procs, NEW x \in Paths, NEW e \in Entry,
           "shrink" \notin Faults => content'[e.chunk][x] # None,
           arc'[p] = Recorded(arc[p], x, e)
    PROVE  ArcGood(p)'
<1>1. PICK f \in Files : f = arc[p].files
  BY DEF SafetyInv, TypeInv, TypeOK, Archiver
<1>2. Backed(f)' /\ Active(f) \subseteq arc[p].chunks
  BY <1>1, BackedKept DEF SafetyInv, ProcGood, ArcGood
<1>3. arc[p] \in Archiver
  BY DEF SafetyInv, TypeInv, TypeOK
<1>4. /\ arc'[p].files = [f EXCEPT ![x] = e]
      /\ arc'[p].chunks = arc[p].chunks \cup {e.chunk}
  BY <1>1, <1>3 DEF Recorded, Archiver
<1> DEFINE g == [f EXCEPT ![x] = e]
<1>5. g[x] = e /\ \A y \in Paths \ {x} : g[y] = f[y]
  BY DEF Files
<1>6. Active(g) \subseteq arc[p].chunks \cup {e.chunk}
  <2> HIDE DEF g
  <2> QED
    BY <1>2, <1>5 DEF Active, Listed
<1>7. "shrink" \notin Faults => \A y \in Listed(g) : content'[g[y].chunk][y] # None
  <2> HIDE DEF g
  <2> QED
    BY <1>2, <1>5 DEF Backed, Listed
<1> QED
  BY <1>4, <1>6, <1>7 DEF ArcGood, Backed

LEMMA SafeArchive ==
    ASSUME SafetyInv, NEW p \in Procs, Archive(p)
    PROVE  Safe'
<1> USE DEF SafetyInv
<1>0. arc[p] \in Archiver /\ seen[p] \in FileMap
  BY DEF TypeInv, TypeOK
<1>1. ASSUME NEW x \in Paths, NEW c \in ChunkFor(p, x), x \in arc[p].todo
      PROVE  c \in ChunkIds /\ EntryFor(x, seen[p][x], c) \in Entry
                            /\ EntryFor(x, seen[p][x], c).chunk = c
  <2>1. c \in ChunkIds
    BY <1>0 DEF ChunkFor, Fresh, Archiver
  <2>2. seen[p][x] \in Versions
    BY <1>0, <1>1 DEF TypeInv, TodoSeen, FileMap
  <2> QED
    BY <2>1, <2>2, VersionsAssumption DEF EntryFor, Entry
<1>2. ASSUME pc[p] = "archive", pc' = pc, man' = man, queue' = queue,
             UNCHANGED remote, Kept, ArcGood(p)', \A q \in Procs \ {p} : arc'[q] = arc[q]
      PROVE  Safe'
  <2>1. Good(man[p])' /\ LateGood' /\ manifest' = manifest
    BY <1>2, ManKept, RemoteGood DEF remote
  <2>2. ProcGood(p)'
    BY <1>2, <2>1 DEF ProcGood, QueueGood
  <2>3. Elsewhere(p)
    BY <1>2 DEF Elsewhere
  <2> QED
    BY <1>2, <2>1, <2>2, <2>3, LocalSafe
<1>3. ASSUME NEW x \in Paths, AddFile(p, x)
      PROVE  Safe'
  <2>1. PICK c \in ChunkFor(p, x) :
          /\ content' = [content EXCEPT ![c][x] = disk[x]]
          /\ arc' = [arc EXCEPT ![p] = Recorded(arc[p], x, EntryFor(x, seen[p][x], c))]
    BY <1>3 DEF AddFile
  <2>2. c \in ChunkIds /\ content'[c][x] # None
    BY <1>1, <1>3, <2>1 DEF AddFile, Readable, TypeInv, TypeOK, FileMap
  <2>3. Kept
    BY <1>3, <2>1, <2>2 DEF AddFile, remote, Kept, Sent, Readable, TypeInv, TypeOK, FileMap
  <2>4. ArcGood(p)'
    BY <1>1, <1>3, <2>1, <2>2, <2>3, RecordedGood DEF AddFile, TypeInv, TypeOK
  <2> QED
    BY <1>2, <1>3, <2>1, <2>3, <2>4 DEF AddFile, TypeInv, TypeOK
<1>4. ASSUME NEW x \in Paths, AddFileShort(p, x)
      PROVE  Safe'
  <2>1. PICK c \in ChunkFor(p, x) :
          arc' = [arc EXCEPT ![p] = Recorded(arc[p], x, EntryFor(x, seen[p][x], c))]
    BY <1>4 DEF AddFileShort
  <2>2. Kept
    BY <1>4, KeptIfUnchanged DEF AddFileShort, remote
  <2>3. "shrink" \in Faults /\ x \in arc[p].todo
    BY <1>4 DEF AddFileShort
  <2>4. ArcGood(p)'
    BY <1>1, <2>1, <2>2, <2>3, RecordedGood DEF TypeInv, TypeOK
  <2> QED
    BY <1>2, <1>4, <2>1, <2>2, <2>4 DEF AddFileShort, TypeInv, TypeOK
<1>5. ASSUME NEW x \in Paths, AddFileFails(p, x)
      PROVE  Safe'
  <2>1. PICK c \in (IF arc[p].stuck THEN {arc[p].cur}
                    ELSE ChunkFor(p, x) \cup {arc[p].cur}), broken \in BOOLEAN :
          arc' = [arc EXCEPT ![p] = PassedOver(arc[p], x, c, broken)]
    BY <1>5 DEF AddFileFails
  <2>2. Kept
    BY <1>5, KeptIfUnchanged DEF AddFileFails, remote
  <2>3. arc'[p].files = arc[p].files /\ arc[p].chunks \subseteq arc'[p].chunks
    BY <1>0, <2>1 DEF PassedOver, Archiver, TypeInv, TypeOK
  <2>4. ArcGood(p)'
    BY <2>2, <2>3, ArcKept
  <2> QED
    BY <1>2, <1>5, <2>1, <2>2, <2>4 DEF AddFileFails, TypeInv, TypeOK
<1>6. CASE ArchiveAborts(p)
  BY <1>6, EndSafe DEF ArchiveAborts
<1>7. CASE Finalize(p)
  <2>1. Kept /\ LateGood' /\ manifest' = manifest
    BY <1>7, KeptIfUnchanged, RemoteGood DEF Finalize, remote, chunkdata
  <2>2. Good(man[p])' /\ ArcGood(p)'
    BY <1>7, <2>1, ManKept, ArcKept DEF Finalize
  <2>3. QueueGood(p)'
    BY <1>7 DEF Finalize, Goto, QueueGood, TypeInv, TypeOK
  <2>4. Elsewhere(p)
    BY <1>7 DEF Finalize, Goto, Elsewhere, TypeInv, TypeOK
  <2> QED
    BY <2>1, <2>2, <2>3, <2>4, LocalSafe DEF ProcGood
<1> QED
  BY <1>3, <1>4, <1>5, <1>6, <1>7 DEF Archive

LEMMA SafeUpload ==
    ASSUME SafetyInv, NEW p \in Procs, Upload(p)
    PROVE  Safe'
<1> USE DEF SafetyInv
<1>0. /\ man[p] \in Manifest /\ man[p].files \in Files /\ Good(man[p])
      /\ arc[p].files \in Files /\ job[p] \in Jobs
  BY DEF TypeInv, TypeOK, Manifest, Archiver, ProcGood
<1>1. ASSUME NEW c \in ChunkIds, UploadChunk(p, c)
      PROVE  Safe'
  <2>1. Kept /\ LateGood' /\ manifest' = manifest
    BY <1>1, KeptIfUnchanged, RemoteGood DEF UploadChunk, chunkdata
  <2>2. man'[p] = Listing(man[p], c) /\ queue'[p] = queue[p] \ {c} /\ pc' = pc /\ arc' = arc
    BY <1>1 DEF UploadChunk, TypeInv, TypeOK
  <2>3. Sent(c)'
    BY <1>0, <1>1 DEF UploadChunk, Sent, Key, Jobs
  <2>4. PICK m \in Manifest : m = man[p]
    BY <1>0
  <2>5. Good(m)'
    BY <1>0, <2>1, <2>4, GoodKept
  <2>6. /\ Listing(m, c).files = m.files
        /\ Listing(m, c).chunks = m.chunks \cup {c}
    BY DEF Listing, Manifest
  <2>7. Good(man[p])'
    BY <2>2, <2>3, <2>4, <2>5, <2>6 DEF Good, Backed
  <2>8. ArcGood(p)' /\ Elsewhere(p)
    BY <1>1, <2>1, <2>2, ArcKept DEF UploadChunk, Elsewhere, TypeInv, TypeOK
  <2>9. QueueGood(p)'
    BY <1>1, <2>2, <2>4, <2>6 DEF UploadChunk, ProcGood, QueueGood
  <2> QED
    BY <2>1, <2>7, <2>8, <2>9, LocalSafe DEF ProcGood
<1>2. ASSUME NEW c \in ChunkIds, UploadFails(p, c)
      PROVE  Safe'
  <2>1. Kept
    BY <1>2, KeptIfUnchanged DEF UploadFails, chunkdata
  <2>2. [op |-> "put", key |-> Key(p, c)] \in LateCalls
    BY <1>0 DEF LateCalls, Key, Keys, Jobs
  <2>3. LateGood'
    BY <1>2, <2>1, <2>2, LingerGood DEF UploadFails
  <2> QED
    BY <1>2, <2>1, <2>3, ExitGood, ExitElsewhere, LocalSafe DEF UploadFails
<1>3. CASE Merge(p)
  <2> DEFINE f == Merged(man[p].files, arc[p].files)
             m == [man[p] EXCEPT !.files = f]
  <2>1. Kept /\ LateGood' /\ manifest' = manifest
    BY <1>3, KeptIfUnchanged, RemoteGood DEF Merge, remote, chunkdata
  <2>2. f \in Files /\ m \in Manifest /\ m.files = f /\ m.chunks = man[p].chunks
    BY <1>0, FilesTypes DEF Manifest
  <2>3. /\ man'[p] = m /\ queue'[p] = Orphans(m) /\ pc'[p] = "purge" /\ arc' = arc
        /\ Elsewhere(p)
    BY <1>3 DEF Merge, Goto, Elsewhere, TypeInv, TypeOK
  <2>4. \A x \in Listed(f) : \/ x \in Listed(arc[p].files) /\ f[x] = arc[p].files[x]
                             \/ x \in Listed(man[p].files) /\ f[x] = man[p].files[x]
    BY DEF Merged, Listed
  <2>5. arc[p].chunks \subseteq man[p].chunks
    BY <1>3 DEF Merge, ProcGood, QueueGood
  <2>6. Active(f) \subseteq man[p].chunks
    <3> HIDE DEF f
    <3> QED
      BY <1>0, <2>4, <2>5 DEF Active, ProcGood, ArcGood, Good
  <2>7. Backed(f)
    <3> HIDE DEF f
    <3> QED
      BY <1>0, <2>4 DEF Backed, ProcGood, ArcGood, Good
  <2>8. Good(m)
    BY <1>0, <2>2, <2>6, <2>7 DEF Good
  <2>9. Good(man[p])'
    <3> HIDE DEF m
    <3> QED
      BY <2>1, <2>2, <2>3, <2>8, ManGood
  <2>10. ArcGood(p)'
    BY <2>1, <2>3, ArcKept
  <2>11. QueueGood(p)'
    <3> HIDE DEF m
    <3> QED
      BY <2>3 DEF QueueGood, Orphans
  <2> QED
    BY <2>1, <2>3, <2>9, <2>10, <2>11, LocalSafe DEF ProcGood
<1> QED
  BY <1>1, <1>2, <1>3 DEF Upload

LEMMA SafeDelete ==
    ASSUME SafetyInv, NEW p \in Procs, Delete(p)
    PROVE  Safe'
<1> USE DEF SafetyInv
<1>1. CASE Confirm(p)
  <2> DEFINE f == Without(man[p].files, Selected(man[p].files, job[p]))
             m == [man[p] EXCEPT !.files = f]
  <2>0. man[p] \in Manifest /\ man[p].files \in Files /\ Good(man[p])
    BY DEF TypeInv, TypeOK, ProcGood, Manifest
  <2>1. f \in Files /\ m \in Manifest /\ \A x \in Listed(f) : f[x] = man[p].files[x]
    BY <2>0, FilesTypes DEF Without, Listed, Files, Manifest
  <2>2. Good(m)
    <3> HIDE DEF f
    <3> QED
      BY <2>0, <2>1, FewerGood
  <2>3. /\ man'[p] = m /\ queue'[p] = Orphans(m) /\ pc'[p] = "purge" /\ arc' = arc
        /\ Elsewhere(p)
    BY <1>1 DEF Confirm, Goto, Elsewhere, TypeInv, TypeOK
  <2>4. Kept /\ LateGood' /\ manifest' = manifest
    BY <1>1, KeptIfUnchanged, RemoteGood DEF Confirm, remote, chunkdata
  <2> HIDE DEF m
  <2>5. Good(man[p])' /\ ArcGood(p)'
    BY <2>1, <2>2, <2>3, <2>4, ManGood, ArcKept
  <2>6. QueueGood(p)'
    BY <2>3 DEF QueueGood, Orphans
  <2> QED
    BY <2>3, <2>4, <2>5, <2>6, LocalSafe DEF ProcGood
<1>2. CASE Decline(p)
  BY <1>2, EndSafe DEF Decline
<1> QED
  BY <1>1, <1>2 DEF Delete

LEMMA SafePurge ==
    ASSUME SafetyInv, NEW p \in Procs, Purge(p)
    PROVE  Safe'
<1> USE DEF SafetyInv
<1>0. man[p] \in Manifest /\ Good(man[p]) /\ QueueGood(p) /\ job[p] \in Jobs
  BY DEF TypeInv, TypeOK, ProcGood
<1>1. ASSUME NEW c \in ChunkIds, PurgeChunk(p, c)
      PROVE  Safe'
  <2>1. Kept
    BY <1>1 DEF PurgeChunk, Kept, Sent, Key, chunkdata
  <2>2. LateGood' /\ manifest' = manifest
    BY <1>1, <2>1, RemoteGood DEF PurgeChunk
  <2>3. /\ man'[p] = Unlisting(man[p], c, TRUE) /\ queue'[p] = queue[p] \ {c}
        /\ pc' = pc /\ arc' = arc /\ Elsewhere(p)
    BY <1>1 DEF PurgeChunk, Elsewhere, TypeInv, TypeOK
  <2> DEFINE m == Unlisting(man[p], c, TRUE)
  <2>4. m \in Manifest /\ m.files = man[p].files /\ m.chunks = man[p].chunks \ {c}
    BY <1>0, ChunksTypes DEF Unlisting, Manifest
  <2>5. c \notin Active(man[p].files)
    BY <1>0, <1>1 DEF PurgeChunk, QueueGood
  <2>6. Good(m)
    <3> HIDE DEF m
    <3> QED
      BY <1>0, <2>4, <2>5 DEF Good
  <2> HIDE DEF m
  <2>7. Good(man[p])' /\ ArcGood(p)'
    BY <2>1, <2>3, <2>4, <2>6, ManGood, ArcKept DEF m
  <2>8. QueueGood(p)'
    BY <1>0, <1>1, <2>3, <2>4 DEF m, PurgeChunk, QueueGood
  <2> QED
    BY <2>1, <2>2, <2>3, <2>7, <2>8, LocalSafe DEF ProcGood
<1>2. ASSUME NEW c \in ChunkIds, PurgeFails(p, c)
      PROVE  Safe'
  <2>1. Kept
    BY <1>2, KeptIfUnchanged DEF PurgeFails, chunkdata
  <2>2. [op |-> "del", key |-> Key(p, c)] \in LateCalls /\ Key(p, c)[2] \in purged'
    BY <1>0, <1>2 DEF LateCalls, Key, Keys, Jobs, PurgeFails
  <2>3. LateGood' /\ manifest' = manifest
    BY <1>2, <2>1, <2>2, LingerGood DEF PurgeFails
  <2>4. /\ man'[p] = man[p] /\ queue'[p] = queue[p] \ {c}
        /\ pc' = pc /\ arc' = arc /\ Elsewhere(p)
    BY <1>0, <1>2 DEF PurgeFails, Unlisting, Elsewhere, TypeInv, TypeOK
  <2>5. Good(man[p])' /\ ArcGood(p)'
    BY <2>1, <2>4, ManKept, ArcKept
  <2>6. QueueGood(p)'
    BY <1>0, <1>2, <2>4 DEF PurgeFails, QueueGood
  <2> QED
    BY <2>1, <2>3, <2>4, <2>5, <2>6, LocalSafe DEF ProcGood
<1> QED
  BY <1>1, <1>2 DEF Purge

(* Ending after handing the copy over, or after removing the manifest. *)
LEMMA EndStoreSafe ==
    ASSUME SafetyInv, NEW p \in Procs, Exit(p), Kept, LateGood',
           manifest' \in {manifest, man[p], None, Corrupt}
    PROVE  Safe'
<1>1. \A q \in Procs : ProcGood(q)'
  BY OthersGood, ExitGood, ExitElsewhere DEF Elsewhere, SafetyInv
<1>2. CASE manifest' = manifest
  BY <1>1, <1>2, RemoteGood DEF Safe
<1>3. CASE manifest' = man[p]
  <2>1. PICK m \in Manifest : m = man[p]
    BY DEF SafetyInv, TypeInv, TypeOK
  <2>2. Good(m)'
    BY <2>1, GoodKept DEF SafetyInv, ProcGood
  <2>3. StoreGood'
    BY <1>3, <2>1, <2>2 DEF StoreGood, Good, Backed
  <2> QED
    BY <1>1, <2>3 DEF Safe
<1>4. CASE manifest' \in {None, Corrupt}
  BY <1>1, <1>4, SentinelsAssumption DEF Safe, StoreGood, Stored
<1> QED
  BY <1>2, <1>3, <1>4

LEMMA SafeStore ==
    ASSUME SafetyInv, NEW p \in Procs, Store(p)
    PROVE  Safe'
<1> USE DEF SafetyInv
<1>0. man[p] \in Manifest /\ Good(man[p])
  BY DEF TypeInv, TypeOK, ProcGood
<1>1. CASE Publish(p) \/ Rewrite(p)
  <2>1. Kept /\ LateGood'
    BY <1>1, KeptIfUnchanged, RemoteGood DEF Publish, Rewrite, chunkdata
  <2> QED
    BY <1>1, <2>1, EndStoreSafe DEF Publish, Rewrite, Rewritten
<1>2. CASE Truncate(p)
  <2>1. Kept /\ LateGood'
    BY <1>2, KeptIfUnchanged, RemoteGood DEF Truncate, chunkdata
  <2>2. StoreGood'
    BY <1>2, SentinelsAssumption DEF Truncate, StoreGood, Stored
  <2>3. ASSUME NEW q \in Procs
        PROVE  ProcGood(q)'
    <3>1. Good(man[q])' /\ ArcGood(q)'
      BY <1>2, <2>1, ManKept, ArcKept DEF Truncate, local
    <3>2. QueueGood(q)'
      BY <1>2 DEF Truncate, local, Goto, ProcGood, QueueGood, TypeInv, TypeOK
    <3> QED
      BY <3>1, <3>2 DEF ProcGood
  <2> QED
    BY <2>1, <2>2, <2>3 DEF Safe
<1>3. CASE PublishFails(p)
  <2>1. Kept
    BY <1>3, KeptIfUnchanged DEF PublishFails, chunkdata
  <2>2. PICK m \in Manifest : m = man[p]
    BY <1>0
  <2>3. Good(m)' /\ [op |-> "manifest", value |-> m] \in LateCalls
    BY <1>0, <2>1, <2>2, GoodKept DEF LateCalls
  <2>4. MayLinger([op |-> "manifest", value |-> m])
    BY <1>3, <2>2 DEF PublishFails
  <2>5. LateGood'
    BY <2>1, <2>3, <2>4, LingerGood
  <2> QED
    BY <1>3, <2>1, <2>5, EndStoreSafe DEF PublishFails
<1>4. CASE DeleteManifest(p)
  <2>1. Kept
    BY <1>4, KeptIfUnchanged DEF DeleteManifest, chunkdata
  <2>2. [op |-> "manifest", value |-> None] \in LateCalls
    BY DEF LateCalls
  <2>3. CASE late' = late
    BY <1>4, <2>1, <2>3, RemoteGood, EndStoreSafe DEF DeleteManifest
  <2>4. CASE MayLinger([op |-> "manifest", value |-> None])
    BY <1>4, <2>1, <2>2, <2>4, LingerGood, EndStoreSafe DEF DeleteManifest
  <2> QED
    BY <1>4, <2>3, <2>4 DEF DeleteManifest
<1> QED
  BY <1>1, <1>2, <1>3, <1>4 DEF Store

LEMMA SafeRestore ==
    ASSUME SafetyInv, NEW p \in Procs, Restore(p)
    PROVE  Safe'
<1> USE DEF SafetyInv
<1>1. CASE NothingToRestore(p) \/ RestoreDone(p)
  BY <1>1, EndSafe DEF NothingToRestore, RestoreDone
<1>2. ASSUME UNCHANGED <<remote, chunkdata, purged, man, arc>>, Elsewhere(p),
             pc'[p] \in {"select", "restore"}
      PROVE  Safe'
  <2>1. Kept /\ LateGood' /\ manifest' = manifest
    BY <1>2, KeptIfUnchanged, RemoteGood DEF remote, chunkdata
  <2>2. Good(man[p])' /\ ArcGood(p)'
    BY <1>2, <2>1, ManKept, ArcKept
  <2> QED
    BY <1>2, <2>1, <2>2, LocalSafe DEF ProcGood, QueueGood
<1>3. CASE Select(p)
  BY <1>2, <1>3 DEF Select, Goto, Elsewhere, TypeInv, TypeOK
<1>4. ASSUME NEW c \in ChunkIds, NEW got, pc[p] = "restore", Restored(p, c, got)
      PROVE  Safe'
  BY <1>2, <1>4 DEF Restored, Elsewhere, TypeInv, TypeOK
<1>5. ASSUME NEW c \in ChunkIds, RestoreChunkFails(p, c)
      PROVE  Safe'
  BY <1>2, <1>5 DEF RestoreChunkFails, Elsewhere, TypeInv, TypeOK
<1> QED
  BY <1>1, <1>3, <1>4, <1>5 DEF Restore, RestoreChunk, RestoreChunkPartly

LEMMA SafeStart ==
    ASSUME SafetyInv, NEW p \in Procs, Start(p)
    PROVE  Safe'
<1>1. Kept /\ LateGood' /\ manifest' = manifest
  BY KeptIfUnchanged, RemoteGood DEF Start, remote, chunkdata
<1>2. Good(man[p])' /\ ArcGood(p)'
  BY <1>1, ManKept, ArcKept DEF Start
<1>3. Elsewhere(p) /\ pc'[p] = "fetch"
  BY DEF Start, Goto, Elsewhere, SafetyInv, TypeInv, TypeOK
<1> QED
  BY <1>1, <1>2, <1>3, LocalSafe DEF ProcGood, QueueGood

LEMMA SafeLate ==
    ASSUME SafetyInv, NEW call \in late, LateCall(call) \/ LateCallLost(call)
    PROVE  Safe'
<1> USE DEF SafetyInv
<1>0. call \in LateCalls
  BY DEF TypeInv, TypeOK
<1>1. Kept
  <2>1. CASE LateCallLost(call)
    BY <2>1, KeptIfUnchanged DEF LateCallLost, chunkdata
  <2>2. CASE LateCall(call)
    <3>1. \A k \in objects : k \in objects' \/ k[2] \in purged
      BY <1>0, <2>2 DEF LateCall, LateGood, LateCalls
    <3> QED
      BY <2>2, <3>1 DEF LateCall, Kept, Sent, chunkdata
  <2> QED
    BY <2>1, <2>2
<1>2. late' \subseteq late /\ UNCHANGED <<pc, man, arc, queue>>
  BY DEF LateCall, LateCallLost, local
<1>3. LateGood' /\ \A q \in Procs : ProcGood(q)'
  BY <1>1, <1>2, RemoteGood, OthersGood
<1>4. CASE manifest' = manifest
  BY <1>1, <1>3, <1>4, RemoteGood DEF Safe
<1>5. CASE manifest' = call.value /\ call.op = "manifest" /\ call.value # None
  <2>1. PICK m \in Manifest : m = call.value
    BY <1>0, <1>5 DEF LateCalls
  <2>2. Good(m)'
    BY <1>1, <1>5, <2>1, GoodKept DEF LateGood
  <2>3. StoreGood'
    BY <1>5, <2>1, <2>2 DEF StoreGood, Good, Backed
  <2> QED
    BY <1>3, <2>3 DEF Safe
<1>6. CASE manifest' \in {None, Corrupt}
  BY <1>3, <1>6, SentinelsAssumption DEF Safe, StoreGood, Stored
<1> QED
  BY <1>0, <1>4, <1>5, <1>6 DEF LateCall, LateCallLost, LateCalls, Landed

LEMMA SafetyStep == SafetyInv /\ [Next]_vars => SafetyInv'
<1> SUFFICES ASSUME SafetyInv, [Next]_vars
             PROVE  Safe'
  BY TypeStep DEF SafetyInv, Safe
<1>1. ASSUME UNCHANGED <<remote, chunkdata, purged, pc, man, arc, queue>>
      PROVE  Safe'
  <2>1. Kept /\ late' \subseteq late /\ manifest' = manifest
    BY <1>1, KeptIfUnchanged DEF remote, chunkdata
  <2>2. \A q \in Procs : ProcGood(q)'
    BY <1>1, <2>1, OthersGood
  <2> QED
    BY <2>1, <2>2, RemoteGood DEF Safe
<1>2. CASE \E x \in Paths : Edit(x)
  BY <1>1, <1>2 DEF Edit, local
<1>3. ASSUME NEW p \in Procs, Run(p)
      PROVE  Safe'
  BY <1>3, SafeFetch, SafeWalk, SafeArchive, SafeUpload, SafeDelete, SafePurge,
     SafeStore, SafeRestore DEF Run
<1>4. ASSUME NEW p \in Procs, Crash(p)
      PROVE  Safe'
  BY <1>4, EndSafe DEF Crash
<1>5. CASE UNCHANGED vars
  BY <1>1, <1>5 DEF vars, remote, chunkdata
<1> QED
  BY <1>2, <1>3, <1>4, <1>5, SafeStart, SafeLate DEF Next

LEMMA SafetyInit == Init => SafetyInv
<1> SUFFICES ASSUME Init
             PROVE  SafetyInv
  OBVIOUS
<1>1. \A p \in Procs : ProcGood(p)
  BY GoodNew DEF Init, ProcGood, ArcGood, QueueGood, NewArchiver, NoFiles, Active,
                 Listed, Backed
<1> QED
  BY <1>1, TypeInit, SentinelsAssumption DEF Init, SafetyInv, StoreGood, Stored, LateGood

LEMMA SafetyInvariant == Spec => []SafetyInv
  BY SafetyInit, SafetyStep, PTL DEF Spec

(***************************************************************************)
(* A stored manifest lists every chunk its files refer to, whatever fails, *)
(* however many commands overlap and whenever late calls land.  So no file *)
(* can refer to a chunk that deleteOrphanedChunks has forgotten about.     *)
(***************************************************************************)
THEOREM ManifestAlwaysClosed == Spec => []ManifestClosed
<1>1. SafetyInv => ManifestClosed
  BY DEF SafetyInv, StoreGood, Good, ManifestClosed
<1> QED
  BY <1>1, SafetyInvariant, PTL

(***************************************************************************)
(* No manifest is stored before the chunks it lists: an object that is     *)
(* missing is one that deleteOrphanedChunks of some command asked for.     *)
(***************************************************************************)
THEOREM ChunksUploadedFirst == Spec => []UploadedBeforePublished
<1>1. SafetyInv => UploadedBeforePublished
  BY DEF SafetyInv, StoreGood, Good, Sent, UploadedBeforePublished
<1> QED
  BY <1>1, SafetyInvariant, PTL

(***************************************************************************)
(* When the archiver records only files it read in full, every file of a   *)
(* stored manifest is a member of the chunk its entry names.               *)
(***************************************************************************)
THEOREM EntriesAlwaysBacked ==
    ASSUME "shrink" \notin Faults
    PROVE  Spec => []EntryBacked
<1>1. SafetyInv => EntryBacked
  BY DEF SafetyInv, StoreGood, Good, Backed, EntryBacked
<1> QED
  BY <1>1, SafetyInvariant, PTL

-----------------------------------------------------------------------------
(***************************************************************************)
(* Dead chunks.  A chunk that no file needs is in the queue of the purge,  *)
(* or its deletion has been asked for; a manifest that leaves the purge,   *)
(* for the store or in a call that outlives its process, has no other.     *)
(***************************************************************************)
Tidy(m) == m.chunks \subseteq Active(m.files) \cup purged

LateTidy == \A call \in late : call.op = "manifest" /\ call.value # None => Tidy(call.value)

ProcTidy(p) ==
    /\ pc[p] = "purge" =>
          man[p].chunks \subseteq Active(man[p].files) \cup purged \cup queue[p]
    /\ pc[p] = "writing" => Tidy(man[p])

AllTidy == (Stored => Tidy(manifest)) /\ LateTidy /\ \A p \in Procs : ProcTidy(p)

TidyInv == TypeInv /\ AllTidy

(* A step of p that stores nothing but a tidy manifest, and leaves p tidy. *)
LEMMA TidyMove ==
    ASSUME TidyInv, NEW p \in Procs, Elsewhere(p), ProcTidy(p)', purged \subseteq purged',
           \/ manifest' \in {manifest, None, Corrupt}
           \/ manifest' = man[p] /\ Tidy(man[p]),
           \A call \in late' \ late :
               call.op = "manifest" /\ call.value # None => Tidy(call.value)
    PROVE  AllTidy'
<1>1. (Stored => Tidy(manifest))'
  BY SentinelsAssumption DEF TidyInv, AllTidy, Stored, Tidy
<1>2. LateTidy'
  BY DEF TidyInv, AllTidy, LateTidy, Tidy
<1>3. ASSUME NEW q \in Procs
      PROVE  ProcTidy(q)'
  BY DEF TidyInv, AllTidy, ProcTidy, Tidy, Elsewhere
<1> QED
  BY <1>1, <1>2, <1>3 DEF AllTidy

(* Steps outside the purge that leave the store alone. *)
LEMMA TidyElse ==
    ASSUME TidyInv, NEW p \in Procs, Elsewhere(p), UNCHANGED <<manifest, purged>>,
           pc'[p] \notin {"purge", "writing"},
           \A call \in late' \ late : call.op # "manifest"
    PROVE  AllTidy'
  BY TidyMove DEF ProcTidy

LEMMA TidyExit ==
    ASSUME TidyInv, NEW p \in Procs, Exit(p), UNCHANGED <<manifest, purged>>,
           \A call \in late' \ late : call.op # "manifest"
    PROVE  AllTidy'
<1>1. pc'[p] = "idle"
  BY DEF Exit, TidyInv, TypeInv, TypeOK
<1> QED
  BY <1>1, TidyElse, ExitElsewhere DEF TidyInv

LEMMA TidyPurge ==
    ASSUME TidyInv, NEW p \in Procs, NEW c \in ChunkIds, PurgeChunk(p, c) \/ PurgeFails(p, c)
    PROVE  AllTidy'
<1>1. /\ purged' = purged \cup {c} /\ manifest' = manifest
      /\ pc[p] = "purge" /\ pc' = pc /\ queue'[p] = queue[p] \ {c}
  BY DEF PurgeChunk, PurgeFails, TidyInv, TypeInv, TypeOK
<1>2. Elsewhere(p)
  BY DEF PurgeChunk, PurgeFails, Elsewhere, TidyInv, TypeInv, TypeOK
<1>3. late' \subseteq late \cup {[op |-> "del", key |-> Key(p, c)]}
  BY DEF PurgeChunk, PurgeFails, MayLinger
<1>4. man'[p].files = man[p].files /\ man'[p].chunks \subseteq man[p].chunks
  BY DEF PurgeChunk, PurgeFails, Unlisting, TidyInv, TypeInv, TypeOK, Manifest
<1>5. ProcTidy(p)'
  BY <1>1, <1>4 DEF ProcTidy, TidyInv, AllTidy
<1> QED
  BY <1>1, <1>2, <1>3, <1>5, TidyMove

LEMMA TidyStore ==
    ASSUME TidyInv, NEW p \in Procs, Store(p)
    PROVE  AllTidy'
<1> USE DEF TidyInv, TypeInv, TypeOK
<1>1. pc[p] = "writing" \/ Purged(p) => Tidy(man[p])
  BY DEF AllTidy, ProcTidy, Purged, Tidy
<1>2. CASE Truncate(p)
  <2>1. Elsewhere(p) /\ UNCHANGED <<purged, late>> /\ man'[p] = man[p] /\ pc'[p] = "writing"
    BY <1>2 DEF Truncate, Goto, Elsewhere, local
  <2>2. ProcTidy(p)'
    BY <1>1, <1>2, <2>1 DEF Truncate, ProcTidy, Tidy
  <2> QED
    BY <1>2, <2>1, <2>2, TidyMove DEF Truncate
<1>3. ASSUME Exit(p)
      PROVE  Elsewhere(p) /\ ProcTidy(p)'
  BY <1>3, ExitElsewhere DEF Exit, ProcTidy
<1>4. CASE Publish(p) \/ Rewrite(p)
  BY <1>1, <1>3, <1>4, TidyMove DEF Publish, Rewrite, Rewritten
<1>5. CASE PublishFails(p)
  <2>1. \A call \in late' \ late : call = [op |-> "manifest", value |-> man[p]]
    BY <1>5 DEF PublishFails, MayLinger
  <2> QED
    BY <1>1, <1>3, <1>5, <2>1, TidyMove DEF PublishFails
<1>6. CASE DeleteManifest(p)
  <2>1. \A call \in late' \ late : call = [op |-> "manifest", value |-> None]
    BY <1>6 DEF DeleteManifest, MayLinger
  <2> QED
    BY <1>3, <1>6, <2>1, TidyMove DEF DeleteManifest
<1> QED
  BY <1>2, <1>4, <1>5, <1>6 DEF Store

LEMMA TidyStep == TidyInv /\ [Next]_vars => TidyInv'
<1> SUFFICES ASSUME TidyInv, [Next]_vars
             PROVE  AllTidy'
  BY TypeStep DEF TidyInv
<1> USE DEF TidyInv, TypeInv, TypeOK
<1>1. CASE UNCHANGED <<manifest, late, purged, pc, man, queue>>
  BY <1>1 DEF AllTidy, LateTidy, ProcTidy, Tidy, Stored
<1>2. CASE UNCHANGED vars \/ \E x \in Paths : Edit(x)
  BY <1>1, <1>2 DEF vars, Edit, remote, local
<1>3. ASSUME NEW p \in Procs, Start(p) \/ Download(p) \/ Walk(p)
      PROVE  AllTidy'
  <2>1. CASE FetchFails(p)
    BY <2>1, TidyExit DEF FetchFails, remote
  <2>2. CASE Start(p) \/ Fetch(p) \/ FetchAbsent(p) \/ Walk(p)
    <3>1. Elsewhere(p) /\ pc'[p] \notin {"purge", "writing"} /\ UNCHANGED <<remote, purged>>
      BY <2>2 DEF Start, Fetch, FetchAbsent, Fetched, AfterFetch, Walk, Goto, Elsewhere
    <3> QED
      BY <3>1, TidyElse DEF remote
  <2> QED
    BY <1>3, <2>1, <2>2 DEF Download
<1>4. ASSUME NEW p \in Procs, Archive(p)
      PROVE  AllTidy'
  <2>1. CASE ArchiveAborts(p)
    BY <2>1, TidyExit DEF ArchiveAborts, remote
  <2>2. CASE ~ArchiveAborts(p)
    <3>1. Elsewhere(p) /\ pc'[p] \notin {"purge", "writing"} /\ UNCHANGED <<remote, purged>>
      BY <1>4, <2>2
         DEF Archive, AddFile, AddFileShort, AddFileFails, Finalize, Goto, Elsewhere
    <3> QED
      BY <3>1, TidyElse DEF remote
  <2> QED
    BY <2>1, <2>2
<1>5. ASSUME NEW p \in Procs, Upload(p)
      PROVE  AllTidy'
  <2>1. ASSUME NEW c \in ChunkIds, UploadChunk(p, c)
        PROVE  AllTidy'
    BY <2>1, TidyElse DEF UploadChunk, Elsewhere
  <2>2. ASSUME NEW c \in ChunkIds, UploadFails(p, c)
        PROVE  AllTidy'
    BY <2>2, TidyExit DEF UploadFails, MayLinger
  <2>3. CASE Merge(p)
    <3>1. /\ Elsewhere(p) /\ UNCHANGED <<remote, purged>>
          /\ pc'[p] = "purge" /\ queue'[p] = Orphans(man'[p])
      BY <2>3 DEF Merge, Goto, Elsewhere
    <3>2. ProcTidy(p)'
      BY <3>1 DEF ProcTidy, Orphans
    <3> QED
      BY <3>1, <3>2, TidyMove DEF remote
  <2> QED
    BY <1>5, <2>1, <2>2, <2>3 DEF Upload
<1>6. ASSUME NEW p \in Procs, Delete(p)
      PROVE  AllTidy'
  <2>1. CASE Decline(p)
    BY <2>1, TidyExit DEF Decline, remote
  <2>2. CASE Confirm(p)
    <3>1. /\ Elsewhere(p) /\ UNCHANGED <<remote, purged>>
          /\ pc'[p] = "purge" /\ queue'[p] = Orphans(man'[p])
      BY <2>2 DEF Confirm, Goto, Elsewhere
    <3>2. ProcTidy(p)'
      BY <3>1 DEF ProcTidy, Orphans
    <3> QED
      BY <3>1, <3>2, TidyMove DEF remote
  <2> QED
    BY <1>6, <2>1, <2>2 DEF Delete
<1>7. ASSUME NEW p \in Procs, Restore(p)
      PROVE  AllTidy'
  <2>1. CASE NothingToRestore(p) \/ RestoreDone(p)
    BY <2>1, TidyExit DEF NothingToRestore, RestoreDone, remote
  <2>2. CASE ~(NothingToRestore(p) \/ RestoreDone(p))
    <3>1. Elsewhere(p) /\ pc'[p] \notin {"purge", "writing"} /\ UNCHANGED <<remote, purged>>
      BY <1>7, <2>2
         DEF Restore, Select, RestoreChunk, RestoreChunkPartly, RestoreChunkFails, Restored,
             Goto, Elsewhere
    <3> QED
      BY <3>1, TidyElse DEF remote
  <2> QED
    BY <2>1, <2>2
<1>8. ASSUME NEW p \in Procs, Crash(p)
      PROVE  AllTidy'
  BY <1>8, TidyExit DEF Crash, remote
<1>9. ASSUME NEW call \in late, LateCall(call) \/ LateCallLost(call)
      PROVE  AllTidy'
  <2>1. call \in LateCalls
    OBVIOUS
  <2>2. UNCHANGED <<purged, pc, man, queue>> /\ late' \subseteq late
    BY <1>9 DEF LateCall, LateCallLost, local
  <2>3. \/ manifest' = manifest
        \/ manifest' \in {call.value, Corrupt} /\ call.op = "manifest"
    BY <1>9, <2>1 DEF LateCall, LateCallLost, LateCalls, Landed
  <2>4. (Stored => Tidy(manifest))'
    BY <2>2, <2>3, SentinelsAssumption DEF AllTidy, LateTidy, Stored, Tidy
  <2>5. LateTidy' /\ \A p \in Procs : ProcTidy(p)'
    BY <2>2 DEF AllTidy, LateTidy, ProcTidy, Tidy
  <2> QED
    BY <2>4, <2>5 DEF AllTidy
<1> QED
  BY <1>2, <1>3, <1>4, <1>5, <1>6, <1>7, <1>8, <1>9, TidyPurge, TidyStore DEF Next, Run, Purge

(***************************************************************************)
(* However its files left a chunk, in one command or in several, alone or  *)
(* with other processes at work, a chunk that no file of the stored        *)
(* manifest needs is one whose deletion has been asked for.                *)
(***************************************************************************)
THEOREM ChunksNeverDead == Spec => []NoDeadChunks
<1>1. Init => TidyInv
  BY TypeInit, SentinelsAssumption DEF Init, TidyInv, AllTidy, LateTidy, ProcTidy, Stored
<1>2. TidyInv => NoDeadChunks
  BY DEF TidyInv, AllTidy, Tidy, NoDeadChunks
<1> QED
  BY <1>1, <1>2, TidyStep, PTL DEF Spec

-----------------------------------------------------------------------------
(***************************************************************************)
(* A torn manifest.  Once it lies there and nothing is under way, every    *)
(* command ends at its download; where that was not so, a command that     *)
(* takes it for absent would store a new one over it.                      *)
(***************************************************************************)
Torn ==
    /\ manifest = Corrupt
    /\ late = {}
    /\ \A p \in Procs : pc[p] \in {"idle", "fetch"}

LEMMA TornStep ==
    ASSUME "misread" \notin Faults, TypeOK, Torn, [Next]_vars
    PROVE  Torn'
<1> USE DEF TypeOK, Torn
<1>1. ASSUME NEW p \in Procs, Start(p) \/ FetchFails(p) \/ Crash(p)
      PROVE  Torn'
  BY <1>1 DEF Start, FetchFails, Crash, Exit, Goto, remote
<1>2. ASSUME NEW p \in Procs, Run(p)
      PROVE  FetchFails(p)
  <2>1. ~Fetch(p) /\ ~FetchAbsent(p)
    BY SentinelsAssumption DEF Fetch, FetchAbsent
  <2> QED
    BY <1>2, <2>1
       DEF Run, Download, Walk, Archive, AddFile, AddFileShort, AddFileFails, ArchiveAborts,
           Finalize, Upload, UploadChunk, UploadFails, Merge, Delete, Confirm, Decline, Purge,
           PurgeChunk, PurgeFails, Store, Publish, Truncate, Rewrite, PublishFails,
           DeleteManifest, Purged, Restore, Select, NothingToRestore, RestoreChunk,
           RestoreChunkPartly, RestoreChunkFails, RestoreDone
<1>3. CASE UNCHANGED vars \/ \E x \in Paths : Edit(x)
  BY <1>3 DEF vars, Edit, remote, local
<1> QED
  BY <1>1, <1>2, <1>3 DEF Next

(***************************************************************************)
(* A torn manifest stays for somebody to repair, for every number of       *)
(* processes, unless a download error is taken for an absent object.       *)
(***************************************************************************)
THEOREM TornAlwaysKept ==
    ASSUME "misread" \notin Faults
    PROVE  Spec => TornKept
<1>1. Quiet /\ late = {} /\ manifest = Corrupt => Torn
  BY DEF Quiet, Torn
<1>2. Torn => manifest = Corrupt
  BY DEF Torn
<1>3. TypeOK /\ Torn /\ [Next]_vars => Torn'
  BY TornStep
<1> QED
  BY <1>1, <1>2, <1>3, TypeCorrect, PTL DEF Spec, TornKept

-----------------------------------------------------------------------------
(***************************************************************************)
(* Which command a process runs decides which steps it can be at, and a    *)
(* process has no archiver before it has walked.                           *)
(***************************************************************************)
Phase(p) ==
    /\ job[p].cmd \in Commands \cup {None}
    /\ pc[p] \in {"walk", "archive", "upload"} => job[p].cmd = "backup"
    /\ pc[p] = "confirm" => job[p].cmd \in {"delete", "deleteAll"}
    /\ pc[p] = "purge" => job[p].cmd \in {"backup", "delete", "deleteAll"}
    /\ pc[p] \in {"idle", "fetch", "walk"} => arc[p] = NewArchiver

PhaseInv == TypeInv /\ \A p \in Procs : Phase(p)

LEMMA PhaseStep == PhaseInv /\ [Next]_vars => PhaseInv'
<1> SUFFICES ASSUME PhaseInv, [Next]_vars, NEW q \in Procs
             PROVE  Phase(q)'
  BY TypeStep DEF PhaseInv
<1> USE DEF PhaseInv, TypeInv, TypeOK
<1>0. Phase(q)
  OBVIOUS
<1>1. CASE job'[q] = job[q] /\ pc'[q] = pc[q] /\ arc'[q] = arc[q]
  BY <1>0, <1>1 DEF Phase
<1>2. ASSUME Exit(q)
      PROVE  Phase(q)'
  BY <1>2 DEF Exit, NoJob, Phase
<1>3. CASE Start(q)
  BY <1>0, <1>3 DEF Start, Goto, Phase
<1>4. CASE Download(q)
  BY <1>0, <1>2, <1>4
     DEF Download, Fetch, FetchAbsent, FetchFails, Fetched, AfterFetch, Goto, Phase
<1>5. CASE Walk(q)
  BY <1>0, <1>5 DEF Walk, Goto, Phase
<1>6. CASE Archive(q)
  BY <1>0, <1>2, <1>6
     DEF Archive, AddFile, AddFileShort, AddFileFails, ArchiveAborts, Finalize, Goto, Phase
<1>7. CASE Upload(q) \/ Delete(q)
  BY <1>0, <1>2, <1>7
     DEF Upload, UploadChunk, UploadFails, Merge, Delete, Confirm, Decline, Goto, Phase
<1>8. CASE Purge(q)
  BY <1>1, <1>8 DEF Purge, PurgeChunk, PurgeFails
<1>9. CASE Store(q)
  BY <1>0, <1>2, <1>9
     DEF Store, Publish, Truncate, Rewrite, PublishFails, DeleteManifest, Goto, local, Phase
<1>10. CASE Restore(q)
  BY <1>0, <1>2, <1>10
     DEF Restore, Select, NothingToRestore, RestoreChunk, RestoreChunkPartly,
         RestoreChunkFails, Restored, RestoreDone, Goto, Phase
<1>11. ASSUME NEW p \in Procs, Start(p) \/ Run(p) \/ Crash(p)
       PROVE  p = q \/ (job'[q] = job[q] /\ pc'[q] = pc[q] /\ arc'[q] = arc[q])
  <2> SUFFICES ASSUME p # q
               PROVE  job'[q] = job[q] /\ pc'[q] = pc[q] /\ arc'[q] = arc[q]
    OBVIOUS
  <2>1. CASE Start(p) \/ Download(p) \/ Walk(p) \/ Crash(p)
    BY <2>1 DEF Start, Download, Fetch, FetchAbsent, FetchFails, Fetched, Walk, Crash, Exit, Goto
  <2>2. CASE Archive(p)
    BY <2>2 DEF Archive, AddFile, AddFileShort, AddFileFails, ArchiveAborts, Finalize, Exit, Goto
  <2>3. CASE Upload(p) \/ Delete(p) \/ Purge(p)
    BY <2>3 DEF Upload, UploadChunk, UploadFails, Merge, Delete, Confirm, Decline,
                Purge, PurgeChunk, PurgeFails, Exit, Goto
  <2>4. CASE Store(p) \/ Restore(p)
    BY <2>4 DEF Store, Publish, Truncate, Rewrite, PublishFails, DeleteManifest,
                Restore, Select, NothingToRestore, RestoreChunk, RestoreChunkPartly,
                RestoreChunkFails, Restored, RestoreDone, Exit, Goto, local
  <2> QED
    BY <1>11, <2>1, <2>2, <2>3, <2>4 DEF Run
<1>12. CASE Crash(q)
  BY <1>2, <1>12 DEF Crash
<1>13. CASE UNCHANGED <<job, pc, arc>>
  BY <1>1, <1>13
<1> QED
  BY <1>1, <1>3, <1>4, <1>5, <1>6, <1>7, <1>8, <1>9, <1>10, <1>11, <1>12, <1>13
     DEF Next, Run, Edit, LateCall, LateCallLost, local, vars

LEMMA PhaseInit == Init => PhaseInv
  BY TypeInit DEF Init, PhaseInv, Phase, NoJob

=============================================================================
