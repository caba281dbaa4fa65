---------------------------- MODULE SecureBackup ----------------------------
(***************************************************************************)
(* The secure-backup commands (main.go: runBackup, runRestore, runDelete)  *)
(* against one remote store: the encrypted manifest, which says which      *)
(* chunk holds which file, and the chunk objects.  A process is one run    *)
(* of the program; several may run against the same store, because the     *)
(* program takes no lock.  Every remote call is a step of its own.         *)
(*                                                                         *)
(* Data abstraction: a file's contents together with its size and          *)
(* modification time is a version; a chunk is the members its archive      *)
(* holds; encryption and compression are faithful containers (they are the *)
(* subject of other modules).  Directories are left out: they are archived *)
(* only through the files below them.  m.Chunks and arc.Chunks, which are  *)
(* lists without duplicates, are sets: their loops run in any order.       *)
(*                                                                         *)
(* A definition with an underscore in its name is a wrong version of the   *)
(* one before the underscore; no property holds by accident if it fails    *)
(* for one of them.                                                        *)
(***************************************************************************)
EXTENDS Naturals, FiniteSets

CONSTANTS
    Procs,            \* runs of the program that may overlap
    Paths,            \* slash paths of the files
    Links,            \* the paths that are symbolic links
    Versions,         \* what a file can hold
    Size, MTime,      \* [Versions -> Nat]: what Lstat says of a version
    Targets,          \* the strings given as command arguments
    Under,            \* Under[t]: the paths filepath.Walk(t) can visit
    Prefixed,         \* Prefixed[t]: the paths of which t is a string prefix
    Prefixes,         \* values of --prefix
    NoPrefix,         \* the empty --prefix
    ChunkIds,         \* the identifiers uuid.New can return (bounds the run)
    Commands,         \* the commands that may be started
    Faults,           \* the failures that may happen, see FaultKinds
    MaxLate,          \* bound on the calls still running after a timeout
    IdempotentDelete, \* deleting an absent object succeeds
    AtomicPut,        \* storing an object replaces it in one step
    None,             \* no file, no entry, no object
    Corrupt           \* a manifest that does not decrypt

CommandKinds == {"backup", "delete", "deleteAll", "restore", "restoreAll"}

(***************************************************************************)
(* crash: a process stops between two steps.   download, upload, delete,   *)
(* publish: that remote call returns an error.   late: a call that timed   *)
(* out is still carried out afterwards.   misread: the text of a download  *)
(* error looks like "not found".   walk: filepath.Walk stops early.        *)
(* addfile, archive: the archiver fails on one file, or altogether.        *)
(* shrink: it records a file whose bytes it could not read in full.        *)
(* edit: files change while a command runs.   extract: unpacking stops.    *)
(***************************************************************************)
FaultKinds == {"crash", "download", "upload", "delete", "publish", "late",
               "misread", "walk", "addfile", "archive", "shrink", "edit", "extract"}

ASSUME PathsAssumption ==
    /\ Links \subseteq Paths
    /\ Under \in [Targets -> SUBSET Paths]
    /\ Prefixed \in [Targets -> SUBSET Paths]
    /\ \A t \in Targets : Under[t] \subseteq Prefixed[t]
ASSUME VersionsAssumption ==
    /\ Size \in [Versions -> Nat]
    /\ MTime \in [Versions -> Nat]
ASSUME OptionsAssumption ==
    /\ NoPrefix \in Prefixes
    /\ Commands \subseteq CommandKinds
    /\ Faults \subseteq FaultKinds
    /\ MaxLate \in Nat
    /\ IdempotentDelete \in BOOLEAN
    /\ AtomicPut \in BOOLEAN
ASSUME NoneAssumption == None \notin Versions \cup ChunkIds \cup CommandKinds

VARIABLES
    disk,      \* the files of the machine being backed up
    manifest,  \* the remote manifest object
    objects,   \* the remote chunk objects, as <<prefix, id>>
    content,   \* the members of every chunk written so far
    minted,    \* the chunk ids drawn so far
    purged,    \* history: the chunks a process has asked to delete
    late,      \* remote calls given up by their caller but still running
    pc, job,   \* of each process: where it is, and its command line
    man,       \* of each process: its copy m of the manifest
    seen,      \* of each process: currentFiles
    arc,       \* of each process: the archiver, and the paths left to add
    queue,     \* of each process: the chunks its present loop has left
    out        \* of each process: the files it has restored

remote == <<manifest, objects, late>>
chunkdata == <<content, minted>>
local == <<job, man, seen, arc, queue, out>>
vars == <<disk, manifest, objects, content, minted, purged, late,
          pc, job, man, seen, arc, queue, out>>

-----------------------------------------------------------------------------
(* Types. *)

Entry == [size : Nat, mtime : Nat, chunk : ChunkIds]
Files == [Paths -> Entry \cup {None}]
Manifest == [files : Files, chunks : SUBSET ChunkIds]
Keys == Prefixes \X ChunkIds
FileMap == [Paths -> Versions \cup {None}]
Archiver == [todo : SUBSET Paths, cur : ChunkIds \cup {None},
             chunks : SUBSET ChunkIds, files : Files, stuck : BOOLEAN]
LateCalls == [op : {"put", "del"}, key : Keys]
                 \cup [op : {"manifest"}, value : Manifest \cup {None}]
Jobs == [cmd : CommandKinds \cup {None}, args : SUBSET Targets, prefix : Prefixes]

(* Absence is told from an entry and from a manifest, an unreadable         *)
(* manifest from both.                                                      *)
ASSUME SentinelsAssumption ==
    /\ None \notin Entry
    /\ None \notin Manifest
    /\ Corrupt \notin Manifest \cup {None}

NoFiles == [x \in Paths |-> None]

(* The file map is left nil, as it is after unmarshalling {"files": null}. *)
NewManifest_Nil == [files |-> None, chunks |-> {}]

NewManifest == [files |-> NoFiles, chunks |-> {}]

NewArchiver == [todo |-> {}, cur |-> None, chunks |-> {}, files |-> NoFiles,
                stuck |-> FALSE]
NoJob == [cmd |-> None, args |-> {}, prefix |-> NoPrefix]

TypeOK ==
    /\ disk \in FileMap
    /\ manifest \in Manifest \cup {None, Corrupt}
    /\ objects \subseteq Keys
    /\ content \in [ChunkIds -> FileMap]
    /\ minted \subseteq ChunkIds
    /\ purged \subseteq ChunkIds
    /\ late \subseteq LateCalls
    /\ pc \in [Procs -> {"idle", "fetch", "walk", "archive", "upload", "purge",
                         "writing", "confirm", "select", "restore"}]
    /\ job \in [Procs -> Jobs]
    /\ man \in [Procs -> Manifest]
    /\ seen \in [Procs -> FileMap]
    /\ arc \in [Procs -> Archiver]
    /\ queue \in [Procs -> SUBSET ChunkIds]
    /\ out \in [Procs -> FileMap]

-----------------------------------------------------------------------------
(* The computations the commands make on a manifest. *)

Walked(args) == UNION {Under[t] : t \in args}
Matched(args) == UNION {Prefixed[t] : t \in args}

(* An edit is taken for one only when the time moved forward. *)
Changed_NewerOnly(files, now) ==
    {x \in Paths : /\ now[x] # None
                   /\ files[x] # None => files[x].mtime < MTime[now[x]]}

(* runBackup: "new or modified" is decided by size and whole-second time. *)
Changed(files, now) ==
    {x \in Paths :
        /\ now[x] # None
        /\ \/ files[x] = None
           \/ files[x].size # Size[now[x]]
           \/ files[x].mtime # MTime[now[x]]}

(* Files that vanished stay in the manifest. *)
Pruned_Never(files, now, args) == files

(* runBackup: files under a target that the walk did not meet are dropped. *)
Pruned(files, now, args) ==
    [x \in Paths |-> IF x \in Matched(args) /\ now[x] = None THEN None ELSE files[x]]

(* AddFile: the entry is made from the walk's FileInfo, a link's size is 0. *)
EntryFor(x, v, c) ==
    [size |-> IF x \in Links THEN 0 ELSE Size[v], mtime |-> MTime[v], chunk |-> c]

Merged(files, added) ==
    [x \in Paths |-> IF added[x] # None THEN added[x] ELSE files[x]]

Without(files, gone) == [x \in Paths |-> IF x \in gone THEN None ELSE files[x]]

Listed(files) == {x \in Paths : files[x] # None}
Active(files) == {files[x].chunk : x \in Listed(files)}

(* Only the chunks of a manifest without files are orphans. *)
Orphans_WhenEmpty(m) == IF Listed(m.files) = {} THEN m.chunks ELSE {}

(* A chunk is an orphan as soon as one file has another one. *)
Orphans_Eager(m) == {c \in m.chunks : Active(m.files) # {c}}

(* deleteOrphanedChunks: listed chunks that no file refers to any more. *)
Orphans(m) == m.chunks \ Active(m.files)

(* runBackup, m.Chunks = append(m.Chunks, chunkID): after the upload. *)
Listing_Forgotten(m, c) == m

Listing(m, c) == [m EXCEPT !.chunks = @ \cup {c}]

(* deleteOrphanedChunks, newChunks: a chunk whose deletion failed stays. *)
Unlisting_Always(m, c, deleted) == [m EXCEPT !.chunks = @ \ {c}]

Unlisting(m, c, deleted) == IF deleted THEN [m EXCEPT !.chunks = @ \ {c}] ELSE m

(* runDelete and runRestore: the listed files a command line selects. *)
Selected(files, j) ==
    IF j.cmd \in {"deleteAll", "restoreAll"} THEN Listed(files)
    ELSE Listed(files) \cap Matched(j.args)

(* Any chunk may supply any wanted path. *)
Extracted_AnyChunk(files, wanted, c) == wanted

(* Extraction stops at the first wanted member. *)
Extracted_FirstOnly(files, wanted, c) ==
    {CHOOSE x \in wanted : files[x].chunk = c}

(* runRestore: what Extract takes out of chunk c for the wanted paths. *)
Extracted(files, wanted, c) ==
    {x \in wanted : files[x].chunk = c}

Key(p, c) == <<job[p].prefix, c>>
Fresh == ChunkIds \ minted

-----------------------------------------------------------------------------
Init ==
    /\ disk \in FileMap
    /\ manifest = None
    /\ objects = {}
    /\ content = [c \in ChunkIds |-> NoFiles]
    /\ minted = {}
    /\ purged = {}
    /\ late = {}
    /\ pc = [p \in Procs |-> "idle"]
    /\ job = [p \in Procs |-> NoJob]
    /\ man = [p \in Procs |-> NewManifest]
    /\ seen = [p \in Procs |-> NoFiles]
    /\ arc = [p \in Procs |-> NewArchiver]
    /\ queue = [p \in Procs |-> {}]
    /\ out = [p \in Procs |-> NoFiles]

(* The process ends, normally, by log.Fatalf or killed: its memory is gone. *)
Exit(p) ==
    /\ pc' = [pc EXCEPT ![p] = "idle"]
    /\ job' = [job EXCEPT ![p] = NoJob]
    /\ man' = [man EXCEPT ![p] = NewManifest]
    /\ seen' = [seen EXCEPT ![p] = NoFiles]
    /\ arc' = [arc EXCEPT ![p] = NewArchiver]
    /\ queue' = [queue EXCEPT ![p] = {}]
    /\ out' = [out EXCEPT ![p] = NoFiles]

Goto(p, l) == pc' = [pc EXCEPT ![p] = l]

(* A call that returned an error may still be running in the plugin. *)
MayLinger(call) ==
    \/ late' = late
    \/ /\ "late" \in Faults
       /\ Cardinality(late \cup {call}) <= MaxLate
       /\ late' = late \cup {call}

-----------------------------------------------------------------------------
(* Files change on the machine; during a command only with the edit fault. *)
Edit(x) ==
    /\ "edit" \in Faults \/ \A p \in Procs : pc[p] = "idle"
    /\ \E v \in (Versions \cup {None}) \ {disk[x]} : disk' = [disk EXCEPT ![x] = v]
    /\ UNCHANGED <<remote, chunkdata, purged, pc, local>>

(***************************************************************************)
(* A command starts.  runBackup and runRestore refuse an empty argument    *)
(* list; runDelete accepts one when --prefix is given.                     *)
(***************************************************************************)
Start(p) ==
    /\ pc[p] = "idle"
    /\ \E cmd \in Commands, args \in SUBSET Targets, prefix \in Prefixes :
          /\ cmd \in {"backup", "restore"} => args # {}
          /\ cmd = "delete" => args # {} \/ prefix # NoPrefix
          /\ cmd \in {"deleteAll", "restoreAll"} => args = {}
          /\ job' = [job EXCEPT ![p] = [cmd |-> cmd, args |-> args, prefix |-> prefix]]
    /\ Goto(p, "fetch")
    /\ UNCHANGED <<disk, remote, chunkdata, purged, man, seen, arc, queue, out>>

-----------------------------------------------------------------------------
(* manifest.DownloadAndDecrypt *)

AfterFetch(cmd) ==
    CASE cmd = "backup" -> "walk"
      [] cmd \in {"delete", "deleteAll"} -> "confirm"
      [] OTHER -> "select"

Fetched(p, m) ==
    /\ man' = [man EXCEPT ![p] = m]
    /\ Goto(p, AfterFetch(job[p].cmd))
    /\ UNCHANGED <<disk, remote, chunkdata, purged, job, seen, arc, queue, out>>

Fetch(p) ==
    /\ pc[p] = "fetch"
    /\ manifest \in Manifest
    /\ Fetched(p, manifest)

(* A manifest that does not decrypt is taken for an absent one. *)
FetchAbsent_OrTorn(p) ==
    /\ pc[p] = "fetch"
    /\ manifest \notin Manifest \/ "misread" \in Faults
    /\ Fetched(p, NewManifest)

(* Any error whose text contains "404" or "not found" counts as absence:    *)
(* the store has no manifest, or the error is one of another kind.          *)
FetchAbsent(p) ==
    /\ pc[p] = "fetch"
    /\ manifest = None \/ "misread" \in Faults
    /\ Fetched(p, NewManifest)

FetchFails(p) ==
    /\ pc[p] = "fetch"
    /\ "download" \in Faults \/ manifest = Corrupt
    /\ Exit(p)
    /\ UNCHANGED <<disk, remote, chunkdata, purged>>

-----------------------------------------------------------------------------
(* runBackup *)

(* The walk, the choice of what to archive, and the pruning of the copy.  A *)
(* walk that meets an error is logged, and what it had found is used.       *)
Walk(p) ==
    /\ pc[p] = "walk"
    /\ \E found \in SUBSET Walked(job[p].args) :
          LET now == [x \in Paths |-> IF x \in found THEN disk[x] ELSE None] IN
          /\ "walk" \notin Faults => found = Walked(job[p].args)
          /\ seen' = [seen EXCEPT ![p] = now]
          /\ arc' = [arc EXCEPT ![p].todo = Changed(man[p].files, now)]
          /\ man' = [man EXCEPT ![p].files = Pruned(man[p].files, now, job[p].args)]
    /\ Goto(p, "archive")
    /\ UNCHANGED <<disk, remote, chunkdata, purged, job, queue, out>>

(* No bytes of any file are counted in chunk c yet. *)
Unfilled(p, c) == content[c] = NoFiles /\ c \notin Active(arc[p].files)

(* AddFile, rollChunk: a new chunk when there is none, or, for a regular    *)
(* file, when the current one has reached the limit.                        *)
ChunkFor(p, x) ==
    IF arc[p].cur = None THEN Fresh
    ELSE IF x \in Links \/ Unfilled(p, arc[p].cur) THEN {arc[p].cur}
    ELSE {arc[p].cur} \cup Fresh

(* The chunk id is read before rollChunk replaces it. *)
Recorded_BeforeRoll(a, x, e) ==
    [a EXCEPT !.todo = @ \ {x}, !.cur = e.chunk, !.chunks = @ \cup {e.chunk},
              !.files[x] = [e EXCEPT !.chunk = IF a.cur = None THEN @ ELSE a.cur]]

Recorded(a, x, e) ==
    [a EXCEPT !.todo = @ \ {x}, !.cur = e.chunk, !.chunks = @ \cup {e.chunk},
              !.files[x] = e]

PassedOver(a, x, c, broken) ==
    [a EXCEPT !.todo = @ \ {x}, !.cur = c, !.chunks = @ \cup ({c} \ {None}),
              !.stuck = broken]

(* The bytes now on disk are those the walk's FileInfo announced. *)
Readable(p, x) ==
    /\ disk[x] # None
    /\ x \in Links \/ Size[disk[x]] = Size[seen[p][x]]

AddFile(p, x) ==
    /\ pc[p] = "archive"
    /\ x \in arc[p].todo
    /\ ~arc[p].stuck
    /\ Readable(p, x)
    /\ \E c \in ChunkFor(p, x) :
          /\ minted' = minted \cup {c}
          /\ content' = [content EXCEPT ![c][x] = disk[x]]
          /\ arc' = [arc EXCEPT ![p] = Recorded(@, x, EntryFor(x, seen[p][x], c))]
    /\ UNCHANGED <<disk, remote, purged, pc, job, man, seen, queue, out>>

(* A file that shrank just before a roll, or a link that vanished, is       *)
(* recorded although the chunk does not hold it.                            *)
AddFileShort(p, x) ==
    /\ pc[p] = "archive"
    /\ x \in arc[p].todo
    /\ ~arc[p].stuck
    /\ "shrink" \in Faults
    /\ \/ x \in Links /\ disk[x] = None
       \/ x \notin Links /\ disk[x] # None /\ Size[disk[x]] < Size[seen[p][x]]
    /\ \E c \in ChunkFor(p, x) :
          /\ minted' = minted \cup {c}
          /\ arc' = [arc EXCEPT ![p] = Recorded(@, x, EntryFor(x, seen[p][x], c))]
    /\ UNCHANGED <<disk, remote, content, purged, pc, job, man, seen, queue, out>>

(* The error is logged and the loop goes on.  A chunk may have been opened, *)
(* and a member left incomplete, after which nothing can be added.          *)
AddFileFails(p, x) ==
    /\ pc[p] = "archive"
    /\ x \in arc[p].todo
    /\ "addfile" \in Faults \/ arc[p].stuck \/ ~Readable(p, x)
    /\ \E c \in (IF arc[p].stuck THEN {arc[p].cur}
                  ELSE ChunkFor(p, x) \cup {arc[p].cur}),
          broken \in BOOLEAN :
          /\ arc[p].stuck => broken
          /\ broken => c # None
          /\ minted' = minted \cup ({c} \ {None})
          /\ arc' = [arc EXCEPT ![p] = PassedOver(@, x, c, broken)]
    /\ UNCHANGED <<disk, remote, content, purged, pc, job, man, seen, queue, out>>

(* NewArchiver, rollChunk for want of an identifier, or Finalize fails. *)
ArchiveAborts(p) ==
    /\ pc[p] = "archive"
    /\ \/ "archive" \in Faults
       \/ arc[p].stuck /\ arc[p].todo = {}
       \/ Fresh = {} /\ arc[p].todo # {}
    /\ Exit(p)
    /\ UNCHANGED <<disk, remote, chunkdata, purged>>

Finalize(p) ==
    /\ pc[p] = "archive"
    /\ arc[p].todo = {}
    /\ ~arc[p].stuck
    /\ queue' = [queue EXCEPT ![p] = arc[p].chunks]
    /\ Goto(p, "upload")
    /\ UNCHANGED <<disk, remote, chunkdata, purged, job, man, seen, arc, out>>

UploadChunk(p, c) ==
    /\ pc[p] = "upload"
    /\ c \in queue[p]
    /\ objects' = objects \cup {Key(p, c)}
    /\ man' = [man EXCEPT ![p] = Listing(@, c)]
    /\ queue' = [queue EXCEPT ![p] = @ \ {c}]
    /\ UNCHANGED <<disk, manifest, late, chunkdata, purged, pc, job, seen, arc, out>>

(* A failed upload is logged and the loop goes on. *)
UploadFails_LogOnly(p, c) ==
    /\ pc[p] = "upload"
    /\ c \in queue[p]
    /\ "upload" \in Faults
    /\ man' = [man EXCEPT ![p] = Listing(@, c)]
    /\ queue' = [queue EXCEPT ![p] = @ \ {c}]
    /\ UNCHANGED <<disk, remote, chunkdata, purged, pc, job, seen, arc, out>>

UploadFails(p, c) ==
    /\ pc[p] = "upload"
    /\ c \in queue[p]
    /\ "upload" \in Faults
    /\ \/ objects' = objects
       \/ objects' = objects \cup {Key(p, c)}
    /\ MayLinger([op |-> "put", key |-> Key(p, c)])
    /\ Exit(p)
    /\ UNCHANGED <<disk, manifest, chunkdata, purged>>

Merge(p) ==
    /\ pc[p] = "upload"
    /\ queue[p] = {}
    /\ LET m == [man[p] EXCEPT !.files = Merged(@, arc[p].files)] IN
          /\ man' = [man EXCEPT ![p] = m]
          /\ queue' = [queue EXCEPT ![p] = Orphans(m)]
    /\ Goto(p, "purge")
    /\ UNCHANGED <<disk, remote, chunkdata, purged, job, seen, arc, out>>

-----------------------------------------------------------------------------
(* runDelete *)

(* The user confirms, or --force is given. *)
Confirm(p) ==
    /\ pc[p] = "confirm"
    /\ LET gone == Selected(man[p].files, job[p])
           m == [man[p] EXCEPT !.files = Without(@, gone)] IN
          /\ gone # {} \/ job[p].cmd = "deleteAll"
          /\ man' = [man EXCEPT ![p] = m]
          /\ queue' = [queue EXCEPT ![p] = Orphans(m)]
    /\ Goto(p, "purge")
    /\ UNCHANGED <<disk, remote, chunkdata, purged, job, seen, arc, out>>

(* Nothing matches, or the user declines. *)
Decline(p) ==
    /\ pc[p] = "confirm"
    /\ Exit(p)
    /\ UNCHANGED <<disk, remote, chunkdata, purged>>

-----------------------------------------------------------------------------
(* deleteOrphanedChunks, then the manifest *)

PurgeChunk(p, c) ==
    /\ pc[p] = "purge"
    /\ c \in queue[p]
    /\ IdempotentDelete \/ Key(p, c) \in objects
    /\ objects' = objects \ {Key(p, c)}
    /\ purged' = purged \cup {c}
    /\ man' = [man EXCEPT ![p] = Unlisting(@, c, TRUE)]
    /\ queue' = [queue EXCEPT ![p] = @ \ {c}]
    /\ UNCHANGED <<disk, manifest, late, chunkdata, pc, job, seen, arc, out>>

(* The error is counted, the chunk stays listed and the loop goes on. *)
PurgeFails(p, c) ==
    /\ pc[p] = "purge"
    /\ c \in queue[p]
    /\ \/ "delete" \in Faults
       \/ ~IdempotentDelete /\ Key(p, c) \notin objects
    /\ MayLinger([op |-> "del", key |-> Key(p, c)])
    /\ purged' = purged \cup {c}
    /\ man' = [man EXCEPT ![p] = Unlisting(@, c, FALSE)]
    /\ queue' = [queue EXCEPT ![p] = @ \ {c}]
    /\ UNCHANGED <<disk, manifest, objects, chunkdata, pc, job, seen, arc, out>>

(* The manifest waits until no orphan is left. *)
Purged_AllGone(p) == pc[p] = "purge" /\ queue[p] = {} /\ Orphans(man[p]) = {}

Purged(p) == pc[p] = "purge" /\ queue[p] = {}

(* EncryptAndUpload on a store that replaces an object in one step... *)
Publish(p) ==
    /\ Purged(p)
    /\ job[p].cmd # "deleteAll"
    /\ AtomicPut
    /\ manifest' = man[p]
    /\ Exit(p)
    /\ UNCHANGED <<disk, objects, late, chunkdata, purged>>

(* ... and on one that truncates it and writes it again. *)
Truncate(p) ==
    /\ Purged(p)
    /\ job[p].cmd # "deleteAll"
    /\ ~AtomicPut
    /\ manifest' = Corrupt
    /\ Goto(p, "writing")
    /\ UNCHANGED <<disk, objects, late, chunkdata, purged, local>>

Overtaken(p) == \E q \in Procs \ {p} : pc[q] = "writing"

(* What is left when the writing ends: if another process wrote the file in *)
(* between, its bytes, ours or a mixture; if it is writing still, a hole    *)
(* where it has truncated ours; if it removed the file, nothing.            *)
Rewritten(p) ==
    CASE manifest = Corrupt -> {man[p]} \cup IF Overtaken(p) THEN {Corrupt} ELSE {}
      [] manifest = None -> {None}
      [] OTHER -> {man[p], manifest, Corrupt}

Rewrite(p) ==
    /\ pc[p] = "writing"
    /\ manifest' \in Rewritten(p)
    /\ Exit(p)
    /\ UNCHANGED <<disk, objects, late, chunkdata, purged>>

PublishFails(p) ==
    /\ \/ Purged(p) /\ job[p].cmd # "deleteAll"
       \/ pc[p] = "writing"
    /\ "publish" \in Faults
    /\ MayLinger([op |-> "manifest", value |-> man[p]])
    /\ Exit(p)
    /\ UNCHANGED <<disk, manifest, objects, chunkdata, purged>>

(* delete --all removes the manifest object and ignores the outcome. *)
DeleteManifest(p) ==
    /\ Purged(p)
    /\ job[p].cmd = "deleteAll"
    /\ \/ manifest' = None /\ late' = late
       \/ /\ "delete" \in Faults
          /\ manifest' = manifest
          /\ MayLinger([op |-> "manifest", value |-> None])
    /\ Exit(p)
    /\ UNCHANGED <<disk, objects, chunkdata, purged>>

-----------------------------------------------------------------------------
(* runRestore *)

Wanted(p) == Selected(man[p].files, job[p])

Select(p) ==
    /\ pc[p] = "select"
    /\ Wanted(p) # {}
    /\ queue' = [queue EXCEPT ![p] = {man[p].files[x].chunk : x \in Wanted(p)}]
    /\ Goto(p, "restore")
    /\ UNCHANGED <<disk, remote, chunkdata, purged, job, man, seen, arc, out>>

(* Or nothing has the prefix that --strip-prefix names. *)
NothingToRestore(p) ==
    /\ pc[p] = "select"
    /\ Exit(p)
    /\ UNCHANGED <<disk, remote, chunkdata, purged>>

(* The wanted files that chunk c holds. *)
Found(p, c) == {x \in Extracted(man[p].files, Wanted(p), c) : content[c][x] # None}

(* Extract has written the paths got out of chunk c. *)
Restored(p, c, got) ==
    /\ out' = [out EXCEPT ![p] = [x \in Paths |-> IF x \in got THEN content[c][x] ELSE @[x]]]
    /\ queue' = [queue EXCEPT ![p] = @ \ {c}]
    /\ UNCHANGED <<disk, remote, chunkdata, purged, pc, job, man, seen, arc>>

RestoreChunk(p, c) ==
    /\ pc[p] = "restore"
    /\ c \in queue[p]
    /\ Key(p, c) \in objects
    /\ Restored(p, c, Found(p, c))

(* Extract stops at a member it cannot write: what it wrote before stays,   *)
(* the error is logged, and the loop goes on.                               *)
RestoreChunkPartly(p, c) ==
    /\ pc[p] = "restore"
    /\ c \in queue[p]
    /\ "extract" \in Faults
    /\ Key(p, c) \in objects
    /\ \E got \in SUBSET Found(p, c) : Restored(p, c, got)

(* A chunk that cannot be fetched is logged and passed over. *)
RestoreChunkFails(p, c) ==
    /\ pc[p] = "restore"
    /\ c \in queue[p]
    /\ "download" \in Faults \/ Key(p, c) \notin objects
    /\ queue' = [queue EXCEPT ![p] = @ \ {c}]
    /\ UNCHANGED <<disk, remote, chunkdata, purged, pc, job, man, seen, arc, out>>

RestoreDone(p) ==
    /\ pc[p] = "restore"
    /\ queue[p] = {}
    /\ Exit(p)
    /\ UNCHANGED <<disk, remote, chunkdata, purged>>

-----------------------------------------------------------------------------
(* Failures outside any command *)

Crash(p) ==
    /\ pc[p] # "idle"
    /\ "crash" \in Faults
    /\ Exit(p)
    /\ UNCHANGED <<disk, remote, chunkdata, purged>>

(* Where the manifest is written in place, the plugin may be killed amid    *)
(* the writing, or write beside another.                                    *)
Landed(m) == {m} \cup IF AtomicPut \/ m = None THEN {} ELSE {Corrupt}

(* The plugin carries out a call its caller has given up... *)
LateCall(call) ==
    /\ call \in late
    /\ late' = late \ {call}
    /\ CASE call.op = "put" ->
               objects' = objects \cup {call.key} /\ manifest' = manifest
         [] call.op = "del" ->
               objects' = objects \ {call.key} /\ manifest' = manifest
         [] call.op = "manifest" ->
               objects' = objects /\ manifest' \in Landed(call.value)
    /\ UNCHANGED <<disk, chunkdata, purged, pc, local>>

(* ... or is killed before it does. *)
LateCallLost(call) ==
    /\ call \in late
    /\ late' = late \ {call}
    /\ UNCHANGED <<disk, manifest, objects, chunkdata, purged, pc, local>>

-----------------------------------------------------------------------------
Download(p) == Fetch(p) \/ FetchAbsent(p) \/ FetchFails(p)

Archive(p) ==
    \/ \E x \in Paths : AddFile(p, x) \/ AddFileShort(p, x) \/ AddFileFails(p, x)
    \/ ArchiveAborts(p)
    \/ Finalize(p)

Upload(p) ==
    \/ \E c \in ChunkIds : UploadChunk(p, c) \/ UploadFails(p, c)
    \/ Merge(p)

Delete(p) == Confirm(p) \/ Decline(p)

Purge(p) == \E c \in ChunkIds : PurgeChunk(p, c) \/ PurgeFails(p, c)

Store(p) ==
    Publish(p) \/ Truncate(p) \/ Rewrite(p) \/ PublishFails(p) \/ DeleteManifest(p)

Restore(p) ==
    \/ Select(p)
    \/ NothingToRestore(p)
    \/ \E c \in ChunkIds :
          RestoreChunk(p, c) \/ RestoreChunkPartly(p, c) \/ RestoreChunkFails(p, c)
    \/ RestoreDone(p)

(* The next step of a command that has started. *)
Run(p) == Download(p) \/ Walk(p) \/ Archive(p) \/ Upload(p) \/ Delete(p)
              \/ Purge(p) \/ Store(p) \/ Restore(p)

Next ==
    \/ \E x \in Paths : Edit(x)
    \/ \E p \in Procs : Start(p) \/ Run(p) \/ Crash(p)
    \/ \E call \in late : LateCall(call) \/ LateCallLost(call)

Spec == Init /\ [][Next]_vars

(* Every remote call has a deadline and every loop goes on, so a command    *)
(* that has started takes its next step; nothing makes one start.           *)
FairSpec == Spec /\ \A p \in Procs : WF_vars(Run(p))

-----------------------------------------------------------------------------
(* Safety, whatever fails and however many commands overlap *)

Stored == manifest \in Manifest

(***************************************************************************)
(* The stored manifest never refers to a chunk it does not list: the merge *)
(* adds a file only after its chunk was listed, and deleteOrphanedChunks   *)
(* unlists only chunks that no file refers to.                             *)
(***************************************************************************)
ManifestClosed == Stored => Active(manifest.files) \subseteq manifest.chunks

(* A stored entry names a chunk that was written with that file in it. *)
EntryBacked ==
    Stored => \A x \in Listed(manifest.files) : content[manifest.files[x].chunk][x] # None

(***************************************************************************)
(* A chunk is uploaded before a manifest that lists it is: if its object   *)
(* is missing, then because some command asked to delete it.               *)
(***************************************************************************)
UploadedBeforePublished ==
    Stored => \A c \in manifest.chunks : c \in purged \/ \E q \in Prefixes : <<q, c>> \in objects

(* What the archive says of a path. *)
StoredVersion(files, x) == IF files[x] = None THEN None ELSE content[files[x].chunk][x]

(***************************************************************************)
(* A restore writes only files it was asked for, each with the bytes its   *)
(* manifest refers to, never those an older chunk still holds of the path. *)
(***************************************************************************)
RestoreFaithful ==
    \A p \in Procs, x \in Paths :
        out[p][x] # None =>
            /\ x \in Wanted(p)
            /\ out[p][x] = StoredVersion(man[p].files, x)

-----------------------------------------------------------------------------
(* Between commands, when they do not overlap and are not cut short *)

Quiet == \A p \in Procs : pc[p] = "idle"

(* Every file the stored manifest lists can be fetched. *)
Restorable ==
    Quiet /\ Stored => \A x \in Listed(manifest.files) :
        \E q \in Prefixes : <<q, manifest.files[x].chunk>> \in objects

(* Every object in the store is listed, so that a later purge can find it. *)
NothingLeaked ==
    Quiet => \A k \in objects : Stored /\ k[2] \in manifest.chunks

(***************************************************************************)
(* A chunk outlives the last file that needs it only if the store refused  *)
(* to delete it, however its files have left: edited one after the other,  *)
(* vanished, or deleted by several commands.                               *)
(***************************************************************************)
NoDeadChunks ==
    Quiet /\ Stored => manifest.chunks \subseteq Active(manifest.files) \cup purged

(***************************************************************************)
(* Backup archives exactly the new and the modified files (main.go:875):   *)
(* those of which the store does not hold the present bytes.               *)
(***************************************************************************)
DetectsChanges ==
    [][\A p \in Procs : Walk(p) =>
          arc'[p].todo = {x \in Paths : /\ seen'[p][x] # None
                                        /\ seen'[p][x] # StoredVersion(man[p].files, x)}]_vars

(* A restore that reaches its end has written every file it was asked for. *)
RestoreComplete ==
    [][\A p \in Procs : RestoreDone(p) =>
          \A x \in Wanted(p) : out[p][x] = StoredVersion(man[p].files, x)]_vars

(***************************************************************************)
(* A manifest torn by a crash in the middle of a store stays as it is, for *)
(* somebody to repair: no later command takes it for absent and starts     *)
(* anew, which would forget every earlier backup.  (With the misread fault *)
(* one may.)                                                               *)
(***************************************************************************)
TornKept ==
    [](Quiet /\ late = {} /\ manifest = Corrupt => [](manifest = Corrupt))

(* A command that has started ends. *)
Terminates == \A p \in Procs : pc[p] # "idle" ~> pc[p] = "idle"

-----------------------------------------------------------------------------
(* Refinement *)

(***************************************************************************)
(* The stored manifest, read through the chunks it refers to, is a         *)
(* catalogue: a backup is one atomic snapshot of what lies below its       *)
(* arguments, however many steps it takes and whichever of them fail.      *)
(***************************************************************************)
saved == [x \in Paths |-> IF Stored THEN StoredVersion(manifest.files, x) ELSE None]
Snapshot == INSTANCE Catalogue WITH Skips <- "addfile" \in Faults
ImplementsCatalogue == Snapshot!Spec

-----------------------------------------------------------------------------
(* What the documentation and the comments say, and some execution refutes *)

(* README.md:76: the backup state is tracked in the remote manifest: what   *)
(* a backup has just recorded of the files it was given can be restored.    *)
BackupRestorable ==
    [][\A p \in Procs : Publish(p) /\ job[p].cmd = "backup" =>
          \A x \in Walked(job[p].args) \cap Listed(manifest'.files) :
              \E q \in Prefixes : <<q, manifest'.files[x].chunk>> \in objects]_vars

(* main.go:884: a backup drops only "files that no longer exist on disk".   *)
DropsOnlyVanished ==
    [][\A p \in Procs : Publish(p) /\ job[p].cmd = "backup" /\ Stored =>
          \A x \in Listed(manifest.files) \ Listed(manifest'.files) : disk[x] = None]_vars

=============================================================================
