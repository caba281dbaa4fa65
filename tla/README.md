# A model of secure-backup

`secure-backup` archives files into `tar.bz2` chunks, encrypts each chunk and
uploads it through a storage plugin. Which chunk holds which file is recorded in
one encrypted object, the manifest. This directory holds TLA+ models of the
program, the TLC configurations that check them on small instances, and proofs,
checked by TLAPS, of the properties that matter most.

Line numbers below are those of `src/main.go`, unless another file is named.

## 1. The system

| Component | State | Operations | Talks to |
|---|---|---|---|
| commands (`main.go`) | a copy `m` of the manifest, `currentFiles`, `changedPaths`, a chunk loop; all lost when the process ends | `runBackup` 832, `runRestore` 984, `runDelete` 1112, `deleteOrphanedChunks` 1199, `runList` | archiver, manifest, encrypt; the store through a plugin process |
| archiver (`pkg/archive`) | the tar writer, the chunk file, its size, `Chunks`, `Files` | `NewArchiver`, `rollChunk`, `AddFile`, `Finalize`; `Extract` for restores | the disk |
| manifest (`pkg/manifest`) | the remote object `manifest.json.enc`: `Files` (path to size, time, chunk) and `Chunks` | `NewManifest`, `DownloadAndDecrypt`, `EncryptAndUpload` | encrypt, the store |
| encrypt (`pkg/encrypt`) | none; cost parameters from the environment | `EncryptData`, `DecryptData` | |
| plugin transport (`pkg/plugins`) | none; a deadline for each call | one gRPC method per operation of `Provider` | a plugin process |
| storage plugins | local: none; aws-s3: a client; backblaze: a bucket; google-drive: `dirCache` under `cacheMutex`, `latestToken` | `Init`, `UploadFile`, `DownloadFile`, `DeleteFile`, `ListFiles` (called by no command), `GetUpdatedConfig` | the remote service |
| plugin start (`findPlugin`, `initPlugin` 654) | the plugin processes, `originalCreds`, the token file | find, verify, start, `Init`, write credentials back, kill | plugins, key files, key server |
| credential plugins | none | `GetCredentials`, `SetCredentials` | one external command per call |

The program takes no lock, neither locally nor on the store: two runs against
one store interleave at every remote call. What is hard about it:

- **Several objects, no transaction.** A backup uploads chunks, deletes orphaned
  chunks, and stores the manifest, in this order. A crash or an error can come
  between any two of these steps.
- **Calls that time out.** The client gives up a call after its deadline
  (`grpc.go` 26); the handler in the plugin does not look at the context and goes on,
  so that a call may take effect after later ones.
- **Incremental state.** A backup trusts what the manifest says of size and time,
  and prunes what its walk did not meet; the manifest is shared by all targets and
  prefixes.
- **A chunk holds several files**, and old versions of files whose newest version
  is in another chunk; it must live until the last file leaves it.
- **Files change while they are archived.** The tar header announces the size the
  walk saw.
- **Runs share more than the store**: the credential item, the Google Drive token
  file and the port of the browser callback; and a plugin goes on when its command
  has given up on it.
- **A restore writes into a directory that is already there**: an older restore, links,
  files in the way; and a chunk is unpacked until the first member that cannot be.
- **Plugins are rebuilt and signed in place** while another run looks for them, reading
  the signature and the binary one after the other.
- **Google Drive has no paths.** A path is a chain of folders, found or made by
  separate requests, and names are not unique.

Correctness, by component:

- commands and manifest: the manifest never refers to a chunk it does not list; a
  chunk it lists is missing only if a command asked for its deletion; every entry
  is a member of its chunk; a restore writes exactly what it was asked for; no
  object escapes the manifest; backups and deletes implement an atomic map from
  paths to contents; exactly the changed files are archived; every command ends;
- archiver: an accepted archive holds what it records, or records a file that
  shrank; chunks are filled before they are left;
- restore: what was archived comes back, or its chunk is reported as failed; nothing
  else in the destination changes, nor anything that a link there leads to;
- encrypt: an object opens whatever the environment has become, and only with its
  password and all its bytes;
- plugins: a call that succeeded took effect once or several times, one that
  failed perhaps; every call returns;
- finding plugins: a bad candidate does not hide a good one; what is found was verified
  with its own signature; the search ends;
- plugin start: a token once obtained is found by later runs, unless its plugin is
  killed while it writes the file; the other strings that the user keeps in the
  credential item survive the write-back; the callback port is freed; an
  authorization ends.

## 2. The modules

| Module | What it is |
|---|---|
| `Catalogue` | abstract specification of the commands: a map from paths to the version saved, changed in one step |
| `SecureBackup` | the commands against one store, every remote call a step |
| `MCSecureBackup`, `MCConcurrent` | small instances of it |
| `SecureBackupProofs`, `CatalogueProofs` | theorems about `SecureBackup`, and that it implements `Catalogue` |
| `Archiver` | `archive.Archiver`, the tar writer and the chunk file; shown to implement the archiving steps of `SecureBackup` |
| `Extract` | `runRestore` and `archive.Extract`, member by member, with the destination directory; shown to implement the restore steps of `SecureBackup` |
| `RoundTrip`, `MCRoundTrip` | `Archiver` and then `Extract` on what it left: a backup and its restore |
| `RoundTripProofs` | theorems about `Archiver`, `Extract` and both together, and that they implement their steps of `SecureBackup` |
| `Encrypt`, `EncryptProofs` | the format of an encrypted object, and the theorem about it |
| `ObjectStore` | abstract specification of a storage plugin: a map from remote paths to objects, with calls that overlap and fail |
| `DriveStore`, `MCDriveStore` | the Google Drive plugin, shown to implement `ObjectStore` |
| `DriveStoreProofs` | theorems about its folders and its cache, and the proof that it does |
| `BlobStores`, `MCBlobStores` | the local, aws-s3 and backblaze plugins, shown to implement `ObjectStore` |
| `BlobStoresProofs` | the proof that they do |
| `FindPlugin`, `MCFindPlugin` | the search for a signed plugin while plugins are built, signed and removed |
| `FindPluginProofs` | theorems about `FindPlugin` |
| `PluginSession`, `MCPluginSession` | `initPlugin`, the credentials, and the authorization and tokens of the Google Drive plugin |
| `PluginSessionProofs` | theorems about `PluginSession` |

A definition with an underscore in its name (`Orphans_Eager`) is a plausible wrong
version of the one before the underscore (`Orphans`). None is used by a
specification; each property is violated when one of them takes its original's
place, which `PROJECT.json` lists under `mutants`.

### SecureBackup

A process is one run of the program. `pc` says where it is:

    backup   idle -> fetch -> walk -> archive -> upload -> purge [-> writing] -> idle
    delete   idle -> fetch -> confirm -> purge [-> writing] -> idle
    restore  idle -> fetch -> select -> restore -> idle

| Variable | Code |
|---|---|
| `manifest`, `objects` | the remote manifest object; the chunk objects, named by prefix and id |
| `content` | what the tar of a chunk holds; written once per chunk, so it is not a remote state of its own |
| `man` | the local `m` |
| `seen` | `currentFiles` |
| `arc` | the archiver and `changedPaths`: `todo`, current chunk, `Chunks`, `Files`, and `stuck` when a member was left incomplete |
| `queue` | what the running chunk loop has left |
| `out` | what a restore has written |
| `late` | calls whose client gave up but whose handler runs |
| `minted`, `purged` | the ids `uuid.New` has returned; a history of the deletions asked for |

Choices of abstraction:

- A file's bytes, size and time are one *version*. `Size` and `MTime` say what
  `Lstat` shows of it; two versions may agree in time, as edits within a second do.
- A chunk loop over a slice without duplicates runs over a set in any order.
- Archiving a file is one step (`AddFile`, `AddFileShort`, `AddFileFails`). That these
  are all the outcomes is what `Archiver` shows.
- `Targets` are command-line arguments. `Under[t]` is what a walk of `t` can meet,
  `Prefixed[t]` the paths of which the string `t` is a prefix, as at 888 and 1134. The code uses
  the one to collect and the other to prune; where they differ, siblings are lost
  (section 6).
- The branch of `runBackup` without changed files (896) is the path with an empty
  `todo`: it has the same effect.
- The answer of the user at the prompt of `delete` is `Confirm` or `Decline`.
- Directories are left out: as entries they carry no contents.
- Encryption and compression are faithful containers (`Encrypt` is about the former).

The failures are those of `FaultKinds`, each enabled by its name in `Faults`: a crash
at any step; an error of a download, an upload, a deletion, or of storing the manifest,
with or without effect; a call that takes effect after its caller gave up, or, where the manifest is
written in place, half of it (`Landed`); two processes that write it in place at once, which may leave
either manifest, a mixture or a hole (`Rewritten`); an
error whose text looks like "not found" (`manifest.go` 57); a walk that stops
early; an archiver that fails on a file, or altogether; a file that shrinks or
changes while the command runs; a chunk of which only some of the wanted members can be
unpacked (`RestoreChunkPartly`).

### Archiver

`Archiver` models `archive/tar`'s writer as `archive.go` uses it: a header first
completes the member before it, `Close` reports an incomplete member once, and then
refuses. With it, `rollChunk` (136) has the outcomes *closed and opened*, *refused*
and *closed but not created*, and `AddFile` (256) those for a regular file, a link, a
special file, a file that cannot be opened after its header was written, and a
file that shrank, grew or was replaced since the walk. `ImplementsArchive` maps it to
`Archive` of `SecureBackup` for one process: `a.pending` or a closed writer is
`arc.stuck`.

### Extract, RoundTrip

`Extract` starts where the archiver ended: `tar` is what the chunks hold, `files` the
manifest. `Start` and `Select` are the two loops of `runRestore` (1015, 1051), `Open` and
`OpenFails` its loop over the chunks, and each turn of the loop of `Extract`
(`archive.go` 350) is one of `Pass`, `Refuse`, `Write` and their failures. A member that is
cut short is the last one that can be read.

| Variable | Code |
|---|---|
| `names`, `strip` | the names in the manifest; `--strip-prefix` |
| `wanted`, `queue` | `chunksToDownload`: the paths, and the chunks the loop has left |
| `before`, `dest` | a history of what the destination held; what it holds: directories, files, links |
| `reading`, `unread` | the chunk in `Extract`, the members `tr.Next` has not returned |
| `got`, `failed` | a history of the paths restored; the chunks logged as failed |

A name is a sequence of separators and words, so that prefixes, directories and links are what
they are in the code: `docs` is a prefix of `docs-old/x` (`<<"docs", "-old", "/", "x">>`) without being a directory
above it. `LinkTo` says what a link points to; a link that could not be read has its own base
name as target (`AddFile` takes it from `tar.FileInfoHeader`). Opening a file follows links, and so does the
model (`Followed`): that no write goes through one is a property (`OnlyWanted`), not a
premise. The names come from `filepath.Walk` and are clean. File modes are left out.

`ImplementsRestore` maps a restore to `Restore` of `SecureBackup`: a chunk is one step there,
with the outcomes *all*, *some of the members*, *none*.

### Encrypt

An object is its KDF, cost parameters, password, plaintext and length. `env` is
what the environment asks for, and changes between runs of the program.
`EncryptData` writes parameters as `getenvUint` yields them, in the widths of the
header; `DecryptData` slices off field after field. What each slice reaches (`Ends`) and
what the check before it asks for (`Checked`) are separate definitions, so that a missing check
shows as a `"panic"`. It refuses costs above its limits, and opens with the parameters of
the header. Truncation models a transfer that was cut short.
Altered bytes are not modelled: AES-GCM is external, a key is what it is derived from.

### ObjectStore, DriveStore, BlobStores

`ObjectStore` is the contract a storage plugin keeps. A call that returns
without an error took effect between its start and its end; one that returns an error
may have, once or several times; a download answers with what the path held at
some moment of the call, and `NotFound` only if it held nothing then. Two constants say
what a store does not promise: on paths `InPlace` an upload tears the object until
it is complete (and, while it is alone, not after), and changes that overlap, and downloads beside changes that overlap, promise nothing (such calls are
not `alone`); on paths `Versioned` an upload adds a
version and a deletion removes only one. `SuccessLasts` says what the commands build on when they go from one step to the next: a
successful upload that was alone left its object where a download finds it, a successful deletion left none unless the path is versioned.

`DriveStore` is the Google Drive plugin after `Init`:
concurrent handlers, the chain of folders, `dirCache` under `cacheMutex`, separate
requests to look for and to make a folder or a file, retries, and requests that
take effect but return an error. A command never has two calls on the same path
at once; `Start` says so. What a path holds, following the folders, is the `store`
of `ObjectStore`, and none of its paths is in place or versioned.

`BlobStores` has the other three plugins on one set of paths, `Kind[x]` saying which
serves path `x`. They keep no state between calls, so a handler stands for one in
any plugin process, and handlers overlap on one path.

| Variable | Code |
|---|---|
| `disk`, `data` | local: the directory entries, and the blocks of each file; open files outlive `os.Remove` |
| `bucket` | aws-s3: at most one version per path; backblaze: all of them |
| `pc`, `calls` | where a handler is; its request, and what happened to its path since it began |
| `tries`, `handle`, `got` | the loop counter `i`; the open file, or the version `obj.Delete` found; the blocks `io.Copy` has copied |

The local paths are `InPlace`, those on backblaze `Versioned`. `SecureBackup` abstracts
the stores to two constants: `AtomicPut` is FALSE for the local plugin, and
`IdempotentDelete` for backblaze, where deleting an absent object is an error. Errors that
backblaze takes for an absent object because of their text are the fault `misread` of
`SecureBackup`, and not in `BlobStores`.

### FindPlugin

`findPlugin` (140) tries the places of `Order` one after the other; of a place it looks at the
path, the file, the signature, the binary and the `.pub` file, each in a step of its own, and
`continue` is `Skip`. A candidate has a *standing* (what `Lstat` shows of it and of the directories above it), a
binary, a signature and perhaps a public key. Beside the search, plugins are rebuilt (`Build`: truncated,
then written), signed (`ReadToSign`, `Sign`: `security-tool` reads the binary and later writes
the signature, and `make -j` may sign what is being built) and removed. A keyring that fails has no keys; a keyserver that
fails confirms none. Signatures are ideal: one is of a key and a build.

### PluginSession

One run of the program and its Google Drive plugin, several runs at a time.

    run      idle -> fetch [-> write] -> start -> init -> work [-> sync] -> kill -> done
             and at any point fatal, or aborted once calls may be running
    plugin   none -> load [-> select -> shutdown -> exchange -> save] -> folder -> ready | failed
             ready -> killed

| Variable | Code |
|---|---|
| `config` | `--cred-plugin`, `--plugin-opt token_path`, whether token files can be written |
| `vault` | the credential item: its token, whether it has the client id and secret, the other strings in it (`text`, a counter of edits), and whether it holds values that are no strings (`rest`) |
| `file` | the token files, the default one and the one of `token_path`; `Torn` between truncation and writing |
| `run` | `originalCreds`, `tokenPath`, and how far `initPlugin` is |
| `plug` | the plugin process: `opts` (the token in `config`), `path`, `latest` (`latestToken`), `current` (the token of `src`), `last` (`lastToken`) |
| `auth` | `getInteractiveToken`: listener, callback handlers, pasted code, the result of `select` |
| `held` | handlers in `savingTokenSource.Token`; what a killed one was writing stays as a history |
| `issued`, `edits` | the newest token of Google; a history of the user's edits |

The function that `initPlugin` returns is three steps: `GetUpdatedConfig` compares what the plugin
knows with `originalCreds`, `SetCredentials` replaces the item by the merged map, and `Kill` ends the
plugin. None waits for handlers: those of a `DeleteFile` or `DownloadFile` whose deadline has passed
may be anywhere, also between the truncation of the token file and the write. The credential
plugins return only the values that are JSON strings (`Strings`), so `SetCredentials` erases
the others.

`Fatal` is `log.Fatalf` or an interrupt, which run no deferred call: the plugin goes on with its
calls, and `getInteractiveToken` with it. Its listener and the timer are part of the model, the
five minutes are not: the timer may win at any time. With another storage plugin
`initPlugin` keeps no state.

## 3. The runs

| Run | Question | Bounds |
|---|---|---|
| `Sequential` | one command at a time: atomic catalogue, everything fetchable, nothing leaked, no dead chunk stays, change detection, complete restores | 2 files, an argument above both and one above the second, 3 chunk ids |
| `Concurrent` | two commands at a time, two prefixes, crashes, failing and late calls, misread errors, a store that may truncate before it writes and fail to delete what is absent: entries are backed, chunks come before manifests, restores are faithful | 2 processes, 3 commands in all (`MaxRuns`), 2 chunk ids, 1 late call |
| `Progress` | a file changes while backups run, walks stop early, any call fails, a manifest is torn: the manifest stays closed, a torn one is kept, commands end | 1 process, 1 file, 2 chunk ids, 1 late call |
| `SiblingDropped`, `CrashUnrestorable` | two statements of the documentation that some execution refutes (section 6) | 1 process |
| `RoundTrip` | what was archived comes back or is reported, nothing else is touched, every outcome of archiver and restore is one `SecureBackup` has | 2 files, a link, a pipe; limit 2; 1 change; 11 restores (names, arguments, prefix to strip, destination) |
| `Drive` | overlapping handlers, retries: folders unique, cache sound, contract kept, calls return | 2 handlers, nested folders, 4 items, 2 attempts |
| `Encrypt` | objects open exactly when they should, parameters fit the header, no cut object makes it panic | 5 settings per variable, cuts at every header field |
| `Stores` | overlapping handlers of local, aws-s3 and backblaze: contract kept, what a successful call did lasts | 2 handlers, a path of each kind, contents of 1 and 2 blocks, 3 attempts, 2 versions |
| `Plugins` | the search ends, hides no good candidate and verifies what it finds | 3 directories, one searched twice; 2 builds, 2 keys, 3 changes |
| `Session` | tokens are remembered, the strings of the item are kept, the port is freed | 2 runs, 1 handler and 1 callback each, 2 tokens, 1 edit |
| `AuthorizationHangs` | an authorization ends: refuted (section 6) | 1 run, 2 callbacks |

Two files, two versions and two or three chunk ids are enough for what can go wrong
here: a chunk shared by two files of which one is replaced, deleted or
unreadable; a new chunk beside an old one; a manifest published between two
steps of another process. Three ids let a file move twice. Running out of ids is an
`ArchiveAborts`, so that small runs end their backups as a full disk would. Chunk ids are
interchangeable (symmetry), and so are processes; files are where every argument is
above both, and elsewhere not, because arguments name them.
`MaxLate`, `MaxEdits`, `MaxTokens`, `MaxVersions`, `ChunkIds` and `Ids` are the bounds that keep the state space finite.
In `Drive`, `Retries` is 2 where the code has 3: the second attempt is the last one.
In `Stores`, a content of one block and one of two tell a short file from a complete
one, and an overlap of a long and a short upload from either; three `Ids` are a file or
version for each handler and one for the rest. A download beside two changes that overlap
takes a third handler, which the run does not have; the proof covers it (section 4). In `Session`, two
runs suffice for one that is cut short or still authorizing beside one that works; two
tokens are one that is obtained and one that replaces it. It has one handler per
plugin, because the calls of one command follow each other: it is at work, or it is left of a call
that timed out. `Init` has items without a token, with one, with and without a client id, and
with values that are no strings.
`MaxUint32` stands for 2^32 - 1, which TLC cannot represent; the settings lie
on both sides of every limit below it.

In `Concurrent`, `MaxRuns` bounds the commands: three let a backup build on one that was cut
short while a second command runs beside it. In `Progress` the store truncates before it writes, and there is one file, with two versions, so
that every failure fits in one check of liveness; files that share a chunk are in the other runs. The
restores of `RoundTrip` are chosen one by one, because names, prefixes and what the destination
holds interact: siblings with a common string prefix, a link with the name of a
directory, two files that are stripped to one name, absolute names; a destination that is empty, or
holds an older restore, links out of it, or a file where a directory should be.
In `Plugins`, three changes are a rebuild (truncate, write) and one more, or a signature
that is replaced after its binary.

`RoundTrip` does not check for deadlock: a restore ends once. Nor do `Concurrent`, whose commands
are bounded, `Plugins`, whose search ends, and `Session` and `AuthorizationHangs`, where each run ends once.

**Fairness.** `SecureBackup`: weak fairness of `Run(p)`: every remote call has a
deadline (`grpc.go` 26), every loop goes on or ends after a failure, and the only wait,
for the user's answer, is assumed to end. No fairness makes commands start or files change. `DriveStore`:
weak fairness of each handler's steps, because the requests return or fail, and
strong fairness of taking `cacheMutex`: Go's `sync.RWMutex` does not starve a
waiter while other handlers take and release it. `PluginSession`: weak fairness of each plugin's
own steps, which are requests that end and a `select` with a timer; none of the user, the
browser, its handlers or the command. `FindPlugin`: weak fairness of the search. It reads files; the
keyserver has five seconds (571); the keyrings (`ssh-agent`, `gpg`, `secret-tool`, `security`) have no deadline, and
that they answer is an assumption. `BlobStores` and `RoundTrip` state no liveness.

## 4. The proofs

Every property that a run expects to hold is proved for all values of the constants, except those named at the end of
this section. The assumptions are the named `ASSUME`s of each module. They say that the constants have
their types, that the markers (`None`, `Corrupt`, `Torn`, ...) are not values of the program, that limits and numbers of
attempts are positive, and that the names of a restore are different and its paths in `Places`. `ChunkIds`, `Procs`,
`Paths`, `Calls`, `Faults` and the others are arbitrary. Where a property is checked in a run with fewer
faults or processes because it fails with more, its theorem has the same hypothesis, stated in its `ASSUME`.

**`SecureBackupProofs`**: whatever fails, and however many commands overlap.

- `TypeCorrect`. `TypeOK` is not inductive alone: the entry that `AddFile` makes is typed
  only if the walk saw the file. `TypeInv` adds `TodoSeen`.
- `ManifestAlwaysClosed`, `ChunksUploadedFirst`, `EntriesAlwaysBacked`: one inductive invariant,
  `SafetyInv == TypeInv /\ StoreGood /\ LateGood /\ \A p : ProcGood(p)`.
  `Good(m)` says what a stored manifest must satisfy. Why the rest is needed: a manifest
  that is stored was first some process's copy (`ProcGood`, which says by `pc` how far
  the copy may be trusted: during the archiving its new entries are
  in `arc.files`, during the uploads each chunk is listed or still queued, during the
  purge an orphan in the queue is referred to by no file), or the value of a call that lands late
  (`LateGood`). A step of one process keeps `Good` for the copies of
  all others because chunks are only added to `content`, and an object only disappears
  after its id entered `purged` (`Kept`).
  `EntriesAlwaysBacked` assumes `"shrink" \notin Faults`: a file that shrinks just
  before a roll, or a link that vanishes, is recorded without its bytes (section 6).
- `ChunksNeverDead`. In every copy, and in the manifests that land late, a chunk is needed, or its deletion was asked for,
  or, in a purge, it is in the queue (`TidyInv`).
- `TornAlwaysKept` assumes `"misread" \notin Faults`: an error taken for an absent manifest replaces a torn one.

**`CatalogueProofs`**: what the archive is for who uses it.

- `RestoreAlwaysFaithful`, without hypotheses. A restore compares bytes written in one
  state with its manifest in a later one, so the members of a chunk must not change:
  `RestoreInv` says that ids not drawn are empty (`FreshEmpty`), that a chunk being written belongs to one
  process and is in no manifest yet (`CurOwned`), and therefore that what has
  been written stays (`Frozen`).
- `AlwaysRestorable`, for one process (`Alone`) that is not cut short (`Uncut`: no crash, no failure to store the manifest,
  and no `delete --all` that is refused a deletion). `SpareInv`: no copy refers to a chunk whose deletion was
  asked for (`Spared`), and a chunk being archived was drawn after every purge.
- `RestoreAlwaysComplete`, in addition with one prefix and without failing downloads and extractions. Each wanted file
  is written, or its chunk is still in the queue (`Whole`).
- `NothingEverLeaked`, where nothing is cut short, no upload fails and no error is misread, and there is one prefix, or deleting an absent
  object fails and `delete --all` is not used (`Accounted`). `ListedInv` follows the objects through a command: they are listed by the
  manifest or the copy, and not among the chunks still to upload.
- `AlwaysDetectsChanges`, for any number of processes and failures. It needs versions that differ in size or
  time, no links and no change during a backup (`Distinct`; the code misses changes otherwise). `AccurateInv`: an entry has the size
  and time of the member it refers to, in every copy and every late manifest.
- `CatalogueImplemented`: for one process, `SecureBackup` implements `Catalogue`, with crashes and any failing calls. `Orderly`
  excludes what makes it false: a call that lands late, an error taken for an absent manifest, a walk that stops early, arguments that
  prune what they do not walk, and a store that tears the manifest. `OrderlyInv` says at each `pc` what the copy
  will make of the archive when it is stored (`BackupUnderWay`, `BackupMade`, `DeleteMade`); that step maps to the one of
  `Catalogue`, all others to a stutter.

**`RoundTripProofs`**: the archiver and the restore, for any limit, any edits, names and destinations.

- `TypesCorrect`, `AlwaysRecordedComplete`, `AlwaysCutByShrinking`. `Kept`: what is recorded of a file that
  did not change is in its chunk. `Cut`: a torn member was recorded of a file that shrank, or it is pending in a chunk that is
  not full, so that `Finalize` is going to report it.
- `ChunksAlwaysFilled`. `FillInv`: the running size is what the chunk weighs as long as no member of it was cut short, and never
  more (`Counting`); only the current chunk may be short of the limit, and a chunk that reached it has a file without which it
  had not (`Filling`). What a chunk weighs is a fold over a set. That a sum over a finite set exists, is unique, a natural number,
  and grows by a member's size when the member is added (`BytesWith`) are inductions on the cardinality of the set, done on sets of
  naturals since no induction theorem with an operator parameter can be used.
- `AlwaysOnlyWanted`, `DamageAlwaysReported`, `EverythingComesBack`. `RestoreInv` ties a restore to the archiver's
  chunks. `ComesInv`: a wanted file is in place, or its chunk is reported, in the queue or being read (`Back`). Two lemmas about paths carry
  the argument: no target is a directory above itself (`NotAbove`), and making parents changes only directories
  that are missing.
- `ArchiveImplemented`, `RestoreImplemented`: each step of archiver and restore is one of `SecureBackup`, or changes
  nothing it sees. That rolling is refused only as `AddFileShort` allows needs `Sound`: only a chunk with a recorded file can be full, and one
  that is full and cannot be closed has a recorded file cut short. The restore needs `Once`: no chunk is read twice.

**`DriveStoreProofs`**.

- `FoldersStayUnique`. A folder is looked for by one request and made by another.
  `FolderInv` says that a handler between the two holds `cacheMutex` (`Locked`), that the folder it is about
  to make is still not there (`Absent`), and that what the others write meanwhile is a file (`Uploads`).
  Every step of a handler either leaves the folders and the cache alone, or is taken when no other
  handler is between the two requests (`Spares`). The assumption `Folder \notin Values` is the
  MIME type by which the drive tells a folder from a file.
- `TypeCorrect`, `CacheStaysSound`. `CacheInv`: a cached directory is a folder of its name in the folder cached for its parent
  (`Chained`), a handler past the search has its folder in the cache (`Placed`), and writes and deletes files of its own path
  only (`Holding`). Where a path leads is a recursive function; that it satisfies its equation, and that `Chained` makes it agree with the
  cache, are inductions on the length of a path, done on sets of naturals.
- `StoreImplemented`: `DriveStore` implements `ObjectStore`. What a path holds is found by following the folders, so a step
  that makes a folder may change where many paths lead: they led nowhere and now lead to an empty folder (`FolderMade`), so they
  hold what they held. A file that is written or deleted changes what one path holds (`FileChanges`): no two directories
  lead to one folder (`IdOfInjective`) and a folder has one file of a name (`FilesUnique`). `StoreInv` adds what a handler knows of
  its path (`Stands`): the path is still empty when a file is created, and still holds what was read when the handler answers, since
  no other call is on it.
- `SuccessAlwaysLasts`, which no run checks (`Stores` checks the same of the other plugins). A handler that is about to answer knows that its
  path holds what it wrote, or nothing (`Stands`).

**`BlobStoresProofs`**: `TypeCorrect`, `StoreImplemented` and `SuccessAlwaysLasts`: for any number of handlers, paths, contents, blocks and attempts,
`BlobStores` implements `ObjectStore`. `StoreInv` says that a file is of one path, also after its name is gone (`Owned`), that an
upload whose call is alone has the file to itself and has written what it copied (`Alone`), that a download beside no torn object reads a
file nothing writes, and has copied a prefix of one of the contents seen during the call (`Seen`), and where each handler is (`Called`,
`Staged`). Each action is one step of `ObjectStore` or a stutter. The proof found an error in an
earlier contract, which promised downloads in place more than the local plugin gives when an upload and a deletion overlap beside
them. This takes three handlers, one more than the run `Stores` has. `SuccessAlwaysLasts` is proved of the steps of the contract: the
effect of a call that is alone stays until the call is answered (`Lasting`), since no other call changes its path. That an upload in place does
not tear again what it has completed is part of the contract, and `StoreImplemented` shows it: an upload that is alone and still
writes has not completed its object (`Unfinished`).

**`PluginSessionProofs`**: `TypeCorrect`, `EditsAlwaysKept`, `AlwaysRemembered`, for any number of runs, callbacks, handlers and tokens.
`PairedInv` relates a run to its plugin by their program counters. `EditsInv`: while edits come only between runs, what a run has read of
the item is as new as the item, in its strings (`StringsType`: what `GetCredentials` drops is no string). `RememberInv`: while no token is in
the item, the token file remembers one as soon as a run depends on it, and a torn token file has a writer, who is going to complete it or was
killed (`WritingStays`). `AlwaysRemembered` has the second case as its only exception.

**`EncryptProofs`**: `TypeCorrect` and `DecryptsExactlyHolds`. `Sealed` strengthens it: what `EncryptData` leaves has a key,
and was written with header and nonce in full, so that a failing length check
means a cut object. `ChecksCover`: each slice is checked for as far as it reaches. `ConfiguredType`: what the
environment yields is positive and fits the header, whatever numbers it holds (`Fits`).

**`FindPluginProofs`**: `TypeCorrect`, `NoneEverHidden` and `FoundAlwaysVerified`. `FindInv` adds to the types and
the two properties what the search relies on between its steps (`HalfRead`): a place that was not changed
since the search began still holds the signature and the binary that were read of it, so that
a failing check means a candidate that is not acceptable.

Checked by TLC only: liveness (`Terminates`, `Returns`, `SearchEnds`, `PortFreed`), since reasoning about fairness and `ENABLED` is
beyond the provers used.

## 5. Not modelled

Generated protobuf code; key generation in `security-tool`; the formats the keyring loaders parse
(318-560); `runList`, which changes no state; `ListFiles`,
which no command calls; the external commands of the credential plugins and the layout of their
items; flags, prompts and progress output; file modes; `Init` of the local, aws-s3 and backblaze plugins, which
checks its arguments and makes a client. What could still be added, in this order:

1. Older versions in `SecureBackup`: commands against a store that is `Versioned`.
2. Two plugin processes in `DriveStore`, and what then still holds of folders and files.

## 6. Known deviations

Some statements of the documentation are not what the code does. Three are
checked as violated properties:

- **Siblings** (`DropsOnlyVanished`, run `SiblingDropped`): a backup of `docs` drops the entries of
  `docs-old/...`: pruning (888) compares strings, not paths.
- **Unrestorable after a crash** (`BackupRestorable`, run `CrashUnrestorable`): orphaned chunks are deleted before the
  manifest without them is stored. After a crash in between, a later backup finds the
  file in the manifest, takes it for unchanged, and reports success.
- **Authorization without an end** (`AuthorizationEnds`, run `AuthorizationHangs`): `Shutdown` waits for a callback
  handler that waits for a receiver. A second request to the callback, or one beside a pasted
  code or the timeout, and `getInteractiveToken` returns neither token nor error.

Others are visible in the models without a run of their own:

- A download error that mentions "not found" counts as an absent manifest
  (`manifest.go` 57), and the next one stored forgets earlier backups (`FetchAbsent`).
- `SECURE_BACKUP_ARGON2_TIME=11` makes objects that `DecryptData` refuses: the limits (`encrypt.go` 222)
  are not those of `EncryptData`. `DecryptsExactly` says which objects these are.
- On backblaze every manifest stays as an older version; deleting the newest, as `delete --all`
  does, brings the one before it back (`DeleteVersion`).
- Two calls that refresh a Google Drive token may note it in the other order
  (`main.go` 50 of the plugin reads it outside the mutex), and the older one is kept and given back.
- The write-back of credentials replaces the item: what the user or another run stored since
  the run began is lost (`EditsKept` excludes it).
- It also erases every value of the item that is not a JSON string (a number, a list): `GetCredentials` drops them
  (`credential-plugin-keychain/main.go` 46), `SetCredentials` (56) replaces the whole item. The plugin's README (12) says that the
  data is "blindly forwarded". `EditsKept` is about strings; `rest` shows the others (`Strings`, `SetCredentials`).
- An item that lacks the client id or secret is written back by every run, whether its token changed or not (`Changed`).
- An item whose JSON has no string, `{}` for one, arrives as nil, and no token is ever given back to it (`Creds`, `Changed`).
- The cleanup kills the plugin (`main.go` 827) while the handler of a call that timed out may be between the truncation of the token file
  (plugin `main.go` 235) and the write (240). The file then stays torn. If no item has a token, the next run asks the user
  again, although "the retrieved token is saved to the configured `token_path`" (`doc/storage-plugins.md` 48). `Remembered`
  excludes exactly this (`CutShort`).
- Without a terminal the fallback reader sends an empty code at once, which `select` may take before the
  browser answers (`Paste`).
- A command gives up `Init` after 30 seconds and leaves a plugin that holds the callback port
  for the rest of its five minutes, so that an authorization of the next run fails.
- A walk that stops early drops what it did not reach (861); its chunks are deleted.
- A backup that fails after uploading chunks leaves objects no manifest lists.
- The local plugin truncates the manifest in place; a crash leaves one that no longer decrypts. Every
  command then stops at it (`TornKept`), `delete --all` too.
- All prefixes share one manifest whose entries do not record theirs: a file backed up
  under one is unchanged for the other, and a purge under the other does not find its
  object.
- `delete --prefix` alone selects nothing; arguments of `delete` and `restore` are
  string prefixes.
- `delete --all` deletes the manifest even when chunks could not be deleted.
- An edit that keeps the size within one second is missed; a symbolic link is
  archived by every backup, because its size is recorded as 0.
- A file that shrank is cut short in its chunk. `rollChunk` reports it once; the
  next file is accepted by a second call, and the backup records the cut one.
- Two plugin processes on Google Drive may make a folder or a file twice.
- `restore --all` is to restore "every file in the bucket" (`src/README.md` 95). The archiver keeps absolute
  names, and `Extract` refuses them, and those that begin with `..`, unless `--strip-prefix` has made
  them relative: a backup of `/home/user` restored with `--all` alone writes nothing, and each chunk is
  logged as failed (`Relative`, `Refuse`). The example `restore home/user/...` (`src/README.md` 63) matches no such name.
- The first member that `Extract` refuses ends its chunk: a symbolic link with an absolute target, or one
  above its directory, keeps the files archived after it from being restored (`Refuse`, `Stop`).
  "Restore complete." is printed nevertheless (1109).
- `--strip-prefix` matches part of a component, and may give two files one name, of which the last one
  stays; a name stripped to nothing is left out without a word (`Stripped`, `PassedBy`; `ComesBack`
  speaks of the other files). `src/README.md` 94 says of `--prefix` what the code does for `--strip-prefix`.
- A file is truncated before its member is copied: a restore that fails leaves the older file
  torn (`WriteCut`, `WriteFails`), in a chunk that is logged.
- `src/README.md` 195 and section 4 of `doc/plugin-signing-and-validation.md` say that loading fails when a plugin is rejected. The
  search goes on with the next place, and may load another build from there (`Skip`).
- The comment at 157 names `./plugins` beside the executable, the code `build/plugins`. What `make install PREFIX=...` installs
  outside `/usr/local` is searched only with `--plugin-dir`.
- While a plugin is rebuilt and not yet signed again it is passed over, and a run that starts then
  finds another one, or none.
