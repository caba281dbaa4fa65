----------------------------- MODULE DriveStore -----------------------------
(***************************************************************************)
(* The Google Drive plugin: one plugin process whose gRPC handlers run     *)
(* concurrently, on a drive where a path is a chain of folders and where   *)
(* nothing keeps two children of a folder from having one name.  Calls     *)
(* overlap because a call that timed out in the command goes on in the     *)
(* plugin while the command makes the next one; a command never has two    *)
(* calls on one path.  Every request to the drive is a step of its own and *)
(* may fail, before or after it took effect.  ListFiles is called by no    *)
(* command.                                                                *)
(*                                                                         *)
(* A definition with an underscore in its name is a wrong version of the   *)
(* one before the underscore.                                              *)
(***************************************************************************)
EXTENDS Naturals, Sequences, SequencesExt

CONSTANTS
    Calls,      \* the handlers that may run at a time
    Paths,      \* remote paths, as sequences of names
    Contents,   \* Contents[x]: what the commands upload to path x
    Ids,        \* the identifiers the drive gives to folders and files
    Base,       \* g.folderID
    Retries,    \* attempts of an upload or a download: 3
    None

ASSUME PathsAssumption == \A x \in Paths : x \in Seq(STRING) /\ Len(x) > 0
Values == UNION {Contents[x] : x \in Paths}
Folder == "folder"

ASSUME ContentsAssumption == DOMAIN Contents = Paths
ASSUME RetriesAssumption == Retries \in Nat \ {0}
ASSUME DistinctAssumption ==
    /\ Base \notin Ids
    /\ None \notin Values \cup Ids \cup Calls \cup {Base}
    /\ Folder \notin Values

VARIABLES
    drive,   \* the items on the drive, by identifier
    cache,   \* dirCache
    lock,    \* the handler that holds cacheMutex for writing
    pc,      \* of each handler: where it is
    calls,   \* of each handler: its request, and its answer
    tries,   \* of each handler: attempts made so far
    file     \* of each handler: the item it found

vars == <<drive, cache, lock, pc, calls, tries, file>>

Dirs == UNION {{SubSeq(x, 1, n) : n \in 1 .. Len(x) - 1} : x \in Paths}

(* A folder or a file of the drive. *)
Item == [parent : Ids \cup {Base}, name : STRING, value : Values \cup {Folder}]

(* No item is told from an item. *)
ASSUME ItemAssumption == None \notin Item

(* No request has arrived yet. *)
Idle == [op |-> "none", path |-> None, value |-> None, did |-> FALSE, res |-> "ok"]

TypeOK ==
    /\ drive \in [Ids -> Item \cup {None}]
    /\ cache \in [Dirs -> Ids \cup {None}]
    /\ lock \in Calls \cup {None}
    /\ pc \in [Calls -> {"idle", "lookup", "lock", "folder", "mkdir", "check", "create",
                         "update", "find", "get", "remove", "reply"}]
    /\ \A i \in Calls : calls[i].path \in Paths \cup {None}
    /\ tries \in [Calls -> 1 .. Retries]
    /\ file \in [Calls -> Ids \cup {None}]

Init ==
    /\ drive = [f \in Ids |-> None]
    /\ cache = [d \in Dirs |-> None]
    /\ lock = None
    /\ pc = [i \in Calls |-> "idle"]
    /\ calls = [i \in Calls |-> Idle]
    /\ tries = [i \in Calls |-> 1]
    /\ file = [i \in Calls |-> None]

Goto(i, l) == pc' = [pc EXCEPT ![i] = l]
Items == {f \in Ids : drive[f] # None}

(* The drive chooses the identifier of a new item; which one does not       *)
(* matter.                                                                  *)
Free == IF Items = Ids THEN {} ELSE {CHOOSE f \in Ids : drive[f] = None}

Folders(parent, name) ==
    {f \in Items : drive[f] = [parent |-> parent, name |-> name, value |-> Folder]}
Files(parent, name) ==
    {f \in Items : /\ drive[f].parent = parent
                   /\ drive[f].name = name
                   /\ drive[f].value # Folder}

-----------------------------------------------------------------------------
(* The request arrives. *)
Start(i) ==
    /\ pc[i] = "idle"
    /\ \E op \in {"upload", "download", "delete"}, x \in Paths :
       \E v \in IF op = "upload" THEN Contents[x] ELSE {None} :
          /\ \A j \in Calls : pc[j] # "idle" => calls[j].path # x
          /\ calls' = [calls EXCEPT ![i] =
                [op |-> op, path |-> x, value |-> v, did |-> FALSE, res |-> "running"]]
    /\ tries' = [tries EXCEPT ![i] = 1]
    /\ Goto(i, "lookup")
    /\ UNCHANGED <<drive, cache, lock, file>>

(* The handler returns; the answer is its result. *)
Reply(i, res) ==
    /\ calls' = [calls EXCEPT ![i] = [Idle EXCEPT !.res = res,
          !.value = IF calls[i].op = "download" /\ res = "ok" THEN calls[i].value ELSE None]]
    /\ Goto(i, "idle")
    /\ file' = [file EXCEPT ![i] = None]

(* One attempt more than the loop has. *)
Exhausted_Late(i) == calls[i].op = "delete" \/ tries[i] > Retries

Exhausted(i) == calls[i].op = "delete" \/ tries[i] = Retries

(* The outcome of the last attempt is forgotten. *)
GiveUp_Nil(i) == Reply(i, "ok") /\ UNCHANGED tries

GiveUp(i) == Reply(i, "error") /\ UNCHANGED tries

(* Attempts are not counted. *)
Attempt_Uncounted(i) ==
    IF Exhausted(i) THEN GiveUp(i)
    ELSE /\ file' = [file EXCEPT ![i] = None]
         /\ Goto(i, "lookup")
         /\ UNCHANGED <<calls, tries>>

(* An attempt fails: the next one starts over, a deletion gives up. *)
Attempt(i) ==
    IF Exhausted(i) THEN GiveUp(i)
    ELSE /\ tries' = [tries EXCEPT ![i] = @ + 1]
         /\ file' = [file EXCEPT ![i] = None]
         /\ Goto(i, "lookup")
         /\ UNCHANGED calls

(* A request fails before it takes effect, or the local file cannot be used. *)
RequestFails(i) ==
    /\ pc[i] \in {"check", "create", "update", "find", "get", "remove"}
    /\ Attempt(i)
    /\ UNCHANGED <<drive, cache, lock>>

-----------------------------------------------------------------------------
(* resolvePath, getOrCreateFolder *)

Dir(i) == Front(calls[i].path)
Name(i) == Last(calls[i].path)

(* The folder that holds directory d, and the one for directory d. *)
CachedId(d) == IF d = <<>> THEN Base ELSE cache[d]

Resolved(i) == \A n \in 1 .. Len(Dir(i)) : cache[SubSeq(Dir(i), 1, n)] # None

(* The first directory of the chain that is not in the cache, if any. *)
Missing(i) ==
    IF Resolved(i) THEN Dir(i)
    ELSE CHOOSE d \in Dirs : /\ IsPrefix(d, Dir(i))
                             /\ cache[d] = None
                             /\ \A n \in 1 .. Len(d) - 1 : cache[SubSeq(d, 1, n)] # None

Operation(i) == IF calls[i].op = "upload" THEN "check" ELSE "find"

(* The cache is read under the read lock. *)
Lookup(i) ==
    /\ pc[i] = "lookup"
    /\ lock = None
    /\ Goto(i, IF CachedId(Dir(i)) # None THEN Operation(i) ELSE "lock")
    /\ UNCHANGED <<drive, cache, lock, calls, tries, file>>

(* The folders are looked for, and made, without the lock. *)
Lock_Shared(i) ==
    /\ pc[i] = "lock"
    /\ Goto(i, IF Resolved(i) THEN Operation(i) ELSE "folder")
    /\ UNCHANGED <<drive, cache, lock, calls, tries, file>>

(* Between the two locks another handler may have filled the cache. *)
Lock(i) ==
    /\ pc[i] = "lock"
    /\ lock = None
    /\ IF Resolved(i)
       THEN Goto(i, Operation(i)) /\ lock' = lock
       ELSE Goto(i, "folder") /\ lock' = i
    /\ UNCHANGED <<drive, cache, calls, tries, file>>

(* The cache is indexed by the name of the folder, not by its path. *)
CacheKey_Name(d) == <<Last(d)>>

CacheKey(d) == d

(* The folder is known: on to the next one, or to the operation itself. *)
Known(i, f) ==
    /\ cache' = [cache EXCEPT ![CacheKey(Missing(i))] = f]
    /\ IF Missing(i) = Dir(i)
       THEN Goto(i, Operation(i)) /\ lock' = None
       ELSE Goto(i, "folder") /\ lock' = lock

Parent(d) == CachedId(Front(d))

FindFolder(i) ==
    /\ pc[i] = "folder"
    /\ LET d == Missing(i) found == Folders(Parent(d), Last(d)) IN
       IF found # {} THEN \E f \in found : Known(i, f)
       ELSE Goto(i, "mkdir") /\ UNCHANGED <<cache, lock>>
    /\ UNCHANGED <<drive, calls, tries, file>>

NewFolder(d) == [parent |-> Parent(d), name |-> Last(d), value |-> Folder]

MakeFolder(i) ==
    /\ pc[i] = "mkdir"
    /\ \E f \in Free :
          /\ drive' = [drive EXCEPT ![f] = NewFolder(Missing(i))]
          /\ Known(i, f)
    /\ UNCHANGED <<calls, tries, file>>

(* The folder may have been made although the answer was an error. *)
FolderFails(i) ==
    /\ pc[i] \in {"folder", "mkdir"}
    /\ \/ drive' = drive
       \/ /\ pc[i] = "mkdir"
          /\ \E f \in Free : drive' = [drive EXCEPT ![f] = NewFolder(Missing(i))]
    /\ lock' = None
    /\ Attempt(i)
    /\ UNCHANGED cache

-----------------------------------------------------------------------------
(* doUpload *)

Here(i) == Files(CachedId(Dir(i)), Name(i))

Check(i) ==
    /\ pc[i] = "check"
    /\ IF Here(i) = {} THEN Goto(i, "create") /\ UNCHANGED file
       ELSE \E f \in Here(i) : Goto(i, "update") /\ file' = [file EXCEPT ![i] = f]
    /\ UNCHANGED <<drive, cache, lock, calls, tries>>

Written(i, f) ==
    /\ drive' = [drive EXCEPT ![f] =
          [parent |-> CachedId(Dir(i)), name |-> Name(i), value |-> calls[i].value]]

(* The new or updated file is there, and so is the answer... *)
Write(i) ==
    /\ \/ pc[i] = "create" /\ \E f \in Free : Written(i, f)
       \/ pc[i] = "update" /\ Written(i, file[i])
    /\ calls' = [calls EXCEPT ![i].did = TRUE]
    /\ Goto(i, "reply")
    /\ UNCHANGED <<cache, lock, tries, file>>

(* ... or the answer is an error, and the file is written again. *)
WriteUnanswered(i) ==
    /\ \/ pc[i] = "create" /\ \E f \in Free : Written(i, f)
       \/ pc[i] = "update" /\ Written(i, file[i])
    /\ ~Exhausted(i)
    /\ calls' = [calls EXCEPT ![i].did = TRUE]
    /\ tries' = [tries EXCEPT ![i] = @ + 1]
    /\ file' = [file EXCEPT ![i] = None]
    /\ Goto(i, "lookup")
    /\ UNCHANGED <<cache, lock>>

-----------------------------------------------------------------------------
(* doDownload and DeleteFile *)

Find(i) ==
    /\ pc[i] = "find"
    /\ IF Here(i) = {}
       THEN /\ calls' = [calls EXCEPT ![i].did = TRUE]
            /\ Goto(i, "reply")
            /\ UNCHANGED file
       ELSE /\ \E f \in Here(i) : file' = [file EXCEPT ![i] = f]
            /\ Goto(i, IF calls[i].op = "download" THEN "get" ELSE "remove")
            /\ UNCHANGED calls
    /\ UNCHANGED <<drive, cache, lock, tries>>

Get(i) ==
    /\ pc[i] = "get"
    /\ calls' = [calls EXCEPT ![i].did = TRUE, ![i].value = drive[file[i]].value]
    /\ Goto(i, "reply")
    /\ UNCHANGED <<drive, cache, lock, tries, file>>

Delete(i) ==
    /\ pc[i] = "remove"
    /\ drive' = [drive EXCEPT ![file[i]] = None]
    /\ calls' = [calls EXCEPT ![i].did = TRUE]
    /\ Goto(i, "reply")
    /\ UNCHANGED <<cache, lock, tries, file>>

(* NotFound is an error of DownloadFile, and none of DeleteFile. *)
Answer(i) ==
    /\ pc[i] = "reply"
    /\ Reply(i, IF calls[i].op = "download" /\ calls[i].value = None THEN "notfound" ELSE "ok")
    /\ UNCHANGED <<drive, cache, lock, tries>>

(* The last write took effect, but its answer was an error. *)
AnswerLost(i) ==
    /\ pc[i] = "reply"
    /\ calls[i].op = "upload" \/ (calls[i].op = "delete" /\ file[i] # None)
    /\ Exhausted(i)
    /\ Reply(i, "error")
    /\ UNCHANGED <<drive, cache, lock, tries>>

-----------------------------------------------------------------------------
Resolve(i) == Lookup(i) \/ Lock(i) \/ FindFolder(i) \/ MakeFolder(i) \/ FolderFails(i)

Operate(i) ==
    \/ Check(i) \/ Write(i) \/ WriteUnanswered(i)
    \/ Find(i) \/ Get(i) \/ Delete(i)
    \/ RequestFails(i) \/ Answer(i) \/ AnswerLost(i)

Step(i) == Resolve(i) \/ Operate(i)

Next == \E i \in Calls : Start(i) \/ Step(i)

Spec == Init /\ [][Next]_vars

(* The drive answers every request, and a mutex is not withheld for ever    *)
(* from a handler that waits for it.                                        *)
FairSpec == Spec /\ \A i \in Calls : WF_vars(Step(i)) /\ SF_vars(Lookup(i) \/ Lock(i))

-----------------------------------------------------------------------------
(***************************************************************************)
(* No folder is made twice, although looking for one and making it are two *)
(* requests, handlers overlap, and a request that made one may fail: two   *)
(* folders of one name would split the backup between them.                *)
(***************************************************************************)
FoldersUnique ==
    \A f, g \in Items :
        drive[f].value = Folder /\ drive[f] = drive[g] => f = g

(* Where the path d leads, following the folders of the drive. *)
IdOf[d \in Dirs \cup {<<>>}] ==
    IF d = <<>> THEN Base
    ELSE LET found == Folders(IdOf[Front(d)], Last(d)) IN
         IF found = {} THEN None ELSE CHOOSE f \in found : TRUE

(* The cache never leads a call into the folder of another path. *)
CacheSound == \A d \in Dirs : cache[d] # None => cache[d] = IdOf[d]

(***************************************************************************)
(* The plugin is the store that the commands take it for, while its calls  *)
(* overlap, fail, are retried, and share the folders on their way.         *)
(***************************************************************************)
stored == [x \in Paths |->
    LET dir == IdOf[Front(x)]
        here == Files(dir, Last(x)) IN
    IF here = {} THEN <<>> ELSE <<drive[CHOOSE f \in here : TRUE].value>>]

(* No other call changes the path of a download while it runs. *)
seen(i) ==
    IF calls[i].op = "download" /\ stored[calls[i].path] = <<>> THEN {None}
    ELSE IF calls[i].op = "download" THEN {Head(stored[calls[i].path])}
    ELSE {}

requests == [i \in Calls |->
    [op |-> calls[i].op, path |-> calls[i].path, res |-> calls[i].res,
     value |-> IF pc[i] = "idle" \/ calls[i].op = "upload" THEN calls[i].value ELSE None,
     did |-> calls[i].op # "download" /\ calls[i].did,
     alone |-> TRUE, seen |-> seen(i)]]
Store == INSTANCE ObjectStore WITH
    store <- stored, calls <- requests, InPlace <- {}, Versioned <- {}, Torn <- "torn"
ImplementsStore == Store!Spec

(***************************************************************************)
(* What a successful upload or deletion did is still so when it returns,   *)
(* after any attempts: neither is the file in a folder that no other call  *)
(* finds, nor is there a second one of its name.                           *)
(***************************************************************************)
SuccessLasts == Store!SuccessLasts

(* Every call returns, and with it the mutex it held. *)
Returns == \A i \in Calls : pc[i] # "idle" ~> pc[i] = "idle"

=============================================================================
