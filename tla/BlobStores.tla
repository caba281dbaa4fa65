----------------------------- MODULE BlobStores -----------------------------
(***************************************************************************)
(* The local, aws-s3 and backblaze plugins.  They keep no state between    *)
(* calls, and so it does not matter which plugin process a handler is in:  *)
(* handlers overlap, also on one path, because several runs of the program *)
(* use one store, and because a call that timed out in a command goes on   *)
(* in its plugin.  Every path is on one kind of store.  ListFiles is       *)
(* called by no command.                                                   *)
(*                                                                         *)
(* A file of the local plugin is a sequence of blocks that io.Copy writes  *)
(* or reads one at a time, and a directory entry leads to it; open files   *)
(* stay readable and writable after os.Remove.  A bucket of Backblaze      *)
(* keeps the older versions of an object, one of Amazon S3 does not.       *)
(*                                                                         *)
(* A definition with an underscore in its name is a wrong version of the   *)
(* one before the underscore.                                              *)
(***************************************************************************)
EXTENDS Naturals, Sequences, SequencesExt

CONSTANTS
    Calls,      \* the handlers that may run at a time
    Paths,      \* remote paths
    Kind,       \* Kind[x]: the plugin that serves path x
    Values,     \* contents of objects
    Blocks,     \* Blocks[v]: the blocks of a file that holds v
    Ids,        \* files of the local disk, versions of Backblaze
    Retries,    \* attempts of an upload or a download: 3
    MaxVersions,\* bound: versions of an object
    None,
    Torn        \* a file that no single upload has written

ASSUME KindAssumption == Kind \in [Paths -> {"local", "aws-s3", "backblaze"}]
ASSUME BlocksAssumption == Blocks \in [Values -> Nat \ {0}]
ASSUME RetriesAssumption == Retries \in Nat \ {0} /\ MaxVersions \in Nat
ASSUME DistinctAssumption == Values \cap {None, Torn} = {} /\ None # Torn /\ None \notin Ids

VARIABLES
    disk,   \* the directory entry of every local path
    data,   \* the blocks of every file
    bucket, \* the versions under every other path, the newest last
    pc,     \* of each handler: where it is
    calls,  \* of each handler: its request, its answer, and what happened meanwhile
    tries,  \* of each handler: attempts made so far
    handle, \* of each handler: the file it has open, or the version it found
    got     \* of each handler: the blocks it has copied

vars == <<disk, data, bucket, pc, calls, tries, handle, got>>

On(kind) == {x \in Paths : Kind[x] = kind}
Local == On("local")
Remote == Paths \ Local

(* No request has arrived yet. *)
Idle == [op |-> "none", path |-> None, value |-> None, did |-> FALSE, alone |-> TRUE,
         seen |-> {}, res |-> "ok"]

TypeOK ==
    /\ disk \in [Local -> Ids \cup {None}]
    /\ \A f \in Ids : Range(data[f]) \subseteq Values \cup {Torn}
    /\ \A x \in Remote : \A n \in DOMAIN bucket[x] :
          bucket[x][n].id \in Ids \cup {None} /\ bucket[x][n].value \in Values
    /\ pc \in [Calls -> {"idle", "open", "write", "read", "remove", "send", "find", "reply"}]
    /\ \A i \in Calls :
          /\ calls[i].path \in Paths \cup {None}
          /\ calls[i].value \in Values \cup {None, Torn}
    /\ tries \in [Calls -> 1 .. Retries]
    /\ handle \in [Calls -> Ids \cup {None}]

Init ==
    /\ disk = [x \in Local |-> None]
    /\ data = [f \in Ids |-> <<>>]
    /\ bucket = [x \in Remote |-> <<>>]
    /\ pc = [i \in Calls |-> "idle"]
    /\ calls = [i \in Calls |-> Idle]
    /\ tries = [i \in Calls |-> 1]
    /\ handle = [i \in Calls |-> None]
    /\ got = [i \in Calls |-> <<>>]

Path(i) == calls[i].path
Value(i) == calls[i].value
Goto(i, l) == pc' = [pc EXCEPT ![i] = l]
At(i, l, op, kinds) ==
    pc[i] = l /\ calls[i].op = op /\ Kind[Path(i)] \in kinds

(* A file is freed when no directory entry leads to it and no handler has   *)
(* it open.                                                                 *)
InUse ==
    Range(disk) \cup Range(handle)
        \cup UNION {{bucket[x][n].id : n \in DOMAIN bucket[x]} : x \in Remote}
Free == Ids \ InUse
Closed == data' = [f \in Ids |-> IF f \in InUse' THEN data[f] ELSE <<>>]

(* What a sequence of blocks is. *)
Contents(blocks) ==
    IF \E v \in Values : blocks = [n \in 1 .. Blocks[v] |-> v] THEN blocks[1] ELSE Torn

-----------------------------------------------------------------------------
(* The request arrives. *)
Changing(i, x) == pc[i] # "idle" /\ calls[i].op # "download" /\ Path(i) = x

Held(x) ==
    IF x \in Local THEN IF disk[x] = None THEN None ELSE Contents(data[disk[x]])
    ELSE IF bucket[x] = <<>> THEN None ELSE Last(bucket[x]).value

Start(i) ==
    /\ pc[i] = "idle"
    /\ \E op \in {"upload", "download", "delete"}, x \in Paths :
       \E v \in IF op = "upload" THEN Values ELSE {None} :
          /\ calls' = [j \in Calls |->
                IF j = i
                THEN [op |-> op, path |-> x, value |-> v, did |-> FALSE,
                      alone |-> \A k \in Calls :
                          Changing(k, x) => op = "download" /\ calls[k].alone,
                      seen |-> IF op = "download" THEN {Held(x)} ELSE {},
                      res |-> "running"]
                ELSE IF /\ op # "download" /\ \E k \in Calls : Changing(k, x)
                        /\ pc[j] # "idle" /\ Path(j) = x
                THEN [calls[j] EXCEPT !.alone = FALSE]
                ELSE calls[j]]
          /\ Goto(i, IF x \in Local THEN IF op = "delete" THEN "remove" ELSE "open"
                     ELSE IF op = "delete" /\ Kind[x] = "backblaze" THEN "find" ELSE "send")
    /\ UNCHANGED <<disk, data, bucket, tries, handle, got>>

(* Handler i changes what its path holds, into v. *)
Changed(i, v) ==
    calls' = [j \in Calls |->
        IF j = i THEN [calls[i] EXCEPT !.did = @ \/ v # Torn]
        ELSE IF pc[j] # "idle" /\ calls[j].op = "download" /\ Path(j) = Path(i)
        THEN [calls[j] EXCEPT !.seen = @ \cup {v}]
        ELSE calls[j]]

(* The handler returns; its files are closed. *)
Reply(i, res, v) ==
    /\ calls' = [calls EXCEPT ![i] = [Idle EXCEPT !.res = res, !.value = v]]
    /\ Goto(i, "idle")
    /\ tries' = [tries EXCEPT ![i] = 1]
    /\ handle' = [handle EXCEPT ![i] = None]
    /\ got' = [got EXCEPT ![i] = <<>>]

(* A local file or a directory cannot be used, a request fails, or the      *)
(* command ends and kills its plugin.                                       *)
Fails(i) ==
    /\ pc[i] # "idle"
    /\ Reply(i, "error", None)
    /\ UNCHANGED <<disk, bucket>>
    /\ Closed

Stored(i) ==
    /\ pc[i] = "reply"
    /\ Reply(i, "ok", None)
    /\ UNCHANGED <<disk, bucket>>
    /\ Closed

-----------------------------------------------------------------------------
(* local: UploadFile *)

(* O_CREATE|O_TRUNC *)
OpenToWrite(i) ==
    LET x == Path(i) IN
    /\ At(i, "open", "upload", {"local"})
    /\ \E f \in IF disk[x] = None THEN Free ELSE {disk[x]} :
          /\ disk' = [disk EXCEPT ![x] = f]
          /\ data' = [data EXCEPT ![f] = <<>>]
          /\ handle' = [handle EXCEPT ![i] = f]
    /\ Changed(i, Torn)
    /\ Goto(i, "write")
    /\ UNCHANGED <<bucket, tries, got>>

(* Writing past the end leaves a hole. *)
Overwritten(blocks, n, v) ==
    [k \in 1 .. (IF Len(blocks) < n THEN n ELSE Len(blocks)) |->
        IF k = n THEN v ELSE IF k \in DOMAIN blocks THEN blocks[k] ELSE Torn]

WriteBlock(i) ==
    LET f == handle[i] n == Len(got[i]) + 1 IN
    /\ At(i, "write", "upload", {"local"})
    /\ data' = [data EXCEPT ![f] = Overwritten(@, n, Value(i))]
    /\ got' = [got EXCEPT ![i] = Append(@, Value(i))]
    /\ IF disk[Path(i)] = f THEN Changed(i, Contents(data'[f])) ELSE UNCHANGED calls
    /\ Goto(i, IF n = Blocks[Value(i)] THEN "reply" ELSE "write")
    /\ UNCHANGED <<disk, bucket, tries, handle>>

(* The error of io.Copy is lost. *)
CopyFails_Ignored(i) ==
    /\ At(i, "write", "upload", {"local"})
    /\ Reply(i, "ok", None)
    /\ UNCHANGED <<disk, bucket>>
    /\ Closed

CopyFails(i) ==
    /\ At(i, "write", "upload", {"local"})
    /\ Reply(i, "error", None)
    /\ UNCHANGED <<disk, bucket>>
    /\ Closed

-----------------------------------------------------------------------------
(* local: DownloadFile, DeleteFile *)

OpenToRead(i) ==
    /\ At(i, "open", "download", {"local"})
    /\ IF disk[Path(i)] = None
       THEN Reply(i, "notfound", None)
       ELSE /\ handle' = [handle EXCEPT ![i] = disk[Path(i)]]
            /\ Goto(i, "read")
            /\ UNCHANGED <<calls, tries, got>>
    /\ UNCHANGED <<disk, bucket>>
    /\ Closed

ReadBlock(i) ==
    LET blocks == data[handle[i]] n == Len(got[i]) + 1 IN
    /\ At(i, "read", "download", {"local"})
    /\ IF n <= Len(blocks)
       THEN /\ got' = [got EXCEPT ![i] = Append(@, blocks[n])]
            /\ UNCHANGED <<pc, calls, tries, handle>>
       ELSE Reply(i, "ok", Contents(got[i]))
    /\ UNCHANGED <<disk, bucket>>
    /\ Closed

(* A file that does not exist is as good as removed. *)
RemoveFile(i) ==
    /\ At(i, "remove", "delete", {"local"})
    /\ disk' = [disk EXCEPT ![Path(i)] = None]
    /\ Changed(i, None)
    /\ Goto(i, "reply")
    /\ UNCHANGED <<bucket, tries, handle, got>>
    /\ Closed

-----------------------------------------------------------------------------
(* aws-s3 and backblaze: the loops of UploadFile and DownloadFile *)

(* One attempt more than the loop has. *)
Attempt_Late(i, err) ==
    IF tries[i] > Retries THEN Reply(i, err, None)
    ELSE /\ tries' = [tries EXCEPT ![i] = @ + 1]
         /\ UNCHANGED <<pc, calls, handle, got>>

(* An attempt failed.  The answer carries the error of the last one.        *)
Attempt(i, err) ==
    IF tries[i] = Retries THEN Reply(i, err, None)
    ELSE /\ tries' = [tries EXCEPT ![i] = @ + 1]
         /\ UNCHANGED <<pc, calls, handle, got>>

(* A request fails, or the local file does.  Deletions have no second       *)
(* attempt.                                                                 *)
AttemptFails(i) ==
    /\ pc[i] = "send"
    /\ calls[i].op # "delete"
    /\ Attempt(i, "error")
    /\ UNCHANGED <<disk, data, bucket>>

PutObject(i, id) ==
    LET x == Path(i) new == [id |-> id, value |-> Value(i)] IN
    bucket' = [bucket EXCEPT ![x] = IF Kind[x] = "backblaze" THEN Append(@, new) ELSE <<new>>]

NewId(i) ==
    IF Kind[Path(i)] = "aws-s3" THEN {None}
    ELSE IF Len(bucket[Path(i)]) < MaxVersions THEN Free ELSE {}

(* doUpload: the object is there, and so is the answer... *)
Upload(i) ==
    /\ At(i, "send", "upload", {"aws-s3", "backblaze"})
    /\ \E id \in NewId(i) : PutObject(i, id)
    /\ Changed(i, Value(i))
    /\ Goto(i, "reply")
    /\ UNCHANGED <<disk, data, tries, handle, got>>

(* ... or the answer is an error, and the object is uploaded again. *)
UploadUnanswered(i) ==
    /\ At(i, "send", "upload", {"aws-s3", "backblaze"})
    /\ tries[i] < Retries
    /\ \E id \in NewId(i) : PutObject(i, id)
    /\ Changed(i, Value(i))
    /\ tries' = [tries EXCEPT ![i] = @ + 1]
    /\ UNCHANGED <<disk, data, pc, handle, got>>

(* doDownload of aws-s3: an object that is not there is looked for again.   *)
GetObject(i) ==
    /\ At(i, "send", "download", {"aws-s3"})
    /\ IF Held(Path(i)) # None THEN Reply(i, "ok", Held(Path(i))) ELSE Attempt(i, "notfound")
    /\ UNCHANGED <<disk, bucket>>
    /\ Closed

(* doDownload of backblaze: that it is not there is answered at once. *)
Download(i) ==
    /\ At(i, "send", "download", {"backblaze"})
    /\ IF Held(Path(i)) # None THEN Reply(i, "ok", Held(Path(i))) ELSE Reply(i, "notfound", None)
    /\ UNCHANGED <<disk, bucket>>
    /\ Closed

-----------------------------------------------------------------------------
(* aws-s3 and backblaze: DeleteFile *)

DeleteObject(i) ==
    /\ At(i, "send", "delete", {"aws-s3"})
    /\ bucket' = [bucket EXCEPT ![Path(i)] = <<>>]
    /\ Changed(i, None)
    /\ Goto(i, "reply")
    /\ UNCHANGED <<disk, data, tries, handle, got>>

(* Deleting from Backblaze looks for the newest version... *)
FindVersion(i) ==
    /\ At(i, "find", "delete", {"backblaze"})
    /\ IF Held(Path(i)) = None
       THEN Reply(i, "error", None)
       ELSE /\ handle' = [handle EXCEPT ![i] = Last(bucket[Path(i)]).id]
            /\ Goto(i, "send")
            /\ UNCHANGED <<calls, tries, got>>
    /\ UNCHANGED <<disk, bucket>>
    /\ Closed

(* ... and removes that one, unless another call has. *)
DeleteVersion(i) ==
    LET x == Path(i) found == {n \in DOMAIN bucket[x] : bucket[x][n].id = handle[i]} IN
    /\ At(i, "send", "delete", {"backblaze"})
    /\ IF found = {}
       THEN Reply(i, "error", None) /\ UNCHANGED bucket
       ELSE /\ \E n \in found : LET rest == RemoveAt(bucket[x], n) IN
                 /\ bucket' = [bucket EXCEPT ![x] = rest]
                 /\ Changed(i, IF rest = <<>> THEN None ELSE Last(rest).value)
            /\ Goto(i, "reply")
            /\ UNCHANGED <<tries, handle, got>>
    /\ UNCHANGED <<disk, data>>

-----------------------------------------------------------------------------
Step(i) ==
    \/ OpenToWrite(i) \/ WriteBlock(i) \/ CopyFails(i)
    \/ OpenToRead(i) \/ ReadBlock(i) \/ RemoveFile(i)
    \/ Upload(i) \/ UploadUnanswered(i) \/ GetObject(i) \/ Download(i) \/ AttemptFails(i)
    \/ DeleteObject(i) \/ FindVersion(i) \/ DeleteVersion(i)
    \/ Stored(i)

Next == \E i \in Calls : Start(i) \/ Step(i) \/ Fails(i)

Spec == Init /\ [][Next]_vars

-----------------------------------------------------------------------------
(***************************************************************************)
(* The plugins are the store that the commands take them for: blocks,      *)
(* retries and lost answers look like objects put, removed or torn while   *)
(* the call runs, and nothing but an absent object is answered NotFound.   *)
(***************************************************************************)
stored == [x \in Paths |->
    IF x \in Local THEN IF disk[x] = None THEN <<>> ELSE <<Held(x)>>
    ELSE [n \in DOMAIN bucket[x] |-> bucket[x][n].value]]
Store == INSTANCE ObjectStore WITH
    store <- stored, InPlace <- Local, Versioned <- On("backblaze")
ImplementsStore == Store!Spec

(***************************************************************************)
(* What a successful upload or deletion did is still so when it returns,   *)
(* unless another change of its path overlapped it: no attempt, lost       *)
(* answer or block that is written late undoes it.                         *)
(***************************************************************************)
SuccessLasts == Store!SuccessLasts

=============================================================================
