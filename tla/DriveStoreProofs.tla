--------------------------- MODULE DriveStoreProofs ---------------------------
(***************************************************************************)
(* Why the Drive plugin never makes a folder twice, why its cache of       *)
(* folders is right, and why it is the store that the commands take it     *)
(* for, for every number of handlers, every set of paths and every drive.  *)
(*                                                                         *)
(* A folder is looked for and made by two requests.  Between them the      *)
(* handler holds cacheMutex (Locked), and so nobody else makes a folder or *)
(* changes the cache that says where the folder belongs: what was not      *)
(* there when it looked is still not there (Absent).                       *)
(*                                                                         *)
(* That the cache is right follows from how it is filled (Chained), and    *)
(* from what handlers write and delete: their own files only (Holding).    *)
(*                                                                         *)
(* That the plugin is a store follows from where the cache leads a call,   *)
(* from the shape of the drive (TreeInv), and from what a handler knows of *)
(* its path, which no other call changes (Stands).                         *)
(***************************************************************************)
EXTENDS DriveStore, SequenceTheorems, WellFoundedInduction, TLAPS

Places == {"idle", "lookup", "lock", "folder", "mkdir", "check", "create",
           "update", "find", "get", "remove", "reply"}

Shaped ==
    /\ drive = [f \in Ids |-> drive[f]]
    /\ pc \in [Calls -> Places]
    /\ calls = [i \in Calls |-> calls[i]]
    /\ \A i \in Calls : DOMAIN calls[i] = {"op", "path", "value", "did", "res"}

(* An upload carries the contents of a file; only an upload writes, and it  *)
(* reads nothing.                                                           *)
Uploads ==
    \A i \in Calls :
        /\ pc[i] # "idle" /\ calls[i].op = "upload" => calls[i].value \in Values
        /\ pc[i] \in {"check", "create", "update"} => calls[i].op = "upload"
        /\ pc[i] = "get" => calls[i].op # "upload"

Locked == \A i \in Calls : pc[i] \in {"folder", "mkdir"} => lock = i

Sought(i) == Folders(Parent(Missing(i)), Last(Missing(i)))

Absent == \A i \in Calls : pc[i] = "mkdir" => Sought(i) = {}

FolderInv == Shaped /\ Uploads /\ Locked /\ Absent /\ FoldersUnique

-----------------------------------------------------------------------------
(* What a handler seeks depends on the drive, the cache and its request     *)
(* only; a change that adds no folder adds none that it seeks.              *)
FirstMissing(c, dir) ==
    IF \A n \in 1 .. Len(dir) : c[SubSeq(dir, 1, n)] # None THEN dir
    ELSE CHOOSE d \in Dirs : /\ IsPrefix(d, dir)
                             /\ c[d] = None
                             /\ \A n \in 1 .. Len(d) - 1 : c[SubSeq(d, 1, n)] # None

LEMMA MissingKept ==
    ASSUME NEW i \in Calls, cache' = cache, calls'[i].path = calls[i].path
    PROVE  Missing(i)' = Missing(i) /\ Parent(Missing(i))' = Parent(Missing(i))
<1>1. Missing(i) = FirstMissing(cache, Dir(i))
  BY DEF Missing, FirstMissing, Resolved
<1>2. Missing(i)' = FirstMissing(cache', Dir(i)')
  BY DEF Missing, FirstMissing, Resolved
<1>3. Dir(i)' = Dir(i)
  BY DEF Dir
<1>4. Missing(i)' = Missing(i)
  BY <1>1, <1>2, <1>3
<1>5. QED
  BY <1>4 DEF Parent, CachedId

(* An item that is removed, or written with a value that is no folder.      *)
LEMMA NoNewFolder ==
    ASSUME drive = [f \in Ids |-> drive[f]], NEW f, NEW r, r = None \/ r.value # Folder,
           drive' = [drive EXCEPT ![f] = r]
    PROVE  /\ drive' = [g \in Ids |-> drive'[g]]
           /\ \A a, b : Folders(a, b)' \subseteq Folders(a, b)
           /\ FoldersUnique => FoldersUnique'
<1>1. drive' = [g \in Ids |-> IF g = f THEN r ELSE drive[g]]
  OBVIOUS
<1>2. \A a, b : Folders(a, b)' \subseteq Folders(a, b)
  BY <1>1 DEF Folders, Items
<1>3. FoldersUnique => FoldersUnique'
  BY <1>1 DEF FoldersUnique, Items
<1>4. QED
  BY <1>1, <1>2, <1>3

(* The folder that was sought, and not there, is made.                      *)
LEMMA NewFolderUnique ==
    ASSUME drive = [f \in Ids |-> drive[f]], FoldersUnique, NEW i \in Calls, Sought(i) = {},
           NEW f, drive' = [drive EXCEPT ![f] = NewFolder(Missing(i))]
    PROVE  drive' = [g \in Ids |-> drive'[g]] /\ FoldersUnique'
<1> DEFINE nf == NewFolder(Missing(i))
<1>1. drive' = [g \in Ids |-> IF g = f THEN nf ELSE drive[g]]
  OBVIOUS
<1>2. \A g \in Items : drive[g] # nf
  BY DEF Sought, Folders, NewFolder
<1> HIDE DEF nf
<1>3. FoldersUnique'
  BY <1>1, <1>2 DEF FoldersUnique, Items
<1>4. QED
  BY <1>1, <1>3

(* No other handler is between the two requests, or the step neither makes  *)
(* a folder nor moves the place of one.                                     *)
Spares(i) ==
    \/ lock \in {i, None}
    \/ /\ lock' = lock /\ cache' = cache
       /\ \A a, b : Folders(a, b)' \subseteq Folders(a, b)

DriveKept == drive' = [g \in Ids |-> drive'[g]] /\ FoldersUnique'

(* What a step of a handler leaves of its own call.                         *)
Leaves(i, l, r) ==
    /\ pc' = [pc EXCEPT ![i] = l] /\ calls' = [calls EXCEPT ![i] = r]
    /\ l \in Places /\ DOMAIN r = {"op", "path", "value", "did", "res"}
    /\ l # "idle" /\ r.op = "upload" => r.value \in Values
    /\ l \in {"check", "create", "update"} => r.op = "upload"
    /\ l = "get" => r.op # "upload"
    /\ l \in {"folder", "mkdir"} => lock' = i
    /\ l = "mkdir" => Sought(i)' = {}

LEMMA StepKeeps ==
    ASSUME FolderInv, NEW i \in Calls, NEW l, NEW r, Leaves(i, l, r), DriveKept, Spares(i)
    PROVE  FolderInv'
<1>1. Shaped'
  BY DEF FolderInv, Shaped, DriveKept, Leaves
<1>2. pc'[i] = l /\ calls'[i] = r /\ \A j \in Calls \ {i} : pc'[j] = pc[j] /\ calls'[j] = calls[j]
  BY DEF FolderInv, Shaped, Leaves
<1>3. Uploads'
  BY <1>2 DEF FolderInv, Uploads, Leaves
<1>4. ASSUME NEW j \in Calls, j # i, pc[j] \in {"folder", "mkdir"}
      PROVE  /\ lock = j /\ lock' = j /\ cache' = cache
             /\ \A a, b : Folders(a, b)' \subseteq Folders(a, b)
  <2>1. lock = j
    BY <1>4 DEF FolderInv, Locked
  <2>2. lock \notin {i, None}
    BY <1>4, <2>1, DistinctAssumption
  <2>3. QED
    BY <2>1, <2>2 DEF Spares
<1>5. Locked'
  BY <1>2, <1>4 DEF FolderInv, Locked, Leaves
<1>6. Absent'
  <2> SUFFICES ASSUME NEW j \in Calls, pc'[j] = "mkdir" PROVE Sought(j)' = {}
    BY DEF Absent
  <2>1. CASE j = i
    BY <2>1, <1>2 DEF Leaves
  <2>2. CASE j # i
    <3>1. pc[j] = "mkdir" /\ calls'[j] = calls[j]
      BY <2>2, <1>2
    <3>2. Missing(j)' = Missing(j) /\ Parent(Missing(j))' = Parent(Missing(j))
      BY <2>2, <3>1, <1>4, MissingKept
    <3>3. Sought(j)' \subseteq Sought(j)
      BY <2>2, <3>1, <3>2, <1>4 DEF Sought
    <3>4. QED
      BY <3>1, <3>3 DEF FolderInv, Absent
  <2>3. QED
    BY <2>1, <2>2
<1>7. QED
  BY <1>1, <1>3, <1>5, <1>6 DEF FolderInv, DriveKept

(* A request that did not change: the call is what it was.                  *)
LEMMA SameCall ==
    ASSUME Shaped, NEW i \in Calls
    PROVE  /\ calls = [calls EXCEPT ![i] = calls[i]]
           /\ DOMAIN calls[i] = {"op", "path", "value", "did", "res"}
           /\ UNCHANGED drive => /\ drive' = [g \in Ids |-> drive'[g]]
                                 /\ FoldersUnique => FoldersUnique'
                                 /\ \A a, b : Folders(a, b)' \subseteq Folders(a, b)
<1>1. UNCHANGED drive => /\ FoldersUnique => FoldersUnique'
                         /\ \A a, b : Folders(a, b)' \subseteq Folders(a, b)
  BY DEF FoldersUnique, Folders, Items
<1>2. QED
  BY <1>1 DEF Shaped

(* Giving up, and starting over.                                            *)
LEMMA ReplyKeeps ==
    ASSUME FolderInv, NEW i \in Calls, NEW res, Reply(i, res),
           DriveKept, Spares(i)
    PROVE  FolderInv'
<1> DEFINE r(v) == [Idle EXCEPT !.res = res, !.value = v]
<1>1. PICK v : calls' = [calls EXCEPT ![i] = r(v)]
  BY DEF Reply
<1>2. DOMAIN r(v) = {"op", "path", "value", "did", "res"}
  BY DEF Idle
<1>3. pc' = [pc EXCEPT ![i] = "idle"]
  BY DEF Reply, Goto
<1> HIDE DEF r
<1>4. Leaves(i, "idle", r(v))
  BY <1>1, <1>2, <1>3 DEF Leaves, Places
<1>5. QED
  BY <1>4, StepKeeps

LEMMA AttemptKeeps ==
    ASSUME FolderInv, NEW i \in Calls, pc[i] # "idle", Attempt(i),
           DriveKept, Spares(i)
    PROVE  FolderInv'
<1>1. CASE Exhausted(i)
  BY <1>1, ReplyKeeps DEF Attempt, GiveUp
<1>2. CASE ~Exhausted(i)
  <2>1. pc' = [pc EXCEPT ![i] = "lookup"] /\ calls' = [calls EXCEPT ![i] = calls[i]]
    BY <1>2, SameCall DEF Attempt, Goto, FolderInv
  <2>2. calls[i].op = "upload" => calls[i].value \in Values
    BY DEF FolderInv, Uploads
  <2>3. DOMAIN calls[i] = {"op", "path", "value", "did", "res"}
    BY SameCall DEF FolderInv
  <2>4. Leaves(i, "lookup", calls[i])
    BY <2>1, <2>2, <2>3 DEF Leaves, Places
  <2>5. QED
    BY <2>4, StepKeeps
<1>3. QED
  BY <1>1, <1>2

(* The handler goes on with the same call.                                  *)
LEMMA MoveKeeps ==
    ASSUME FolderInv, NEW i \in Calls, pc[i] # "idle", NEW l \in Places,
           Goto(i, l), UNCHANGED calls,
           l \in {"check", "create", "update"} => calls[i].op = "upload",
           l = "get" => calls[i].op # "upload",
           l \in {"folder", "mkdir"} => lock' = i,
           l = "mkdir" => Sought(i)' = {},
           DriveKept, Spares(i)
    PROVE  FolderInv'
<1>1. /\ calls' = [calls EXCEPT ![i] = calls[i]]
      /\ DOMAIN calls[i] = {"op", "path", "value", "did", "res"}
  BY SameCall DEF FolderInv
<1>2. calls[i].op = "upload" => calls[i].value \in Values
  BY DEF FolderInv, Uploads
<1>3. Leaves(i, l, calls[i])
  BY <1>1, <1>2 DEF Leaves, Goto
<1>4. QED
  BY <1>3, StepKeeps

LEMMA DriveUntouched ==
    ASSUME FolderInv, NEW i \in Calls, UNCHANGED drive
    PROVE  DriveKept /\ (UNCHANGED <<cache, lock>> => Spares(i))
BY SameCall DEF DriveKept, Spares, FolderInv

-----------------------------------------------------------------------------
LEMMA StartKeeps ==
    ASSUME FolderInv, NEW i \in Calls, Start(i)
    PROVE  FolderInv'
<1>1. PICK op \in {"upload", "download", "delete"}, x \in Paths :
         \E v \in IF op = "upload" THEN Contents[x] ELSE {None} :
         calls' = [calls EXCEPT ![i] =
           [op |-> op, path |-> x, value |-> v, did |-> FALSE, res |-> "running"]]
  BY DEF Start
<1>. PICK v \in IF op = "upload" THEN Contents[x] ELSE {None} : calls' = [calls EXCEPT ![i] =
           [op |-> op, path |-> x, value |-> v, did |-> FALSE, res |-> "running"]]
  BY <1>1
<1> DEFINE r == [op |-> op, path |-> x, value |-> v, did |-> FALSE, res |-> "running"]
<1>2. r.op = "upload" => r.value \in Values
  BY DEF Values
<1>3. DOMAIN r = {"op", "path", "value", "did", "res"}
  OBVIOUS
<1>4. calls' = [calls EXCEPT ![i] = r] /\ pc' = [pc EXCEPT ![i] = "lookup"]
  BY <1>1 DEF Start, Goto
<1> HIDE DEF r
<1>5. Leaves(i, "lookup", r)
  BY <1>2, <1>3, <1>4 DEF Leaves, Places
<1>6. DriveKept /\ Spares(i)
  BY DriveUntouched DEF Start
<1>7. QED
  BY <1>5, <1>6, StepKeeps

(* The folders on the way: only the holder of the mutex makes one.          *)
LEMMA ResolveKeeps ==
    ASSUME FolderInv, NEW i \in Calls, Resolve(i)
    PROVE  FolderInv'
<1> DEFINE o == Operation(i)
<1>1. o \in Places /\ o \notin {"idle", "folder", "mkdir", "create", "update", "get"}
      /\ (o = "check" => calls[i].op = "upload")
  BY DEF Operation, Places
<1> HIDE DEF o
<1>2. ASSUME pc[i] \in {"folder", "mkdir"} PROVE lock = i /\ Spares(i)
  BY <1>2 DEF FolderInv, Locked, Spares
<1>3. CASE Lookup(i)
  <2>1. PICK l \in {o, "lock"} : Goto(i, l)
    BY <1>3 DEF Lookup, o
  <2>2. l \in Places /\ l \notin {"create", "update", "get", "folder", "mkdir"}
        /\ (l = "check" => calls[i].op = "upload")
    BY <1>1 DEF Places
  <2>3. DriveKept /\ Spares(i)
    BY <1>3, DriveUntouched DEF Lookup
  <2>4. pc[i] # "idle" /\ UNCHANGED calls
    BY <1>3 DEF Lookup
  <2>5. QED
    BY <2>1, <2>2, <2>3, <2>4, MoveKeeps
<1>4. CASE Lock(i)
  <2>1. pc[i] # "idle" /\ UNCHANGED calls /\ DriveKept /\ Spares(i)
    BY <1>4, DriveUntouched DEF Lock, Spares
  <2>2. CASE Resolved(i)
    <3>1. Goto(i, o)
      BY <1>4, <2>2 DEF Lock, o
    <3>2. QED
      BY <2>1, <3>1, <1>1, MoveKeeps
  <2>3. CASE ~Resolved(i)
    <3>1. Goto(i, "folder") /\ lock' = i /\ "folder" \in Places
      BY <1>4, <2>3 DEF Lock, Places
    <3>2. QED
      BY <2>1, <3>1, MoveKeeps
  <2>4. QED
    BY <2>2, <2>3
<1>5. ASSUME NEW f, Known(i, f), lock = i, pc[i] # "idle", UNCHANGED calls, DriveKept
      PROVE  FolderInv'
  <2>1. Spares(i)
    BY <1>5 DEF Spares
  <2>2. CASE Goto(i, o)
    BY <2>1, <2>2, <1>1, <1>5, MoveKeeps
  <2>3. CASE Goto(i, "folder") /\ lock' = lock
    <3>1. "folder" \in Places
      BY DEF Places
    <3>2. QED
      BY <2>1, <2>3, <3>1, <1>5, MoveKeeps
  <2>4. QED
    BY <1>5, <2>2, <2>3 DEF Known, o
<1>6. CASE FindFolder(i)
  <2>1. lock = i /\ Spares(i) /\ pc[i] # "idle" /\ UNCHANGED calls /\ DriveKept
    BY <1>2, <1>6, DriveUntouched DEF FindFolder
  <2>2. CASE \E f : Known(i, f)
    BY <2>1, <2>2, <1>5
  <2>3. CASE Sought(i) = {} /\ Goto(i, "mkdir") /\ UNCHANGED <<cache, lock>>
    <3>1. Sought(i)' \subseteq Sought(i)
      BY <1>6, <2>3, MissingKept DEF FindFolder, Sought, Folders, Items
    <3>2. "mkdir" \in Places
      BY DEF Places
    <3>3. QED
      BY <2>1, <2>3, <3>1, <3>2, MoveKeeps
  <2>4. QED
    BY <1>6, <2>2, <2>3 DEF FindFolder, Sought
<1>7. CASE MakeFolder(i)
  <2>1. lock = i /\ pc[i] # "idle" /\ UNCHANGED calls /\ Sought(i) = {}
    BY <1>2, <1>7 DEF MakeFolder, FolderInv, Absent
  <2>2. PICK f \in Free : drive' = [drive EXCEPT ![f] = NewFolder(Missing(i))] /\ Known(i, f)
    BY <1>7 DEF MakeFolder
  <2>3. DriveKept
    BY <2>1, <2>2, NewFolderUnique DEF FolderInv, Shaped, DriveKept
  <2>4. QED
    BY <2>1, <2>2, <2>3, <1>5
<1>8. CASE FolderFails(i)
  <2>1. lock = i /\ Spares(i) /\ pc[i] # "idle" /\ Attempt(i)
    BY <1>2, <1>8 DEF FolderFails
  <2>2. CASE drive' = drive
    BY <2>1, <2>2, DriveUntouched, AttemptKeeps
  <2>3. CASE pc[i] = "mkdir" /\ \E f \in Free : drive' = [drive EXCEPT ![f] = NewFolder(Missing(i))]
    <3>1. Sought(i) = {}
      BY <2>3 DEF FolderInv, Absent
    <3>2. DriveKept
      BY <2>3, <3>1, NewFolderUnique DEF FolderInv, Shaped, DriveKept
    <3>3. QED
      BY <2>1, <3>2, AttemptKeeps
  <2>4. QED
    BY <1>8, <2>2, <2>3 DEF FolderFails
<1>9. QED
  BY <1>3, <1>4, <1>6, <1>7, <1>8 DEF Resolve

-----------------------------------------------------------------------------
(* What is written on the drive is a file.                                  *)
LEMMA WrittenKeeps ==
    ASSUME FolderInv, NEW i \in Calls, pc[i] \in {"create", "update"}, NEW f, Written(i, f),
           UNCHANGED <<cache, lock>>
    PROVE  DriveKept /\ Spares(i)
<1> DEFINE r == [parent |-> CachedId(Dir(i)), name |-> Name(i), value |-> calls[i].value]
<1>1. calls[i].value \in Values
  BY DEF FolderInv, Uploads
<1>2. r.value # Folder /\ drive' = [drive EXCEPT ![f] = r]
  BY <1>1, DistinctAssumption DEF Written
<1> HIDE DEF r
<1>3. QED
  BY <1>2, NoNewFolder DEF DriveKept, Spares, FolderInv, Shaped

LEMMA OperateKeeps ==
    ASSUME FolderInv, NEW i \in Calls, Operate(i)
    PROVE  FolderInv'
<1> DEFINE done == [calls[i] EXCEPT !.did = TRUE]
<1>1. /\ DOMAIN calls[i] = {"op", "path", "value", "did", "res"}
      /\ pc[i] # "idle" /\ calls[i].op = "upload" => calls[i].value \in Values
      /\ pc[i] \in {"check", "create", "update"} => calls[i].op = "upload"
      /\ pc[i] = "get" => calls[i].op # "upload"
  BY DEF FolderInv, Shaped, Uploads
<1>2. /\ DOMAIN done = {"op", "path", "value", "did", "res"}
      /\ done.op = calls[i].op /\ done.value = calls[i].value
  BY <1>1
<1>3. UNCHANGED <<drive, cache, lock>> => DriveKept /\ Spares(i)
  BY DriveUntouched
<1>4. ASSUME pc[i] # "idle", calls' = [calls EXCEPT ![i] = done],
             NEW l \in {"lookup", "reply"}, Goto(i, l), DriveKept, Spares(i)
      PROVE  FolderInv'
  <2> HIDE DEF done
  <2>1. Leaves(i, l, done)
    BY <1>1, <1>2, <1>4 DEF Leaves, Goto, Places
  <2>2. QED
    BY <1>4, <2>1, StepKeeps
<1>5. CASE Check(i)
  <2>1. PICK l \in {"create", "update"} : Goto(i, l)
    BY <1>5 DEF Check
  <2>2. l \in Places \ {"folder", "mkdir", "get"}
    BY DEF Places
  <2>3. calls[i].op = "upload" /\ pc[i] # "idle" /\ UNCHANGED calls /\ DriveKept /\ Spares(i)
    BY <1>1, <1>3, <1>5 DEF Check
  <2>4. QED
    BY <2>1, <2>2, <2>3, MoveKeeps
<1>6. CASE Write(i)
  <2>1. pc[i] \in {"create", "update"} /\ \E f : Written(i, f)
    BY <1>6 DEF Write
  <2>2. DriveKept /\ Spares(i)
    BY <1>6, <2>1, WrittenKeeps DEF Write
  <2>3. QED
    BY <1>4, <1>6, <2>1, <2>2 DEF Write
<1>7. CASE WriteUnanswered(i)
  <2>1. pc[i] \in {"create", "update"} /\ \E f : Written(i, f)
    BY <1>7 DEF WriteUnanswered
  <2>2. DriveKept /\ Spares(i)
    BY <1>7, <2>1, WrittenKeeps DEF WriteUnanswered
  <2>3. QED
    BY <1>4, <1>7, <2>1, <2>2 DEF WriteUnanswered
<1>8. CASE Find(i)
  <2>1. DriveKept /\ Spares(i) /\ pc[i] # "idle"
    BY <1>3, <1>8 DEF Find
  <2>2. CASE calls' = [calls EXCEPT ![i] = done] /\ Goto(i, "reply")
    BY <1>4, <2>1, <2>2
  <2>3. CASE UNCHANGED calls /\ \E l \in {"get", "remove"} :
               Goto(i, l) /\ (l = "get" => calls[i].op # "upload")
    <3>1. {"get", "remove"} \subseteq Places \ {"folder", "mkdir", "check", "create", "update"}
      BY DEF Places
    <3>2. QED
      BY <2>1, <2>3, <3>1, MoveKeeps
  <2>4. QED
    BY <1>8, <2>2, <2>3 DEF Find
<1>9. CASE Get(i)
  <2>1. PICK v : calls' = [calls EXCEPT ![i] = [done EXCEPT !.value = v]]
    BY <1>9 DEF Get
  <2> DEFINE r == [done EXCEPT !.value = v]
  <2>2. DOMAIN r = {"op", "path", "value", "did", "res"} /\ r.op = calls[i].op
    BY <1>2
  <2>3. calls[i].op # "upload" /\ pc' = [pc EXCEPT ![i] = "reply"]
    BY <1>1, <1>9 DEF Get, Goto
  <2> HIDE DEF r
  <2>4. Leaves(i, "reply", r)
    BY <2>1, <2>2, <2>3 DEF Leaves, Places, r
  <2>5. QED
    BY <1>3, <1>9, <2>4, StepKeeps DEF Get
<1>10. CASE Delete(i)
  <2>1. drive' = [drive EXCEPT ![file[i]] = None] /\ UNCHANGED <<cache, lock>>
    BY <1>10 DEF Delete
  <2>2. DriveKept /\ Spares(i)
    BY <2>1, NoNewFolder DEF DriveKept, Spares, FolderInv, Shaped
  <2>3. QED
    BY <1>4, <1>10, <2>2 DEF Delete
<1>11. CASE RequestFails(i)
  BY <1>3, <1>11, AttemptKeeps DEF RequestFails
<1>12. CASE Answer(i) \/ AnswerLost(i)
  BY <1>3, <1>12, ReplyKeeps DEF Answer, AnswerLost
<1>13. QED
  BY <1>5, <1>6, <1>7, <1>8, <1>9, <1>10, <1>11, <1>12 DEF Operate

-----------------------------------------------------------------------------
LEMMA InitFolderInv == Init => FolderInv
<1> SUFFICES ASSUME Init PROVE FolderInv
  OBVIOUS
<1>1. Shaped
  BY DEF Init, Shaped, Places, Idle
<1>2. Uploads /\ Locked /\ Absent
  BY DEF Init, Uploads, Locked, Absent
<1>3. FoldersUnique
  BY DEF Init, FoldersUnique, Items
<1>4. QED
  BY <1>1, <1>2, <1>3 DEF FolderInv

LEMMA NextFolderInv == FolderInv /\ [Next]_vars => FolderInv'
<1> SUFFICES ASSUME FolderInv, [Next]_vars PROVE FolderInv'
  OBVIOUS
<1>1. CASE Next
  BY <1>1, StartKeeps, ResolveKeeps, OperateKeeps DEF Next, Step
<1>2. CASE UNCHANGED vars
  <2>1. Shaped' /\ Uploads' /\ Locked'
    BY <1>2 DEF FolderInv, vars, Shaped, Uploads, Locked
  <2>2. \A i \in Calls : Sought(i)' = Sought(i)
    BY <1>2, MissingKept DEF vars, Sought, Folders, Items
  <2>3. Absent'
    BY <1>2, <2>2 DEF FolderInv, vars, Absent
  <2>4. FoldersUnique'
    BY <1>2 DEF FolderInv, vars, FoldersUnique, Items
  <2>5. QED
    BY <2>1, <2>3, <2>4 DEF FolderInv
<1>3. QED
  BY <1>1, <1>2

(* However many handlers overlap, fail and try again, getOrCreateFolder     *)
(* never leaves two folders of one name in one folder, so that no part of a *)
(* backup is out of reach in the other one.                                 *)
THEOREM FoldersStayUnique == Spec => []FoldersUnique
<1>1. FolderInv => FoldersUnique
  BY DEF FolderInv
<1>2. QED
  BY <1>1, InitFolderInv, NextFolderInv, PTL DEF Spec

-----------------------------------------------------------------------------
(***************************************************************************)
(* Where the cache leads.  A directory is entered in the cache by a handler *)
(* that has just seen its folder, or made it, in the folder the cache has  *)
(* for the directory above (Chained); so two directories never lead to one *)
(* folder, and two handlers, whose paths differ, never to one file.        *)
(* Nothing else takes a folder away: an update and a deletion change the   *)
(* file that the handler found (Holding), no handler but that one does,    *)
(* and a new item takes an identifier that no item has.                    *)
(***************************************************************************)
AllDirs == Dirs \cup {<<>>}

StoreTypes ==
    /\ drive \in [Ids -> Item \cup {None}]
    /\ cache \in [Dirs -> Ids \cup {None}]
    /\ lock \in Calls \cup {None}
    /\ tries \in [Calls -> 1 .. Retries]
    /\ file \in [Calls -> Ids \cup {None}]

Requested(l) == IF l = "idle" THEN {None} ELSE Paths

(* No two calls on one path. *)
Distinct ==
    \A i \in Calls : /\ calls[i].path \in Requested(pc[i])
                     /\ \A j \in Calls : /\ pc[i] # "idle" /\ pc[j] # "idle"
                                         /\ calls[i].path = calls[j].path
                                         => i = j

Chained ==
    \A d \in Dirs : cache[d] # None =>
        Parent(d) # None /\ drive[cache[d]] = NewFolder(d)

Seeks == {"folder", "mkdir"}
Resolves == {"check", "create", "update", "find", "get", "remove"}
Holds == {"update", "get", "remove"}

(* The folder of a path is being looked for, or it is known. *)
Placed ==
    \A i \in Calls : /\ pc[i] \in Seeks => CachedId(Dir(i)) = None
                     /\ pc[i] \in Resolves => CachedId(Dir(i)) # None

Holding == \A i \in Calls : pc[i] \in Holds => file[i] \in Here(i)

CacheInv == StoreTypes /\ Distinct /\ Chained /\ Placed /\ Holding

-----------------------------------------------------------------------------
(* Induction over the naturals, for a set of them. *)
LEMMA Induction ==
    ASSUME NEW S, 0 \in S, \A n \in Nat : n \in S => n + 1 \in S
    PROVE  Nat \subseteq S
<1> DEFINE T == Nat \ S
<1> SUFFICES ASSUME T # {} PROVE FALSE
  OBVIOUS
<1>1. PICK m \in T : \A k \in T : ~(<<k, m>> \in OpToRel(<, Nat))
  <2>1. T \subseteq Nat /\ T # {}
    OBVIOUS
  <2> HIDE DEF T
  <2> QED
    BY <2>1, NatLessThanWellFounded, WFMin
<1>2. m \in Nat \ {0} /\ m - 1 \in Nat
  OBVIOUS
<1>3. m - 1 \in T
  BY <1>2
<1>4. <<m - 1, m>> \in OpToRel(<, Nat)
  BY <1>2 DEF OpToRel
<1>5. QED
  BY <1>1, <1>3, <1>4

(* A directory is a folder's path: the one above it, and a name. *)
LEMMA DirsAre ==
    ASSUME NEW d \in Dirs
    PROVE  /\ d \in Seq(STRING) /\ Len(d) \in Nat \ {0} /\ d # <<>>
           /\ Front(d) \in AllDirs /\ Front(d) \in Seq(STRING) /\ Len(Front(d)) = Len(d) - 1
           /\ Last(d) \in STRING
           /\ \A n \in 1 .. Len(d) : SubSeq(d, 1, n) \in Dirs
<1> PICK x \in Paths : \E m \in 1 .. Len(x) - 1 : d = SubSeq(x, 1, m)
  BY DEF Dirs
<1>1. PICK m \in 1 .. Len(x) - 1 : d = SubSeq(x, 1, m)
  OBVIOUS
<1>2. x \in Seq(STRING) /\ Len(x) \in Nat
  BY PathsAssumption
<1>3. d \in Seq(STRING) /\ Len(d) = m
  BY <1>1, <1>2
<1>4. m \in Nat \ {0} /\ d # <<>>
  BY <1>1, <1>2, <1>3
<1>5. ASSUME NEW n \in 1 .. Len(d)
      PROVE  SubSeq(d, 1, n) \in Dirs
  <2>1. SubSeq(d, 1, n) = SubSeq(x, 1, n) /\ n \in 1 .. Len(x) - 1
    BY <1>1, <1>2, <1>3
  <2>2. QED
    BY <2>1 DEF Dirs
<1>6. Front(d) \in AllDirs
  <2>1. CASE m = 1
    BY <1>3, <2>1 DEF AllDirs, Front
  <2>2. CASE m # 1
    BY <1>3, <1>4, <1>5, <2>2 DEF AllDirs, Front
  <2>3. QED
    BY <2>1, <2>2
<1>7. Front(d) \in Seq(STRING) /\ Len(Front(d)) = Len(d) - 1 /\ Last(d) \in STRING
  BY <1>3, <1>4 DEF Front, Last
<1>8. QED
  BY <1>3, <1>4, <1>5, <1>6, <1>7

(* Paths are told apart by their directories and their names. *)
LEMMA FrontLast ==
    ASSUME NEW s \in Seq(STRING), NEW t \in Seq(STRING), Len(s) > 0, Len(t) > 0,
           Front(s) = Front(t), Last(s) = Last(t)
    PROVE  s = t
<1>1. ASSUME NEW u \in Seq(STRING), Len(u) > 0
      PROVE  Len(u) \in Nat \ {0} /\ Len(Front(u)) = Len(u) - 1
  <2>1. Len(u) \in Nat \ {0}
    BY <1>1, LenProperties
  <2>2. PICK n \in Nat \ {0} : Len(u) = n
    BY <2>1
  <2>3. Len(SubSeq(u, 1, n - 1)) = n - 1
    BY <2>2
  <2>4. QED
    BY <2>2, <2>3 DEF Front
<1>2. Len(s) = Len(t)
  BY <1>1
<1>3. ASSUME NEW n \in 1 .. Len(s)
      PROVE  s[n] = t[n]
  <2>1. CASE n = Len(s)
    BY <1>2, <2>1 DEF Last
  <2>2. CASE n # Len(s)
    <3>1. Front(s)[n] = s[n] /\ Front(t)[n] = t[n]
      BY <1>2, <2>2 DEF Front
    <3>2. QED
      BY <3>1
  <2>3. QED
    BY <2>1, <2>2
<1>4. QED
  BY <1>2, <1>3, SeqEqual

LEMMA PathsAre ==
    ASSUME NEW x \in Paths
    PROVE  x \in Seq(STRING) /\ Len(x) > 0 /\ Front(x) \in AllDirs /\ Last(x) \in STRING
<1>1. x \in Seq(STRING) /\ Len(x) > 0 /\ Len(x) \in Nat
  BY PathsAssumption
<1>2. CASE Len(x) = 1
  BY <1>1, <1>2 DEF AllDirs, Front, Last
<1>3. CASE Len(x) # 1
  <2>1. \A n \in Nat : n > 0 /\ n # 1 => n - 1 \in 1 .. (n - 1)
    OBVIOUS
  <2>. Len(x) - 1 \in 1 .. (Len(x) - 1)
    BY <1>1, <1>3, <2>1
  <2>2. Front(x) \in Dirs
    BY DEF Dirs, Front
  <2>3. QED
    BY <1>1, <2>2 DEF AllDirs, Last
<1>4. QED
  BY <1>1, <1>2, <1>3

-----------------------------------------------------------------------------
(* The folders above a cached one are cached. *)
LEMMA ChainClosed ==
    ASSUME Chained, NEW d \in Dirs, cache[d] # None, NEW n \in 1 .. Len(d)
    PROVE  cache[SubSeq(d, 1, n)] # None
<1> DEFINE S == {k \in Nat : k < Len(d) => cache[SubSeq(d, 1, Len(d) - k)] # None}
<1>1. Len(d) \in Nat \ {0} /\ d \in Seq(STRING)
  BY DirsAre
<1>2. 0 \in S
  <2>1. SubSeq(d, 1, Len(d)) = d
    BY <1>1, SubSeqFull
  <2>2. SubSeq(d, 1, Len(d) - 0) = d
    BY <1>1, <2>1
  <2>3. QED
    BY <2>2
<1>3. ASSUME NEW k \in Nat, k \in S, k + 1 < Len(d)
      PROVE  cache[SubSeq(d, 1, Len(d) - (k + 1))] # None
  <2> DEFINE m == Len(d) - (k + 1)
             e == SubSeq(d, 1, m + 1)
  <2>1. m \in Nat \ {0} /\ m + 1 \in 1 .. Len(d) /\ Len(d) - k = m + 1
    BY <1>1, <1>3
  <2> HIDE DEF m
  <2>2. e \in Dirs /\ Len(e) = m + 1 /\ SubSeq(e, 1, m) = SubSeq(d, 1, m)
    BY <1>1, <2>1, DirsAre
  <2>3. cache[e] # None
    BY <1>1, <1>3, <2>1
  <2> HIDE DEF e
  <2>4. Front(e) = SubSeq(d, 1, m) /\ Front(e) # <<>>
    <3>1. Front(e) = SubSeq(e, 1, m)
      BY <2>1, <2>2 DEF Front
    <3>2. Len(Front(e)) = m
      BY <2>1, <2>2, DirsAre
    <3>3. QED
      BY <2>1, <2>2, <3>1, <3>2
  <2>5. CachedId(Front(e)) # None
    BY <2>2, <2>3 DEF Chained, Parent
  <2>6. cache[SubSeq(d, 1, m)] # None
    BY <2>4, <2>5 DEF CachedId
  <2>7. QED
    BY <2>6 DEF m
<1>4. \A k \in Nat : k \in S => k + 1 \in S
  <2> DEFINE At(k) == cache[SubSeq(d, 1, Len(d) - k)] # None
  <2>1. S = {k \in Nat : k < Len(d) => At(k)}
    OBVIOUS
  <2>2. \A k \in Nat : k \in S /\ k + 1 < Len(d) => At(k + 1)
    BY <1>3
  <2> HIDE DEF At, S
  <2> QED
    BY <1>1, <2>1, <2>2
<1>5. Nat \subseteq S
  <2> HIDE DEF S
  <2> QED
    BY <1>2, <1>4, Induction
<1>6. Len(d) - n \in Nat /\ Len(d) - n < Len(d) /\ Len(d) - (Len(d) - n) = n
  BY <1>1
<1>7. QED
  BY <1>5, <1>6

(* The folder that a handler looks for next.                                *)
LEMMA MissingIs ==
    ASSUME NEW i \in Calls, calls[i].path \in Paths, CachedId(Dir(i)) = None
    PROVE  Missing(i) \in Dirs /\ cache[Missing(i)] = None /\ Parent(Missing(i)) # None
<1> DEFINE dir == Dir(i)
           gaps == {n \in 1 .. Len(dir) : cache[SubSeq(dir, 1, n)] = None}
           Fits(d) == /\ IsPrefix(d, dir)
                      /\ cache[d] = None
                      /\ \A n \in 1 .. Len(d) - 1 : cache[SubSeq(d, 1, n)] # None
<1>1. dir \in Dirs /\ cache[dir] = None
  BY PathsAre, DistinctAssumption DEF Dir, CachedId, AllDirs
<1>2. dir \in Seq(STRING) /\ Len(dir) \in Nat \ {0} /\ SubSeq(dir, 1, Len(dir)) = dir
  BY <1>1, DirsAre, SubSeqFull
<1> HIDE DEF dir
<1>3. PICK m \in gaps : \A k \in gaps : ~(<<k, m>> \in OpToRel(<, Nat))
  <2>1. gaps \subseteq Nat
    BY <1>2
  <2>2. Len(dir) \in 1 .. Len(dir) /\ cache[SubSeq(dir, 1, Len(dir))] = None
    <3> \A n \in Nat \ {0} : n \in 1 .. n
      OBVIOUS
    <3>1. Len(dir) \in 1 .. Len(dir)
      BY <1>2
    <3>2. cache[SubSeq(dir, 1, Len(dir))] = None
      BY <1>1, <1>2, Zenon
    <3> QED
      BY <3>1, <3>2
  <2>3. gaps # {}
    BY <2>2
  <2> HIDE DEF gaps
  <2> QED
    BY <2>1, <2>3, NatLessThanWellFounded, WFMin
<1>4. \A k \in gaps : ~(k < m)
  <2>1. gaps \subseteq Nat
    BY <1>2
  <2> HIDE DEF gaps
  <2> QED
    BY <1>3, <2>1 DEF OpToRel
<1>5. SubSeq(dir, 1, m) \in Dirs /\ Fits(SubSeq(dir, 1, m))
  <2> DEFINE d == SubSeq(dir, 1, m)
  <2>1. m \in 1 .. Len(dir) /\ d \in Dirs /\ Len(d) = m /\ cache[d] = None
    BY <1>1, <1>2, DirsAre
  <2>2. IsPrefix(d, dir)
    BY <1>2, <2>1 DEF IsPrefix
  <2>3. ASSUME NEW n \in 1 .. Len(d) - 1
        PROVE  cache[SubSeq(d, 1, n)] # None
    <3>1. SubSeq(d, 1, n) = SubSeq(dir, 1, n) /\ n \in 1 .. Len(dir) /\ n < m
      BY <1>2, <2>1
    <3>2. QED
      BY <1>4, <3>1
  <2>4. QED
    BY <2>1, <2>2, <2>3
<1>6. Missing(i) = CHOOSE d \in Dirs : Fits(d)
  BY <1>1, <1>2 DEF Missing, Resolved, dir
<1> DEFINE d == Missing(i)
<1>7. d \in Dirs /\ Fits(d)
  <2> HIDE DEF Fits
  <2> QED
    BY <1>5, <1>6
<1>8. CachedId(Front(d)) # None
  <2>1. Len(d) \in Nat \ {0}
    BY <1>7, DirsAre
  <2>2. CASE Len(d) = 1
    BY <2>2, DistinctAssumption DEF CachedId, Front
  <2>3. CASE Len(d) # 1
    <3> \A n \in Nat \ {0} : n # 1 => n - 1 \in 1 .. (n - 1)
      OBVIOUS
    <3>1. Len(d) - 1 \in 1 .. (Len(d) - 1)
      BY <2>1, <2>3
    <3>2. cache[Front(d)] # None
      BY <1>7, <3>1 DEF Front
    <3>3. QED
      BY <3>2, DistinctAssumption DEF CachedId
  <2>4. QED
    BY <2>2, <2>3
<1>9. QED
  BY <1>7, <1>8 DEF Parent

(* Two directories lead to two folders. *)
LEMMA CacheInjective ==
    ASSUME StoreTypes, Chained, NEW d \in AllDirs, NEW e \in AllDirs,
           CachedId(d) = CachedId(e), CachedId(d) # None
    PROVE  d = e
<1> DEFINE Good(a) == \A b \in AllDirs : CachedId(a) = CachedId(b) /\ CachedId(a) # None => a = b
           S == {n \in Nat : \A a \in AllDirs : Len(a) = n => Good(a)}
<1>1. \A a \in Dirs : a # <<>> /\ Len(a) \in Nat \ {0} /\ CachedId(a) \in Ids \cup {None}
  BY DirsAre DEF StoreTypes, CachedId
<1>2. CachedId(<<>>) = Base /\ Len(<<>>) = 0 /\ <<>> \in AllDirs
  BY DEF CachedId, AllDirs
<1>3. 0 \in S
  <2>1. \A b \in AllDirs : CachedId(b) = Base => b = <<>>
    BY <1>1, DistinctAssumption DEF AllDirs
  <2>2. \A a \in AllDirs : Len(a) = 0 => a = <<>>
    BY <1>1 DEF AllDirs
  <2>3. Good(<<>>)
    BY <1>2, <2>1
  <2>4. QED
    BY <2>2, <2>3
<1>4. ASSUME NEW n \in Nat, n \in S
      PROVE  n + 1 \in S
  <2> SUFFICES ASSUME NEW a \in AllDirs, Len(a) = n + 1, NEW b \in AllDirs,
                      CachedId(a) = CachedId(b), CachedId(a) # None
               PROVE  a = b
    OBVIOUS
  <2>1. a \in Dirs
    BY <1>2 DEF AllDirs
  <2>2. b \in Dirs
    BY <1>1, <1>2, <2>1, DistinctAssumption DEF AllDirs
  <2>3. cache[a] = cache[b] /\ cache[a] # None
    BY <1>1, <2>1, <2>2 DEF CachedId
  <2>4. NewFolder(a) = NewFolder(b) /\ Parent(a) # None
    BY <2>1, <2>2, <2>3 DEF Chained
  <2>5. CachedId(Front(a)) = CachedId(Front(b)) /\ Last(a) = Last(b) /\ CachedId(Front(a)) # None
    BY <2>4 DEF NewFolder, Parent
  <2>6. Front(a) \in AllDirs /\ Front(b) \in AllDirs /\ Len(Front(a)) = n
    BY <2>1, <2>2, DirsAre
  <2>7. Front(a) = Front(b)
    BY <1>4, <2>5, <2>6
  <2>8. QED
    BY <2>1, <2>2, <2>5, <2>7, DirsAre, FrontLast
<1>5. Nat \subseteq S
  <2> HIDE DEF S
  <2> QED
    BY <1>3, <1>4, Induction
<1>6. Len(d) \in Nat
  BY <1>1, <1>2 DEF AllDirs
<1>7. QED
  BY <1>5, <1>6

(* A handler's file is no folder, and no other handler's.                   *)
LEMMA HereIs ==
    ASSUME CacheInv, NEW i \in Calls, pc[i] \in Holds
    PROVE  /\ file[i] \in Ids /\ drive[file[i]] # None /\ drive[file[i]].value # Folder
           /\ \A j \in Calls : pc[j] \in Holds /\ file[j] = file[i] => j = i
<1>1. ASSUME NEW j \in Calls, pc[j] \in Holds
      PROVE  /\ file[j] \in Ids /\ drive[file[j]] # None /\ drive[file[j]].value # Folder
             /\ drive[file[j]].parent = CachedId(Dir(j)) /\ drive[file[j]].name = Name(j)
             /\ CachedId(Dir(j)) # None
             /\ calls[j].path \in Paths /\ pc[j] # "idle"
  BY <1>1 DEF CacheInv, Holding, Here, Files, Items, Placed, Holds, Resolves, Distinct, Requested
<1>2. ASSUME NEW j \in Calls, pc[j] \in Holds, file[j] = file[i]
      PROVE  j = i
  <2>1. CachedId(Dir(i)) = CachedId(Dir(j)) /\ Name(i) = Name(j)
    BY <1>1, <1>2
  <2>2. Front(calls[i].path) = Front(calls[j].path)
    BY <1>1, <1>2, <2>1, PathsAre, CacheInjective DEF CacheInv, Dir
  <2>3. calls[i].path = calls[j].path
    BY <1>1, <1>2, <2>1, <2>2, PathsAre, FrontLast DEF Name
  <2>4. QED
    BY <1>1, <1>2, <2>3 DEF CacheInv, Distinct
<1>3. QED
  BY <1>1, <1>2

-----------------------------------------------------------------------------
(* What a step of handler i does to the drive, to the cache, and to its own *)
(* call; the folders and the other handlers' files stay where they are.     *)
DriveGoes(i) ==
    /\ drive' \in [Ids -> Item \cup {None}]
    /\ \A d \in Dirs : cache[d] # None => drive'[cache[d]] = drive[cache[d]]
    /\ \A j \in Calls \ {i} : pc[j] \in Holds => drive'[file[j]] = drive[file[j]]

CacheGoes(i) ==
    /\ cache' \in [Dirs -> Ids \cup {None}]
    /\ lock' \in Calls \cup {None}
    /\ Chained'
    /\ \A d \in Dirs : cache[d] # None => cache'[d] = cache[d]
    /\ lock = i \/ cache' = cache

Becomes(i, l, r, fl, t) ==
    /\ pc' = [pc EXCEPT ![i] = l] /\ l \in Places
    /\ calls' = [calls EXCEPT ![i] = r] /\ r.path \in Requested(l)
    /\ file' = [file EXCEPT ![i] = fl] /\ fl \in Ids \cup {None}
    /\ tries' = [tries EXCEPT ![i] = t] /\ t \in 1 .. Retries
    /\ l # "idle" => \A j \in Calls \ {i} : pc[j] # "idle" => calls[j].path # r.path
    /\ l \in Seeks => CachedId(Dir(i))' = None
    /\ l \in Resolves => CachedId(Dir(i))' # None
    /\ l \in Holds => fl \in Here(i)'

LEMMA StoreStep ==
    ASSUME FolderInv, CacheInv, NEW i \in Calls, NEW l, NEW r, NEW fl, NEW t,
           Becomes(i, l, r, fl, t), DriveGoes(i), CacheGoes(i)
    PROVE  CacheInv'
<1>1. StoreTypes'
  BY DEF CacheInv, StoreTypes, Becomes, DriveGoes, CacheGoes
<1>2. /\ pc'[i] = l /\ \A j \in Calls \ {i} : pc'[j] = pc[j]
      /\ calls'[i] = r /\ \A j \in Calls \ {i} : calls'[j] = calls[j]
      /\ file'[i] = fl /\ \A j \in Calls \ {i} : file'[j] = file[j]
  BY DEF FolderInv, Shaped, CacheInv, StoreTypes, Becomes
<1>3. Distinct'
  BY <1>2 DEF CacheInv, Distinct, Becomes
<1>4. ASSUME NEW j \in Calls, j # i, pc[j] \in Seeks \cup Resolves
      PROVE  CachedId(Dir(j))' = CachedId(Dir(j))
  <2>1. Dir(j)' = Dir(j) /\ Dir(j) \in AllDirs
    <3>1. pc[j] # "idle"
      BY <1>4 DEF Seeks, Resolves
    <3>2. calls[j].path \in Paths
      BY <3>1 DEF CacheInv, Distinct, Requested
    <3>3. QED
      BY <1>2, <1>4, <3>2, PathsAre DEF Dir
  <2>2. CASE pc[j] \in Seeks
    <3>1. lock = j
      BY <2>2 DEF FolderInv, Locked, Seeks
    <3>2. cache' = cache
      BY <3>1, <1>4 DEF CacheGoes
    <3>3. QED
      BY <2>1, <3>2 DEF CachedId
  <2>3. CASE pc[j] \in Resolves
    BY <2>1, <2>3 DEF CachedId, CacheGoes, CacheInv, Placed, AllDirs
  <2>4. QED
    BY <1>4, <2>2, <2>3
<1>5. Placed'
  <2> SUFFICES ASSUME NEW j \in Calls
               PROVE  /\ pc'[j] \in Seeks => CachedId(Dir(j))' = None
                      /\ pc'[j] \in Resolves => CachedId(Dir(j))' # None
    BY DEF Placed
  <2>1. CASE j = i
    BY <1>2, <2>1 DEF Becomes
  <2>2. CASE j # i
    BY <1>2, <1>4, <2>2 DEF CacheInv, Placed
  <2>3. QED
    BY <2>1, <2>2
<1>6. Holding'
  <2> SUFFICES ASSUME NEW j \in Calls, pc'[j] \in Holds PROVE file'[j] \in Here(j)'
    BY DEF Holding
  <2>1. CASE j = i
    BY <1>2, <2>1 DEF Becomes
  <2>2. CASE j # i
    <3>1. pc[j] \in Holds /\ file'[j] = file[j] /\ calls'[j] = calls[j]
      BY <1>2, <2>2
    <3>2. CachedId(Dir(j))' = CachedId(Dir(j)) /\ Name(j)' = Name(j)
      BY <1>4, <2>2, <3>1 DEF Holds, Resolves, Name
    <3>3. file[j] \in Here(j) /\ drive'[file[j]] = drive[file[j]]
      BY <2>2, <3>1 DEF CacheInv, Holding, DriveGoes
    <3>4. QED
      BY <3>1, <3>2, <3>3 DEF Here, Files, Items
  <2>3. QED
    BY <2>1, <2>2
<1>7. QED
  BY <1>1, <1>3, <1>5, <1>6 DEF CacheInv, CacheGoes

-----------------------------------------------------------------------------
(* The drive: nothing changes, or one item that is no cached folder and no  *)
(* other handler's file.                                                    *)
LEMMA DriveStays ==
    ASSUME CacheInv, UNCHANGED drive, NEW i \in Calls
    PROVE  DriveGoes(i)
BY DEF CacheInv, StoreTypes, DriveGoes

LEMMA DriveChanges ==
    ASSUME CacheInv, NEW i \in Calls, NEW f \in Ids, NEW r \in Item \cup {None},
           drive[f] = None \/ (pc[i] \in Holds /\ f = file[i]),
           drive' = [drive EXCEPT ![f] = r]
    PROVE  DriveGoes(i) /\ drive'[f] = r
<1>1. drive' \in [Ids -> Item \cup {None}] /\ drive'[f] = r
  BY DEF CacheInv, StoreTypes
<1>2. \A g \in Ids : g # f => drive'[g] = drive[g]
  BY DEF CacheInv, StoreTypes
<1>3. ASSUME NEW d \in Dirs, cache[d] # None
      PROVE  cache[d] \in Ids /\ cache[d] # f
  <2>1. cache[d] \in Ids /\ drive[cache[d]] = NewFolder(d) /\ Parent(d) \in Ids \cup {Base}
    <3>1. Front(d) \in AllDirs /\ Parent(d) # None
      BY <1>3, DirsAre DEF CacheInv, Chained
    <3>2. QED
      BY <1>3, <3>1 DEF CacheInv, StoreTypes, Chained, Parent, CachedId, AllDirs
  <2>2. NewFolder(d) \in Item /\ NewFolder(d).value = Folder
    BY <2>1, DirsAre DEF NewFolder, Item
  <2>3. drive[f] # NewFolder(d)
    BY <2>2, HereIs, ItemAssumption
  <2>4. QED
    BY <2>1, <2>3
<1>4. ASSUME NEW j \in Calls \ {i}, pc[j] \in Holds
      PROVE  file[j] \in Ids /\ file[j] # f
  <2>1. file[j] \in Ids /\ drive[file[j]] # None
    BY <1>4, HereIs
  <2>2. file[j] = file[i] /\ pc[i] \in Holds => FALSE
    BY <1>4, HereIs
  <2>3. QED
    BY <2>1, <2>2
<1>5. QED
  BY <1>1, <1>2, <1>3, <1>4 DEF DriveGoes

LEMMA FreeIs ==
    ASSUME NEW f \in Free
    PROVE  f \in Ids /\ drive[f] = None
BY DEF Free, Items

(* The cache: nothing changes, or the folder that was missing is entered.   *)
LEMMA CacheStays ==
    ASSUME CacheInv, NEW i \in Calls, DriveGoes(i), UNCHANGED cache, lock' \in Calls \cup {None}
    PROVE  CacheGoes(i)
<1>1. \A d : Parent(d)' = Parent(d)
  BY DEF Parent, CachedId
<1>2. \A d : NewFolder(d)' = NewFolder(d)
  BY <1>1 DEF NewFolder
<1>3. Chained'
  BY <1>1, <1>2 DEF CacheInv, Chained, DriveGoes
<1>4. QED
  BY <1>3 DEF CacheInv, StoreTypes, CacheGoes

LEMMA CacheGrows ==
    ASSUME CacheInv, NEW i \in Calls, DriveGoes(i), lock = i, lock' \in {i, None},
           NEW d \in Dirs, cache[d] = None, Parent(d) # None,
           NEW f \in Ids, drive'[f] = NewFolder(d), cache' = [cache EXCEPT ![d] = f]
    PROVE  CacheGoes(i)
<1>1. /\ cache' \in [Dirs -> Ids \cup {None}] /\ cache'[d] = f
      /\ \A e \in Dirs \ {d} : cache'[e] = cache[e]
  BY DEF CacheInv, StoreTypes
<1>2. \A e \in Dirs : cache[e] # None => cache'[e] = cache[e]
  BY <1>1
<1>3. ASSUME NEW e \in Dirs, Parent(e) # None
      PROVE  Parent(e)' = Parent(e) /\ NewFolder(e)' = NewFolder(e)
  <2>1. Front(e) \in AllDirs
    BY DirsAre
  <2>2. Parent(e)' = Parent(e)
    BY <1>2, <1>3, <2>1 DEF Parent, CachedId, AllDirs
  <2>3. QED
    BY <2>2 DEF NewFolder
<1>4. Chained'
  <2> SUFFICES ASSUME NEW e \in Dirs, cache'[e] # None
               PROVE  Parent(e)' # None /\ drive'[cache'[e]] = NewFolder(e)'
    BY DEF Chained
  <2>1. CASE e = d
    BY <1>1, <1>3, <2>1
  <2>2. CASE e # d
    <3>1. cache'[e] = cache[e] /\ Parent(e) # None /\ drive[cache[e]] = NewFolder(e)
      BY <1>1, <2>2 DEF CacheInv, Chained
    <3>2. QED
      BY <1>3, <3>1 DEF DriveGoes
  <2>3. QED
    BY <2>1, <2>2
<1>5. QED
  BY <1>1, <1>2, <1>4 DEF CacheGoes

-----------------------------------------------------------------------------
(* A handler that goes on with its request. *)
LEMMA GoesOn ==
    ASSUME FolderInv, CacheInv, NEW i \in Calls, pc[i] # "idle",
           NEW l \in Places \ {"idle"}, Goto(i, l),
           NEW r, calls' = [calls EXCEPT ![i] = r], r.path = calls[i].path,
           NEW fl \in Ids \cup {None}, file' = [file EXCEPT ![i] = fl],
           NEW t \in 1 .. Retries, tries' = [tries EXCEPT ![i] = t],
           l \in Seeks => CachedId(Dir(i))' = None,
           l \in Resolves => CachedId(Dir(i))' # None,
           l \in Holds => fl \in Here(i)',
           DriveGoes(i), CacheGoes(i)
    PROVE  CacheInv'
<1>1. r.path \in Requested(l)
  BY DEF CacheInv, Distinct, Requested
<1>2. \A j \in Calls \ {i} : pc[j] # "idle" => calls[j].path # r.path
  BY DEF CacheInv, Distinct
<1>3. Becomes(i, l, r, fl, t)
  BY <1>1, <1>2 DEF Becomes, Goto
<1>4. QED
  BY <1>3, StoreStep

LEMMA Unchanged ==
    ASSUME FolderInv, CacheInv, NEW i \in Calls
    PROVE  /\ calls = [calls EXCEPT ![i] = calls[i]]
           /\ file = [file EXCEPT ![i] = file[i]] /\ file[i] \in Ids \cup {None}
           /\ tries = [tries EXCEPT ![i] = tries[i]] /\ tries[i] \in 1 .. Retries
           /\ lock \in Calls \cup {None}
           /\ pc[i] # "idle" => calls[i].path \in Paths
BY DEF FolderInv, Shaped, CacheInv, StoreTypes, Distinct, Requested

(* What a handler knows that did not change. *)
LEMMA SamePlace ==
    ASSUME NEW i \in Calls, UNCHANGED <<cache, drive>>, calls'[i].path = calls[i].path
    PROVE  /\ CachedId(Dir(i))' = CachedId(Dir(i))
           /\ Here(i)' = Here(i)
<1>1. Dir(i)' = Dir(i) /\ Name(i)' = Name(i)
  BY DEF Dir, Name
<1>2. CachedId(Dir(i))' = CachedId(Dir(i))
  BY <1>1 DEF CachedId
<1>3. QED
  BY <1>1, <1>2 DEF Here, Files, Items

LEMMA ReplyStores ==
    ASSUME FolderInv, CacheInv, NEW i \in Calls, NEW res, Reply(i, res), UNCHANGED tries,
           DriveGoes(i), CacheGoes(i)
    PROVE  CacheInv'
<1> DEFINE r(v) == [Idle EXCEPT !.res = res, !.value = v]
<1>1. PICK v : calls' = [calls EXCEPT ![i] = r(v)]
  BY DEF Reply
<1>2. r(v).path \in Requested("idle")
  BY DEF Idle, Requested
<1>3. tries' = [tries EXCEPT ![i] = tries[i]] /\ tries[i] \in 1 .. Retries
  BY Unchanged
<1> HIDE DEF r
<1>4. Becomes(i, "idle", r(v), None, tries[i])
  BY <1>1, <1>2, <1>3 DEF Reply, Becomes, Goto, Places, Seeks, Resolves, Holds
<1>5. QED
  BY <1>4, StoreStep

LEMMA AttemptStores ==
    ASSUME FolderInv, CacheInv, NEW i \in Calls, pc[i] # "idle", Attempt(i),
           DriveGoes(i), CacheGoes(i)
    PROVE  CacheInv'
<1>1. CASE Exhausted(i)
  BY <1>1, ReplyStores DEF Attempt, GiveUp
<1>2. CASE ~Exhausted(i)
  <2>1. /\ tries' = [tries EXCEPT ![i] = tries[i] + 1] /\ tries[i] + 1 \in 1 .. Retries
        /\ file' = [file EXCEPT ![i] = None]
        /\ Goto(i, "lookup") /\ calls' = [calls EXCEPT ![i] = calls[i]]
    <3>1. tries[i] # Retries
      BY <1>2 DEF Exhausted
    <3>2. tries[i] + 1 \in 1 .. Retries
      BY <3>1, Unchanged, RetriesAssumption
    <3>3. QED
      BY <1>2, <3>2, Unchanged DEF Attempt
  <2>2. "lookup" \in Places \ ({"idle"} \cup Seeks \cup Resolves \cup Holds)
    BY DEF Places, Seeks, Resolves, Holds
  <2>3. QED
    BY <2>1, <2>2, GoesOn
<1>3. QED
  BY <1>1, <1>2

LEMMA StartStores ==
    ASSUME FolderInv, CacheInv, NEW i \in Calls, Start(i)
    PROVE  CacheInv'
<1>1. PICK op \in {"upload", "download", "delete"}, x \in Paths :
         \E v \in IF op = "upload" THEN Contents[x] ELSE {None} :
            /\ \A j \in Calls : pc[j] # "idle" => calls[j].path # x
            /\ calls' = [calls EXCEPT ![i] =
                  [op |-> op, path |-> x, value |-> v, did |-> FALSE, res |-> "running"]]
  BY DEF Start
<1> DEFINE r(v) == [op |-> op, path |-> x, value |-> v, did |-> FALSE, res |-> "running"]
<1>2. PICK v : calls' = [calls EXCEPT ![i] = r(v)] /\ \A j \in Calls : pc[j] # "idle" => calls[j].path # x
  BY <1>1
<1>3. r(v).path = x
  OBVIOUS
<1> HIDE DEF r
<1>4. /\ file' = [file EXCEPT ![i] = file[i]] /\ file[i] \in Ids \cup {None}
      /\ tries' = [tries EXCEPT ![i] = 1] /\ 1 \in 1 .. Retries
      /\ pc' = [pc EXCEPT ![i] = "lookup"]
  BY Unchanged, RetriesAssumption DEF Start, Goto
<1>5. Becomes(i, "lookup", r(v), file[i], 1)
  BY <1>2, <1>3, <1>4 DEF Becomes, Places, Seeks, Resolves, Holds, Requested
<1>6. DriveGoes(i) /\ CacheGoes(i)
  BY DriveStays, CacheStays, Unchanged DEF Start
<1>7. QED
  BY <1>5, <1>6, StoreStep

(* A step that only moves the handler. *)
LEMMA MoveStores ==
    ASSUME FolderInv, CacheInv, NEW i \in Calls, pc[i] # "idle",
           NEW l \in Places \ ({"idle"} \cup Holds), Goto(i, l),
           UNCHANGED <<drive, cache, calls, tries, file>>, lock' \in Calls \cup {None},
           l \in Seeks => CachedId(Dir(i)) = None,
           l \in Resolves => CachedId(Dir(i)) # None
    PROVE  CacheInv'
<1>1. CachedId(Dir(i))' = CachedId(Dir(i))
  BY SamePlace
<1>2. DriveGoes(i) /\ CacheGoes(i)
  BY DriveStays, CacheStays
<1>3. /\ calls' = [calls EXCEPT ![i] = calls[i]]
      /\ file' = [file EXCEPT ![i] = file[i]] /\ file[i] \in Ids \cup {None}
      /\ tries' = [tries EXCEPT ![i] = tries[i]] /\ tries[i] \in 1 .. Retries
  BY Unchanged
<1>4. QED
  BY <1>1, <1>2, <1>3, GoesOn

(* The folder that was found or made is entered in the cache. *)
LEMMA KnownStores ==
    ASSUME FolderInv, CacheInv, NEW i \in Calls, pc[i] \in Seeks, NEW f \in Ids, Known(i, f),
           DriveGoes(i), drive'[f] = NewFolder(Missing(i)), UNCHANGED <<calls, tries, file>>
    PROVE  CacheInv'
<1> DEFINE d == Missing(i)
<1>1. pc[i] # "idle" /\ lock = i /\ CachedId(Dir(i)) = None
  BY DEF Seeks, FolderInv, Locked, CacheInv, Placed
<1>2. d \in Dirs /\ cache[d] = None /\ Parent(d) # None
  BY <1>1, Unchanged, MissingIs
<1>3. Dir(i) \in Dirs /\ cache[Dir(i)] = None /\ Dir(i) # <<>>
  <2>1. Dir(i) \in AllDirs
    BY <1>1, Unchanged, PathsAre DEF Dir
  <2>2. QED
    BY <1>1, <2>1, DistinctAssumption DEF CachedId, AllDirs
<1>4. cache' = [cache EXCEPT ![d] = f] /\ lock' \in {i, None}
  BY <1>1 DEF Known, CacheKey
<1>5. CacheGoes(i)
  BY <1>1, <1>2, <1>4, CacheGrows
<1>6. CachedId(Dir(i))' = cache'[Dir(i)]
  BY <1>3 DEF CachedId, Dir
<1>7. /\ calls' = [calls EXCEPT ![i] = calls[i]]
      /\ file' = [file EXCEPT ![i] = file[i]] /\ file[i] \in Ids \cup {None}
      /\ tries' = [tries EXCEPT ![i] = tries[i]] /\ tries[i] \in 1 .. Retries
  BY Unchanged
<1>8. CASE d = Dir(i)
  <2>1. cache'[Dir(i)] = f /\ f # None
    BY <1>3, <1>4, <1>8, DistinctAssumption DEF CacheInv, StoreTypes
  <2>2. PICK l \in {"check", "find"} : Goto(i, l)
    BY <1>8 DEF Known, Operation
  <2>3. l \in Places \ ({"idle"} \cup Holds \cup Seeks)
    BY DEF Places, Holds, Seeks
  <2>4. QED
    BY <1>1, <1>5, <1>6, <1>7, <2>1, <2>2, <2>3, GoesOn
<1>9. CASE d # Dir(i)
  <2>1. cache'[Dir(i)] = None
    BY <1>3, <1>4, <1>9 DEF CacheInv, StoreTypes
  <2>2. Goto(i, "folder") /\ "folder" \in Places \ ({"idle"} \cup Holds \cup Resolves)
    BY <1>9 DEF Known, Places, Holds, Resolves
  <2>3. QED
    BY <1>1, <1>5, <1>6, <1>7, <2>1, <2>2, GoesOn
<1>10. QED
  BY <1>8, <1>9

LEMMA MissingFolder ==
    ASSUME CacheInv, NEW i \in Calls, pc[i] \in Seeks
    PROVE  NewFolder(Missing(i)) \in Item
<1> DEFINE d == Missing(i)
<1>1. d \in Dirs /\ Parent(d) # None
  BY Unchanged, MissingIs DEF CacheInv, Placed, Seeks, Distinct, Requested
<1> HIDE DEF d
<1>2. Parent(d) \in Ids \cup {Base} /\ Last(d) \in STRING
  BY <1>1, DirsAre DEF Parent, CachedId, CacheInv, StoreTypes, AllDirs
<1>3. NewFolder(d) \in Item
  BY <1>2 DEF NewFolder, Item
<1>4. QED
  BY <1>3 DEF d

LEMMA ResolveStores ==
    ASSUME FolderInv, CacheInv, NEW i \in Calls, Resolve(i)
    PROVE  CacheInv'
<1>1. CASE Lookup(i)
  <2>1. pc[i] # "idle" /\ UNCHANGED <<drive, cache, calls, tries, file>> /\ lock' \in Calls \cup {None}
    BY <1>1, Unchanged DEF Lookup
  <2>2. CASE CachedId(Dir(i)) # None
    <3>1. PICK l \in {"check", "find"} : Goto(i, l)
      BY <1>1, <2>2 DEF Lookup, Operation
    <3>2. l \in Places \ ({"idle"} \cup Holds \cup Seeks)
      BY DEF Places, Holds, Seeks
    <3>3. QED
      BY <2>1, <2>2, <3>1, <3>2, MoveStores
  <2>3. CASE CachedId(Dir(i)) = None
    <3>1. Goto(i, "lock") /\ "lock" \in Places \ ({"idle"} \cup Holds \cup Seeks \cup Resolves)
      BY <1>1, <2>3 DEF Lookup, Places, Holds, Seeks, Resolves
    <3>2. QED
      BY <2>1, <3>1, MoveStores
  <2>4. QED
    BY <2>2, <2>3
<1>2. CASE Lock(i)
  <2>1. pc[i] # "idle" /\ UNCHANGED <<drive, cache, calls, tries, file>> /\ lock' \in Calls \cup {None}
    BY <1>2, Unchanged DEF Lock
  <2>2. Dir(i) \in AllDirs
    BY <2>1, Unchanged, PathsAre DEF Dir
  <2>3. CASE Resolved(i)
    <3>1. CachedId(Dir(i)) # None
      <4>1. CASE Dir(i) = <<>>
        BY <4>1, DistinctAssumption DEF CachedId
      <4>2. CASE Dir(i) # <<>>
        <5>1. Dir(i) \in Dirs
          BY <2>2, <4>2 DEF AllDirs
        <5>2. Len(Dir(i)) \in 1 .. Len(Dir(i)) /\ SubSeq(Dir(i), 1, Len(Dir(i))) = Dir(i)
          <6>1. \A n \in Nat \ {0} : n \in 1 .. n
            OBVIOUS
          <6>2. QED
            BY <5>1, <6>1, DirsAre, SubSeqFull
        <5>3. cache[Dir(i)] # None
          BY <2>3, <5>2 DEF Resolved
        <5>4. QED
          BY <4>2, <5>3 DEF CachedId
      <4>3. QED
        BY <4>1, <4>2
    <3>2. PICK l \in {"check", "find"} : Goto(i, l)
      BY <1>2, <2>3 DEF Lock, Operation
    <3>3. l \in Places \ ({"idle"} \cup Holds \cup Seeks)
      BY DEF Places, Holds, Seeks
    <3>4. QED
      BY <2>1, <3>1, <3>2, <3>3, MoveStores
  <2>4. CASE ~Resolved(i)
    <3>1. CachedId(Dir(i)) = None
      <4>1. Dir(i) # <<>>
        BY <2>4 DEF Resolved
      <4>2. Dir(i) \in Dirs
        BY <2>2, <4>1 DEF AllDirs
      <4>3. cache[Dir(i)] # None => Resolved(i)
        BY <4>2, ChainClosed DEF Resolved, CacheInv
      <4>4. QED
        BY <2>4, <4>1, <4>3 DEF CachedId
    <3>2. Goto(i, "folder") /\ "folder" \in Places \ ({"idle"} \cup Holds \cup Resolves)
      BY <1>2, <2>4 DEF Lock, Places, Holds, Resolves
    <3>3. QED
      BY <2>1, <3>1, <3>2, MoveStores
  <2>5. QED
    BY <2>3, <2>4
<1>3. CASE FindFolder(i)
  <2>1. /\ pc[i] \in Seeks /\ pc[i] # "idle" /\ UNCHANGED <<drive, calls, tries, file>>
        /\ CachedId(Dir(i)) = None
    BY <1>3 DEF FindFolder, Seeks, CacheInv, Placed
  <2>2. CASE \E f \in Sought(i) : Known(i, f)
    <3>1. PICK f \in Sought(i) : Known(i, f)
      BY <2>2
    <3>2. f \in Ids /\ drive[f] = NewFolder(Missing(i))
      BY <3>1 DEF Sought, Folders, Items, NewFolder
    <3>3. QED
      BY <2>1, <3>1, <3>2, DriveStays, KnownStores
  <2>3. CASE Goto(i, "mkdir") /\ UNCHANGED <<cache, lock>>
    <3>1. "mkdir" \in Places \ ({"idle"} \cup Holds \cup Resolves)
      BY DEF Places, Holds, Resolves
    <3>2. QED
      BY <2>1, <2>3, <3>1, Unchanged, MoveStores
  <2>4. QED
    BY <1>3, <2>2, <2>3 DEF FindFolder, Sought
<1>4. CASE MakeFolder(i)
  <2>1. pc[i] \in Seeks /\ UNCHANGED <<calls, tries, file>>
    BY <1>4 DEF MakeFolder, Seeks
  <2>2. PICK f \in Free : drive' = [drive EXCEPT ![f] = NewFolder(Missing(i))] /\ Known(i, f)
    BY <1>4 DEF MakeFolder
  <2>3. f \in Ids /\ drive[f] = None
    BY FreeIs
  <2>4. DriveGoes(i) /\ drive'[f] = NewFolder(Missing(i))
    BY <2>1, <2>2, <2>3, MissingFolder, DriveChanges
  <2>5. QED
    BY <2>1, <2>2, <2>3, <2>4, KnownStores
<1>5. CASE FolderFails(i)
  <2>1. pc[i] \in Seeks /\ pc[i] # "idle" /\ Attempt(i) /\ UNCHANGED cache /\ lock' \in Calls \cup {None}
    BY <1>5 DEF FolderFails, Seeks
  <2>2. DriveGoes(i)
    <3>1. CASE drive' = drive
      BY <3>1, DriveStays
    <3>2. CASE \E f \in Free : drive' = [drive EXCEPT ![f] = NewFolder(Missing(i))]
      <4>1. PICK f \in Free : drive' = [drive EXCEPT ![f] = NewFolder(Missing(i))]
        BY <3>2
      <4>2. f \in Ids /\ drive[f] = None
        BY FreeIs
      <4>3. QED
        BY <2>1, <4>1, <4>2, MissingFolder, DriveChanges
    <3>3. QED
      BY <1>5, <3>1, <3>2 DEF FolderFails
  <2>3. QED
    BY <2>1, <2>2, CacheStays, AttemptStores
<1>6. QED
  BY <1>1, <1>2, <1>3, <1>4, <1>5 DEF Resolve

-----------------------------------------------------------------------------
(* A file is written where the handler's path leads, and nowhere else. *)
LEMMA WrittenStores ==
    ASSUME FolderInv, CacheInv, NEW i \in Calls,
           (pc[i] = "create" /\ \E f \in Free : Written(i, f)) \/ (pc[i] = "update" /\ Written(i, file[i])),
           UNCHANGED <<cache, lock>>
    PROVE  DriveGoes(i) /\ CacheGoes(i)
<1> DEFINE r == [parent |-> CachedId(Dir(i)), name |-> Name(i), value |-> calls[i].value]
<1>1. r \in Item
  <2>1. calls[i].value \in Values
    BY DEF FolderInv, Uploads
  <2>2. CachedId(Dir(i)) \in Ids \cup {Base} /\ Name(i) \in STRING
    <3>1. calls[i].path \in Paths /\ CachedId(Dir(i)) # None
      BY Unchanged DEF CacheInv, Placed, Resolves
    <3>2. Dir(i) \in AllDirs /\ Name(i) \in STRING
      BY <3>1, PathsAre DEF Dir, Name
    <3>3. QED
      BY <3>1, <3>2 DEF CachedId, AllDirs, CacheInv, StoreTypes
  <2>3. QED
    BY <2>1, <2>2 DEF Item
<1>2. PICK f : /\ drive' = [drive EXCEPT ![f] = r]
               /\ f \in Free \/ (pc[i] = "update" /\ f = file[i])
  BY DEF Written
<1> HIDE DEF r
<1>3. f \in Ids /\ (drive[f] = None \/ (pc[i] \in Holds /\ f = file[i]))
  BY <1>2, FreeIs, HereIs DEF Holds
<1>4. DriveGoes(i)
  BY <1>1, <1>2, <1>3, DriveChanges
<1>5. QED
  BY <1>4, Unchanged, CacheStays

LEMMA OperateStores ==
    ASSUME FolderInv, CacheInv, NEW i \in Calls, Operate(i)
    PROVE  CacheInv'
<1> DEFINE done == [calls[i] EXCEPT !.did = TRUE]
<1>1. done.path = calls[i].path
  BY DEF FolderInv, Shaped
<1>2. UNCHANGED <<drive, cache, lock>> => DriveGoes(i) /\ CacheGoes(i)
  BY Unchanged, DriveStays, CacheStays
<1>3. "reply" \in Places \ ({"idle"} \cup Holds \cup Seeks \cup Resolves)
      /\ "lookup" \in Places \ ({"idle"} \cup Holds \cup Seeks \cup Resolves)
  BY DEF Places, Holds, Seeks, Resolves
<1>4. pc[i] # "idle"
  BY DEF Operate, Check, Write, WriteUnanswered, Find, Get, Delete, RequestFails, Answer, AnswerLost
<1>5. ASSUME NEW r, r.path = calls[i].path, calls' = [calls EXCEPT ![i] = r], Goto(i, "reply"),
             UNCHANGED <<tries, file>>, DriveGoes(i), CacheGoes(i)
      PROVE  CacheInv'
  BY <1>3, <1>4, <1>5, Unchanged, GoesOn
<1>6. ASSUME NEW f \in Here(i), file' = [file EXCEPT ![i] = f], NEW l \in Holds, Goto(i, l),
             pc[i] \in Resolves, UNCHANGED <<drive, cache, lock, calls, tries>>
      PROVE  CacheInv'
  <2>1. f \in Ids /\ CachedId(Dir(i))' # None /\ f \in Here(i)'
    BY <1>6, SamePlace DEF Here, Files, Items, CacheInv, Placed
  <2>2. l \in Places \ ({"idle"} \cup Seeks)
    BY <1>6 DEF Places, Holds, Seeks
  <2>3. QED
    BY <1>2, <1>4, <1>6, <2>1, <2>2, Unchanged, GoesOn
<1>7. CASE Check(i)
  <2>1. pc[i] \in Resolves /\ CachedId(Dir(i)) # None /\ UNCHANGED <<drive, cache, lock, calls, tries>>
    BY <1>7 DEF Check, Resolves, CacheInv, Placed
  <2>2. CASE Goto(i, "create") /\ UNCHANGED file
    <3>1. "create" \in Places \ ({"idle"} \cup Holds \cup Seeks)
      BY DEF Places, Holds, Seeks
    <3>2. QED
      BY <1>4, <2>1, <2>2, <3>1, Unchanged, MoveStores
  <2>3. CASE \E f \in Here(i) : Goto(i, "update") /\ file' = [file EXCEPT ![i] = f]
    BY <1>6, <2>1, <2>3 DEF Holds
  <2>4. QED
    BY <1>7, <2>2, <2>3 DEF Check
<1>8. CASE Write(i)
  <2>1. DriveGoes(i) /\ CacheGoes(i)
    BY <1>8, WrittenStores DEF Write
  <2>2. calls' = [calls EXCEPT ![i] = done] /\ Goto(i, "reply") /\ UNCHANGED <<tries, file>>
    BY <1>8 DEF Write
  <2> HIDE DEF done
  <2>3. QED
    BY <1>1, <1>5, <2>1, <2>2
<1>9. CASE WriteUnanswered(i)
  <2>1. DriveGoes(i) /\ CacheGoes(i)
    BY <1>9, WrittenStores DEF WriteUnanswered
  <2>2. /\ calls' = [calls EXCEPT ![i] = done] /\ Goto(i, "lookup")
        /\ file' = [file EXCEPT ![i] = None]
        /\ tries' = [tries EXCEPT ![i] = tries[i] + 1]
    BY <1>9 DEF WriteUnanswered
  <2>3. tries[i] + 1 \in 1 .. Retries
    <3>1. tries[i] # Retries
      BY <1>9 DEF WriteUnanswered, Exhausted
    <3>2. QED
      BY <3>1, Unchanged, RetriesAssumption
  <2> HIDE DEF done
  <2>4. QED
    BY <1>1, <1>3, <1>4, <2>1, <2>2, <2>3, GoesOn
<1>10. CASE Find(i)
  <2>1. pc[i] \in Resolves /\ UNCHANGED <<drive, cache, lock, tries>>
    BY <1>10 DEF Find, Resolves
  <2>2. CASE Here(i) = {}
    <3>1. calls' = [calls EXCEPT ![i] = done] /\ Goto(i, "reply") /\ UNCHANGED file
      BY <1>10, <2>2 DEF Find
    <3> HIDE DEF done
    <3>2. QED
      BY <1>1, <1>2, <1>5, <2>1, <3>1
  <2>3. CASE Here(i) # {}
    <3>1. PICK f \in Here(i) : file' = [file EXCEPT ![i] = f]
      BY <1>10, <2>3 DEF Find
    <3>2. UNCHANGED calls /\ \E l \in Holds : Goto(i, l)
      BY <1>10, <2>3 DEF Find, Holds
    <3>3. QED
      BY <1>6, <2>1, <3>1, <3>2
  <2>4. QED
    BY <2>2, <2>3
<1>11. CASE Get(i)
  <2>1. calls' = [calls EXCEPT ![i] = [done EXCEPT !.value = drive[file[i]].value]]
    BY <1>11 DEF Get
  <2> DEFINE r == [done EXCEPT !.value = drive[file[i]].value]
  <2>2. r.path = calls[i].path
    BY DEF FolderInv, Shaped
  <2> HIDE DEF r
  <2>3. calls' = [calls EXCEPT ![i] = r]
    BY <2>1 DEF r
  <2>4. QED
    BY <1>2, <1>5, <1>11, <2>2, <2>3 DEF Get
<1>12. CASE Delete(i)
  <2>1. pc[i] \in Holds /\ drive' = [drive EXCEPT ![file[i]] = None] /\ UNCHANGED <<cache, lock, tries, file>>
    BY <1>12 DEF Delete, Holds
  <2>2. DriveGoes(i) /\ CacheGoes(i)
    BY <2>1, HereIs, DriveChanges, CacheStays, Unchanged
  <2>3. calls' = [calls EXCEPT ![i] = done] /\ Goto(i, "reply")
    BY <1>12 DEF Delete
  <2> HIDE DEF done
  <2>4. QED
    BY <1>1, <1>5, <2>1, <2>2, <2>3
<1>13. CASE RequestFails(i)
  BY <1>2, <1>4, <1>13, AttemptStores DEF RequestFails
<1>14. CASE Answer(i) \/ AnswerLost(i)
  BY <1>2, <1>14, ReplyStores DEF Answer, AnswerLost
<1>15. QED
  BY <1>7, <1>8, <1>9, <1>10, <1>11, <1>12, <1>13, <1>14 DEF Operate

-----------------------------------------------------------------------------
LEMMA InitCacheInv == Init => CacheInv
<1> SUFFICES ASSUME Init PROVE CacheInv
  OBVIOUS
<1>1. StoreTypes
  BY RetriesAssumption DEF Init, StoreTypes
<1>2. Distinct
  BY DEF Init, Distinct, Requested, Idle
<1>3. Chained
  BY DEF Init, Chained
<1>4. Placed /\ Holding
  BY DEF Init, Placed, Holding, Seeks, Resolves, Holds
<1>5. QED
  BY <1>1, <1>2, <1>3, <1>4 DEF CacheInv

LEMMA NextCacheInv == FolderInv /\ CacheInv /\ [Next]_vars => CacheInv'
<1> SUFFICES ASSUME FolderInv, CacheInv, [Next]_vars PROVE CacheInv'
  OBVIOUS
<1>1. CASE Next
  BY <1>1, StartStores, ResolveStores, OperateStores DEF Next, Step
<1>2. CASE UNCHANGED vars
  <2>1. StoreTypes' /\ Distinct'
    BY <1>2 DEF vars, CacheInv, StoreTypes, Distinct
  <2>2. \A d : CachedId(d)' = CachedId(d) /\ Parent(d)' = Parent(d) /\ NewFolder(d)' = NewFolder(d)
    BY <1>2 DEF vars, CachedId, Parent, NewFolder
  <2>3. Chained'
    BY <1>2, <2>2 DEF vars, CacheInv, Chained
  <2>4. \A i \in Calls : CachedId(Dir(i))' = CachedId(Dir(i)) /\ Here(i)' = Here(i)
    BY <1>2, SamePlace DEF vars
  <2>5. Placed' /\ Holding'
    BY <1>2, <2>4 DEF vars, CacheInv, Placed, Holding
  <2>6. QED
    BY <2>1, <2>3, <2>5 DEF CacheInv
<1>3. QED
  BY <1>1, <1>2

(* The variables keep their types: the drive holds items with a parent on   *)
(* the drive, the mutex a handler, and no attempt is counted past Retries.  *)
THEOREM TypeCorrect == Spec => []TypeOK
<1>1. FolderInv /\ CacheInv => TypeOK
  BY DEF FolderInv, Shaped, Places, CacheInv, StoreTypes, Distinct, Requested, TypeOK
<1>2. QED
  BY <1>1, InitFolderInv, NextFolderInv, InitCacheInv, NextCacheInv, PTL DEF Spec

-----------------------------------------------------------------------------
(***************************************************************************)
(* The cache agrees with the drive.  IdOf follows the folders of the drive, *)
(* one level at a time: Level(n) says so of the directories of at most n   *)
(* names, Follow puts the levels together, and IdOf is the only function   *)
(* that does so.  A cached directory is the one folder of its name there.  *)
(***************************************************************************)
Sub(parent, d) ==
    IF d = <<>> THEN Base
    ELSE LET found == Folders(parent, Last(d)) IN
         IF found = {} THEN None ELSE CHOOSE f \in found : TRUE

UpTo(n) == {d \in AllDirs : Len(d) <= n}
Level(n, g) == g = [d \in UpTo(n) |-> Sub(g[Front(d)], d)]
LevelOf(n) == CHOOSE g : Level(n, g)
Follow == [d \in AllDirs |-> LevelOf(Len(d))[d]]

LEMMA AllDirsAre ==
    ASSUME NEW d \in AllDirs
    PROVE  /\ Len(d) \in Nat
           /\ d # <<>> => Front(d) \in AllDirs /\ Len(d) > 0 /\ Len(Front(d)) = Len(d) - 1
BY DirsAre DEF AllDirs

LEMMA LevelsAgree ==
    ASSUME NEW n \in Nat, NEW m \in Nat, NEW g, NEW h, Level(n, g), Level(m, h),
           NEW d \in UpTo(n), d \in UpTo(m)
    PROVE  g[d] = h[d]
<1> DEFINE S == {k \in Nat : \A e \in UpTo(n) \cap UpTo(m) : Len(e) = k => g[e] = h[e]}
<1>1. ASSUME NEW e \in UpTo(n) \cap UpTo(m)
      PROVE  g[e] = Sub(g[Front(e)], e) /\ h[e] = Sub(h[Front(e)], e)
  BY DEF Level
<1>2. 0 \in S
  <2>1. \A e \in AllDirs : Len(e) = 0 => e = <<>>
    BY AllDirsAre
  <2>2. \A a, b : Sub(a, <<>>) = Sub(b, <<>>)
    BY DEF Sub
  <2>3. QED
    BY <1>1, <2>1, <2>2 DEF UpTo
<1>3. ASSUME NEW k \in Nat, k \in S
      PROVE  k + 1 \in S
  <2> SUFFICES ASSUME NEW e \in UpTo(n) \cap UpTo(m), Len(e) = k + 1 PROVE g[e] = h[e]
    OBVIOUS
  <2>1. e \in AllDirs /\ e # <<>>
    BY DEF UpTo
  <2>2. Front(e) \in UpTo(n) \cap UpTo(m) /\ Len(Front(e)) = k
    BY <2>1, AllDirsAre DEF UpTo
  <2>3. QED
    BY <1>1, <1>3, <2>2
<1>4. Nat \subseteq S
  <2> HIDE DEF S
  <2> QED
    BY <1>2, <1>3, Induction
<1>5. Len(d) \in Nat
  BY AllDirsAre DEF UpTo
<1>6. QED
  BY <1>4, <1>5

LEMMA LevelExists ==
    ASSUME NEW n \in Nat
    PROVE  Level(n, LevelOf(n))
<1> DEFINE S == {k \in Nat : \E g : Level(k, g)}
<1>1. 0 \in S
  <2> DEFINE g == [d \in UpTo(0) |-> Base]
  <2>1. \A d \in UpTo(0) : d = <<>>
    BY AllDirsAre DEF UpTo
  <2>2. \A d \in UpTo(0) : Sub(g[Front(d)], d) = Base
    BY <2>1 DEF Sub
  <2>3. Level(0, g)
    BY <2>2 DEF Level
  <2>4. QED
    BY <2>3
<1>2. ASSUME NEW k \in Nat, k \in S
      PROVE  k + 1 \in S
  <2>1. PICK g : Level(k, g)
    BY <1>2
  <2> DEFINE h == [d \in UpTo(k + 1) |-> Sub(g[Front(d)], d)]
  <2>2. ASSUME NEW d \in UpTo(k + 1)
        PROVE  Sub(h[Front(d)], d) = Sub(g[Front(d)], d)
    <3>1. CASE d = <<>>
      BY <3>1 DEF Sub
    <3>2. CASE d # <<>>
      <4>1. Front(d) \in UpTo(k) /\ Front(d) \in UpTo(k + 1)
        BY <3>2, AllDirsAre DEF UpTo
      <4>2. g[Front(d)] = Sub(g[Front(Front(d))], Front(d))
        BY <2>1, <4>1 DEF Level
      <4>3. h[Front(d)] = g[Front(d)]
        BY <4>1, <4>2
      <4>4. QED
        BY <4>3
    <3>3. QED
      BY <3>1, <3>2
  <2>3. Level(k + 1, h)
    BY <2>2 DEF Level
  <2>4. QED
    BY <2>3
<1>3. Nat \subseteq S
  <2> HIDE DEF S
  <2> QED
    BY <1>1, <1>2, Induction
<1>4. \E g : Level(n, g)
  BY <1>3
<1>5. QED
  BY <1>4 DEF LevelOf

LEMMA FollowIs == Follow = [d \in AllDirs |-> Sub(Follow[Front(d)], d)]
<1> SUFFICES ASSUME NEW d \in AllDirs PROVE Follow[d] = Sub(Follow[Front(d)], d)
  BY DEF Follow
<1> DEFINE n == Len(d)
           g == LevelOf(n)
<1>1. n \in Nat /\ d \in UpTo(n)
  BY AllDirsAre DEF UpTo
<1>2. Level(n, g)
  BY <1>1, LevelExists
<1>3. Follow[d] = Sub(g[Front(d)], d)
  BY <1>1, <1>2 DEF Follow, Level
<1>4. CASE d = <<>>
  BY <1>3, <1>4 DEF Sub
<1>5. CASE d # <<>>
  <2> DEFINE e == Front(d)
             m == Len(e)
  <2>1. e \in AllDirs /\ m \in Nat /\ e \in UpTo(n) /\ e \in UpTo(m)
    BY <1>5, AllDirsAre DEF UpTo
  <2>2. Level(m, LevelOf(m))
    BY <2>1, LevelExists
  <2>3. LevelOf(m)[e] = g[e]
    <3> HIDE DEF e, m, g, n
    <3> QED
      BY <1>1, <1>2, <2>1, <2>2, LevelsAgree
  <2>4. Follow[e] = g[e]
    BY <2>1, <2>3 DEF Follow
  <2>5. QED
    BY <1>3, <2>4
<1>6. QED
  BY <1>4, <1>5

LEMMA IdOfIs == IdOf = [d \in AllDirs |-> Sub(IdOf[Front(d)], d)]
<1> DEFINE F(g) == [d \in AllDirs |-> Sub(g[Front(d)], d)]
<1>1. IdOf = CHOOSE g : g = F(g)
  BY DEF IdOf, Sub, AllDirs
<1>2. Follow = F(Follow)
  BY FollowIs
<1> HIDE DEF F
<1>3. IdOf = F(IdOf)
  BY <1>1, <1>2
<1>4. QED
  BY <1>3 DEF F

LEMMA CacheFollows ==
    ASSUME FolderInv, CacheInv, NEW d \in AllDirs, CachedId(d) # None
    PROVE  CachedId(d) = IdOf[d]
<1> DEFINE S == {n \in Nat : \A e \in AllDirs :
                    Len(e) = n /\ CachedId(e) # None => CachedId(e) = IdOf[e]}
<1>1. 0 \in S
  <2>1. \A e \in AllDirs : Len(e) = 0 => e = <<>>
    BY AllDirsAre
  <2>2. <<>> \in AllDirs
    BY DEF AllDirs
  <2>3. IdOf[<<>>] = Base
    BY <2>2, IdOfIs DEF Sub
  <2>4. CachedId(<<>>) = Base
    BY DEF CachedId
  <2>5. QED
    BY <2>1, <2>3, <2>4
<1>2. ASSUME NEW n \in Nat, n \in S
      PROVE  n + 1 \in S
  <2> SUFFICES ASSUME NEW e \in AllDirs, Len(e) = n + 1, CachedId(e) # None
               PROVE  CachedId(e) = IdOf[e]
    OBVIOUS
  <2>1. e # <<>> /\ e \in Dirs
    BY DEF AllDirs
  <2>2. Front(e) \in AllDirs /\ Len(Front(e)) = n
    BY <2>1, DirsAre
  <2>3. cache[e] # None /\ CachedId(e) = cache[e] /\ cache[e] \in Ids
    BY <2>1 DEF CachedId, CacheInv, StoreTypes
  <2>4. CachedId(Front(e)) # None /\ drive[cache[e]] = NewFolder(e)
    BY <2>1, <2>3 DEF CacheInv, Chained, Parent
  <2>5. CachedId(Front(e)) = IdOf[Front(e)]
    BY <1>2, <2>2, <2>4
  <2> DEFINE found == Folders(IdOf[Front(e)], Last(e))
  <2>6. cache[e] \in found
    <3>1. NewFolder(e) = [parent |-> IdOf[Front(e)], name |-> Last(e), value |-> Folder]
      BY <2>5 DEF NewFolder, Parent
    <3>2. NewFolder(e) \in Item
      <4>1. Parent(e) \in Ids \cup {Base}
        BY <2>2, <2>4 DEF Parent, CachedId, AllDirs, CacheInv, StoreTypes
      <4>2. QED
        BY <2>1, <4>1, DirsAre DEF NewFolder, Item
    <3>3. drive[cache[e]] # None
      BY <2>4, <3>2, ItemAssumption
    <3>4. QED
      BY <2>3, <2>4, <3>1, <3>3 DEF Folders, Items
  <2>7. \A f \in found : f = cache[e]
    BY <2>3, <2>6 DEF FolderInv, FoldersUnique, Folders
  <2>8. IdOf[e] = Sub(IdOf[Front(e)], e)
    BY IdOfIs
  <2>9. QED
    BY <2>1, <2>3, <2>6, <2>7, <2>8 DEF Sub
<1>3. Nat \subseteq S
  <2> HIDE DEF S
  <2> QED
    BY <1>1, <1>2, Induction
<1>4. QED
  BY <1>3, AllDirsAre

(* The folder that dirCache has for a directory is the one that the drive   *)
(* leads to: no entry is stale, none leads into another backup's folder,    *)
(* although nobody asks the drive again while the plugin runs.              *)
THEOREM CacheStaysSound == Spec => []CacheSound
<1>1. FolderInv /\ CacheInv => CacheSound
  <2> SUFFICES ASSUME FolderInv, CacheInv, NEW d \in Dirs, cache[d] # None
               PROVE  cache[d] = IdOf[d]
    BY DEF CacheSound
  <2>1. d \in AllDirs /\ CachedId(d) = cache[d]
    BY DirsAre DEF AllDirs, CachedId
  <2>2. QED
    BY <2>1, CacheFollows
<1>2. QED
  BY <1>1, InitFolderInv, NextFolderInv, InitCacheInv, NextCacheInv, PTL DEF Spec

-----------------------------------------------------------------------------
(***************************************************************************)
(* The plugin as a store.  A folder that is made is empty, and changes what *)
(* no path holds; a file that is written or deleted changes what one path  *)
(* holds.  For this the folders are a tree (Rooted), and a path has at most *)
(* one file (FilesUnique).                                                 *)
(***************************************************************************)
Rooted ==
    \A f \in Items : LET p == drive[f].parent IN
        p = Base \/ (p \in Items /\ drive[p].value = Folder)

FilesUnique ==
    \A f, g \in Items :
        /\ drive[f].value # Folder /\ drive[g].value # Folder
        /\ drive[f].parent = drive[g].parent /\ drive[f].name = drive[g].name
        => f = g

TreeInv == drive \in [Ids -> Item \cup {None}] /\ FoldersUnique /\ Rooted /\ FilesUnique

Spot(x) == Files(IdOf[Front(x)], Last(x))

(* The same of any drive dr: what is in a folder, and where a path leads.   *)
One(S) == CHOOSE f \in S : TRUE
ItemsOf(dr) == {f \in Ids : dr[f] # None}
FoldersOf(dr, p, n) ==
    {f \in ItemsOf(dr) : dr[f] = [parent |-> p, name |-> n, value |-> Folder]}
FilesOf(dr, p, n) ==
    {f \in ItemsOf(dr) : /\ dr[f].parent = p
                         /\ dr[f].name = n
                         /\ dr[f].value # Folder}
Leads(dr, p, d) ==
    IF d = <<>> THEN Base
    ELSE IF FoldersOf(dr, p, Last(d)) = {} THEN None ELSE One(FoldersOf(dr, p, Last(d)))
SpotOf(dr, g, x) == FilesOf(dr, g[Front(x)], Last(x))
Content(dr, S) == IF S = {} THEN <<>> ELSE <<dr[One(S)].value>>
StoredOf(dr, g) == [x \in Paths |-> Content(dr, SpotOf(dr, g, x))]

LEMMA OneIs == \A S : S # {} => One(S) \in S
  BY DEF One

LEMMA OfDrive ==
    /\ \A p, n : Folders(p, n) = FoldersOf(drive, p, n)
    /\ \A x : Spot(x) = SpotOf(drive, IdOf, x)
    /\ IdOf = [d \in AllDirs |-> Leads(drive, IdOf[Front(d)], d)]
    /\ stored = StoredOf(drive, IdOf)
<1>1. \A p, n : Folders(p, n) = FoldersOf(drive, p, n)
  BY DEF Folders, FoldersOf, Items, ItemsOf
<1>2. \A x : Spot(x) = SpotOf(drive, IdOf, x)
  BY DEF Spot, SpotOf, Files, FilesOf, Items, ItemsOf
<1>3. \A p, d : Sub(p, d) = Leads(drive, p, d)
  BY DEF Sub, Leads, One, Folders, FoldersOf, Items, ItemsOf
<1>4. IdOf = [d \in AllDirs |-> Leads(drive, IdOf[Front(d)], d)]
  BY <1>3, IdOfIs
<1>5. stored = StoredOf(drive, IdOf)
  BY DEF stored, StoredOf, Content, SpotOf, One, Files, FilesOf, Items, ItemsOf
<1> QED
  BY <1>1, <1>2, <1>4, <1>5

LEMMA OfDriveNext ==
    /\ \A p, n : Folders(p, n)' = FoldersOf(drive', p, n)
    /\ \A x : Spot(x)' = SpotOf(drive', IdOf', x)
    /\ IdOf' = [d \in AllDirs |-> Leads(drive', IdOf'[Front(d)], d)]
    /\ stored' = StoredOf(drive', IdOf')
<1>1. (IdOf = [d \in AllDirs |-> Leads(drive, IdOf[Front(d)], d)])'
  <2>1. IdOf = [d \in AllDirs |-> Leads(drive, IdOf[Front(d)], d)]
    BY OfDrive
  <2> QED
    BY <2>1, PTL
<1>2. \A p, n : Folders(p, n)' = FoldersOf(drive', p, n)
  BY DEF Folders, FoldersOf, Items, ItemsOf
<1>3. \A x : Spot(x)' = SpotOf(drive', IdOf', x)
  BY DEF Spot, SpotOf, Files, FilesOf, Items, ItemsOf
<1>4. stored' = StoredOf(drive', IdOf')
  BY DEF stored, StoredOf, Content, SpotOf, One, Files, FilesOf, Items, ItemsOf
<1> QED
  BY <1>1, <1>2, <1>3, <1>4

LEMMA ItemsAre ==
    ASSUME TreeInv, NEW f \in Items
    PROVE  /\ f \in Ids /\ drive[f] \in Item /\ f # None /\ f # Base
           /\ drive[f].parent \in Ids \cup {Base} /\ drive[f].parent # None
           /\ drive[f].value \in Values \cup {Folder}
BY DistinctAssumption DEF TreeInv, Items, Item

(* Where a path leads that leads somewhere. *)
LEMMA IdOfFolder ==
    ASSUME TreeInv, NEW d \in AllDirs, IdOf[d] # None, d # <<>>
    PROVE  /\ IdOf[d] \in Items /\ drive[IdOf[d]].value = Folder
           /\ drive[IdOf[d]].parent = IdOf[Front(d)] /\ drive[IdOf[d]].name = Last(d)
           /\ IdOf[Front(d)] # None
<1>1. IdOf[d] = Sub(IdOf[Front(d)], d)
  BY IdOfIs
<1>2. IdOf[d] \in Folders(IdOf[Front(d)], Last(d))
  BY <1>1 DEF Sub
<1>3. /\ IdOf[d] \in Items /\ drive[IdOf[d]].value = Folder
      /\ drive[IdOf[d]].parent = IdOf[Front(d)] /\ drive[IdOf[d]].name = Last(d)
  BY <1>2 DEF Folders
<1> QED
  BY <1>3, ItemsAre

LEMMA IdOfRoot == IdOf[<<>>] = Base /\ <<>> \in AllDirs
<1>1. <<>> \in AllDirs
  BY DEF AllDirs
<1> QED
  BY <1>1, IdOfIs DEF Sub

(* Two directories never lead to one folder. *)
LEMMA IdOfInjective ==
    ASSUME TreeInv, NEW d \in AllDirs, NEW e \in AllDirs, IdOf[d] = IdOf[e], IdOf[d] # None
    PROVE  d = e
<1> DEFINE Good(a) == \A b \in AllDirs : IdOf[a] = IdOf[b] /\ IdOf[a] # None => a = b
           S == {n \in Nat : \A a \in AllDirs : Len(a) = n => Good(a)}
<1>1. 0 \in S
  <2>1. \A b \in AllDirs : IdOf[b] = Base => b = <<>>
    BY IdOfFolder, ItemsAre, DistinctAssumption
  <2>2. Good(<<>>)
    BY <2>1, IdOfRoot
  <2>3. \A a \in AllDirs : Len(a) = 0 => a = <<>>
    BY AllDirsAre
  <2> QED
    BY <2>2, <2>3
<1>2. ASSUME NEW n \in Nat, n \in S
      PROVE  n + 1 \in S
  <2> SUFFICES ASSUME NEW a \in AllDirs, Len(a) = n + 1, NEW b \in AllDirs,
                      IdOf[a] = IdOf[b], IdOf[a] # None
               PROVE  a = b
    OBVIOUS
  <2>1. a # <<>> /\ a \in Dirs
    BY DEF AllDirs
  <2>2. IdOf[a] \in Items
    BY <2>1, IdOfFolder
  <2>3. b # <<>> /\ b \in Dirs
    <3>1. IdOf[a] # Base
      BY <2>2, ItemsAre
    <3> QED
      BY <3>1, IdOfRoot DEF AllDirs
  <2>4. IdOf[Front(a)] = IdOf[Front(b)] /\ Last(a) = Last(b) /\ IdOf[Front(a)] # None
    BY <2>1, <2>3, IdOfFolder
  <2>5. Front(a) \in AllDirs /\ Front(b) \in AllDirs /\ Len(Front(a)) = n
    BY <2>1, <2>3, DirsAre
  <2>6. Front(a) = Front(b)
    BY <1>2, <2>4, <2>5
  <2> QED
    BY <2>1, <2>3, <2>4, <2>6, DirsAre, FrontLast
<1>3. Nat \subseteq S
  <2> HIDE DEF S
  <2> QED
    BY <1>1, <1>2, Induction
<1> QED
  BY <1>3, AllDirsAre

(* A file of two paths is of one. *)
LEMMA SpotApart ==
    ASSUME TreeInv, NEW x \in Paths, NEW y \in Paths,
           IdOf[Front(x)] = IdOf[Front(y)], Last(x) = Last(y), IdOf[Front(x)] # None
    PROVE  x = y
<1>1. Front(x) = Front(y)
  BY IdOfInjective, PathsAre
<1> QED
  BY <1>1, PathsAre, FrontLast

LEMMA SpotIs ==
    ASSUME TreeInv, NEW x \in Paths
    PROVE  /\ Spot(x) = {f \in Items : /\ drive[f].parent = IdOf[Front(x)]
                                       /\ drive[f].name = Last(x)
                                       /\ drive[f].value # Folder}
           /\ Spot(x) = {} => stored[x] = <<>>
           /\ \A f \in Spot(x) : /\ Spot(x) = {f}
                                 /\ stored[x] = <<drive[f].value>> /\ drive[f].value \in Values
                                 /\ IdOf[Front(x)] # None
<1>1. Spot(x) = {f \in Items : /\ drive[f].parent = IdOf[Front(x)]
                               /\ drive[f].name = Last(x)
                               /\ drive[f].value # Folder}
  BY DEF Spot, Files
<1>2. stored[x] = IF Spot(x) = {} THEN <<>> ELSE <<drive[One(Spot(x))].value>>
  BY OfDrive DEF StoredOf, Content
<1>3. ASSUME NEW f \in Spot(x)
      PROVE  /\ Spot(x) = {f} /\ drive[f].value \in Values
             /\ IdOf[Front(x)] # None
  BY <1>1, <1>3, ItemsAre DEF TreeInv, FilesUnique
<1>4. ASSUME NEW f \in Spot(x)
      PROVE  stored[x] = <<drive[f].value>>
  <2>1. One(Spot(x)) = f
    BY <1>3, <1>4, OneIs
  <2> QED
    BY <1>2, <2>1
<1> QED
  BY <1>1, <1>2, <1>3, <1>4

-----------------------------------------------------------------------------
(* What the drive holds follows from the drive, and where a path leads from *)
(* the folders.                                                            *)
LEMMA DriveSame ==
    ASSUME UNCHANGED drive
    PROVE  stored' = stored /\ (TreeInv => TreeInv')
<1>1. IdOf' = IdOf
  BY DEF IdOf, Folders, Items
<1>2. stored' = stored
  BY <1>1, OfDrive, OfDriveNext
<1> QED
  BY <1>2 DEF TreeInv, FoldersUnique, Rooted, FilesUnique, Items

LEMMA ContentSame ==
    ASSUME NEW dr, NEW er, NEW S, S # {} => dr[One(S)] = er[One(S)]
    PROVE  Content(dr, S) = Content(er, S)
  BY DEF Content

LEMMA IdOfStays ==
    ASSUME \A p, n : FoldersOf(drive', p, n) = FoldersOf(drive, p, n), NEW d \in AllDirs
    PROVE  IdOf'[d] = IdOf[d]
<1> DEFINE S == {n \in Nat : \A a \in AllDirs : Len(a) = n => IdOf'[a] = IdOf[a]}
<1>1. \A a \in AllDirs : /\ IdOf[a] = Leads(drive, IdOf[Front(a)], a)
                         /\ IdOf'[a] = Leads(drive', IdOf'[Front(a)], a)
  BY OfDrive, OfDriveNext
<1>2. \A p, a : Leads(drive', p, a) = Leads(drive, p, a)
  BY DEF Leads
<1>3. 0 \in S
  <2>1. \A a \in AllDirs : Len(a) = 0 => a = <<>>
    BY AllDirsAre
  <2>2. IdOf'[<<>>] = IdOf[<<>>]
    BY <1>1, IdOfRoot DEF Leads
  <2> QED
    BY <2>1, <2>2
<1>4. ASSUME NEW n \in Nat, n \in S
      PROVE  n + 1 \in S
  <2> SUFFICES ASSUME NEW a \in AllDirs, Len(a) = n + 1 PROVE IdOf'[a] = IdOf[a]
    OBVIOUS
  <2>0. a # <<>>
    BY <1>4
  <2>1. Front(a) \in AllDirs /\ Len(Front(a)) = n
    BY <2>0, <1>4, AllDirsAre
  <2>2. IdOf'[Front(a)] = IdOf[Front(a)]
    BY <1>4, <2>1
  <2> QED
    BY <1>1, <1>2, <2>2
<1>5. Nat \subseteq S
  <2> HIDE DEF S
  <2> QED
    BY <1>3, <1>4, Induction
<1> QED
  BY <1>5, AllDirsAre

(* A folder is made that was not there: it is empty, and so is what leads   *)
(* to it now.                                                              *)
LEMMA FolderMade ==
    ASSUME TreeInv, NEW f \in Ids, drive[f] = None,
           NEW p \in Items \cup {Base}, p = Base \/ drive[p].value = Folder, NEW name \in STRING,
           Folders(p, name) = {},
           drive' = [drive EXCEPT ![f] = [parent |-> p, name |-> name, value |-> Folder]]
    PROVE  stored' = stored /\ TreeInv'
<1> DEFINE nf == [parent |-> p, name |-> name, value |-> Folder]
<1>1. /\ nf \in Item /\ nf # None /\ p # f /\ p # None /\ f # None /\ f \notin Items
      /\ nf.value = Folder /\ nf.parent = p /\ nf.name = name
  <2>1. p \in Ids \cup {Base} /\ p # f /\ p # None /\ f # None
    BY ItemsAre, DistinctAssumption DEF Items
  <2>2. nf \in Item
    BY <2>1 DEF Item
  <2> QED
    BY <2>1, <2>2, ItemAssumption DEF Items
<1> HIDE DEF nf
<1>2. /\ drive' \in [Ids -> Item \cup {None}] /\ drive'[f] = nf
      /\ \A g \in Ids \ {f} : drive'[g] = drive[g]
  BY <1>1 DEF TreeInv, nf
<1>3. /\ Items' = Items \cup {f} /\ \A g \in Items : g \in Ids \ {f} /\ drive'[g] = drive[g]
      /\ ItemsOf(drive) = Items /\ ItemsOf(drive') = Items'
  BY <1>1, <1>2 DEF Items, ItemsOf
<1>4. \A g \in Items : drive[g] # nf
  BY <1>1 DEF Folders, nf
<1>5. \A g \in Items : drive[g].parent \in {Base} \cup Items /\ drive[g].parent # f
  BY <1>1, DistinctAssumption DEF TreeInv, Rooted
<1>6. \A a, b : /\ ~(a = p /\ b = name) => FoldersOf(drive', a, b) = FoldersOf(drive, a, b)
                /\ FilesOf(drive', a, b) = FilesOf(drive, a, b)
  <2>1. ASSUME NEW a, NEW b
        PROVE  FilesOf(drive', a, b) = FilesOf(drive, a, b)
    <3> DEFINE At(k) == k.parent = a /\ k.name = b /\ k.value # Folder
    <3>1. /\ FilesOf(drive, a, b) = {g \in Items : At(drive[g])}
          /\ FilesOf(drive', a, b) = {g \in Items' : At(drive'[g])}
      BY <1>3 DEF FilesOf
    <3>2. ~At(nf)
      BY <1>1
    <3> HIDE DEF At
    <3>3. \A g : g \in Items' /\ At(drive'[g]) <=> g \in Items /\ At(drive[g])
      BY <1>2, <1>3, <3>2
    <3> QED
      BY <3>1, <3>3
  <2>2. ASSUME NEW a, NEW b, ~(a = p /\ b = name)
        PROVE  FoldersOf(drive', a, b) = FoldersOf(drive, a, b)
    <3> DEFINE r == [parent |-> a, name |-> b, value |-> Folder]
    <3>1. r # nf
      BY <2>2 DEF nf
    <3>2. /\ FoldersOf(drive, a, b) = {g \in ItemsOf(drive) : drive[g] = r}
          /\ FoldersOf(drive', a, b) = {g \in ItemsOf(drive') : drive'[g] = r}
      BY DEF FoldersOf
    <3> HIDE DEF r
    <3>3. \A g : g \in FoldersOf(drive', a, b) <=> g \in Items /\ drive[g] = r
      BY <1>2, <1>3, <3>1, <3>2
    <3> QED
      BY <1>3, <3>2, <3>3
  <2> QED
    BY <2>1, <2>2
<1>7. FoldersOf(drive, p, name) = {} /\ FoldersOf(drive', p, name) = {f}
  <2>1. FoldersOf(drive', p, name) = {g \in ItemsOf(drive') : drive'[g] = nf}
    BY DEF FoldersOf, nf
  <2>2. FoldersOf(drive, p, name) = {}
    BY OfDrive
  <2> QED
    BY <1>2, <1>3, <1>4, <2>1, <2>2
<1>8. \A a \in {f, None} : \A b : FoldersOf(drive, a, b) = {} /\ FilesOf(drive, a, b) = {}
  BY <1>3, <1>5, ItemsAre DEF FoldersOf, FilesOf
<1> DEFINE Near(a) == IdOf'[a] = IdOf[a] \/ (IdOf[a] = None /\ IdOf'[a] = f)
           S == {n \in Nat : \A a \in AllDirs : Len(a) = n => Near(a)}
<1>9. \A a \in AllDirs : /\ IdOf[a] = Leads(drive, IdOf[Front(a)], a)
                         /\ IdOf'[a] = Leads(drive', IdOf'[Front(a)], a)
  BY OfDrive, OfDriveNext
<1>10. 0 \in S
  <2>1. \A a \in AllDirs : Len(a) = 0 => a = <<>>
    BY AllDirsAre
  <2>2. IdOf'[<<>>] = IdOf[<<>>]
    BY <1>9, IdOfRoot DEF Leads
  <2> QED
    BY <2>1, <2>2
<1>11. ASSUME NEW n \in Nat, n \in S
       PROVE  n + 1 \in S
  <2> SUFFICES ASSUME NEW a \in AllDirs, Len(a) = n + 1 PROVE Near(a)
    OBVIOUS
  <2> DEFINE q == IdOf[Front(a)]
             r == IdOf'[Front(a)]
             b == Last(a)
  <2>0. a # <<>>
    BY <1>11
  <2>1. a # <<>> /\ Front(a) \in AllDirs /\ Len(Front(a)) = n
    BY <2>0, <1>11, AllDirsAre
  <2>2. r = q \/ (q = None /\ r = f)
    BY <1>11, <2>1
  <2>3. /\ IdOf[a] = IF FoldersOf(drive, q, b) = {} THEN None ELSE One(FoldersOf(drive, q, b))
        /\ IdOf'[a] = IF FoldersOf(drive', r, b) = {} THEN None ELSE One(FoldersOf(drive', r, b))
    BY <1>9, <2>1 DEF Leads
  <2> HIDE DEF q, r, b
  <2>4. CASE r = q /\ ~(q = p /\ b = name)
    BY <1>6, <2>3, <2>4
  <2>5. CASE r = q /\ q = p /\ b = name
    BY <1>7, <2>3, <2>5, OneIs
  <2>6. CASE q = None /\ r = f
    BY <1>1, <1>6, <1>8, <2>3, <2>6
  <2> QED
    BY <2>2, <2>4, <2>5, <2>6
<1>12. Nat \subseteq S
  <2> HIDE DEF S
  <2> QED
    BY <1>10, <1>11, Induction
<1>13. \A a \in AllDirs : Near(a)
  BY <1>12, AllDirsAre
<1>14. stored' = stored
  <2>1. ASSUME NEW x \in Paths
        PROVE  Spot(x)' = Spot(x)
    <3>1. /\ Spot(x) = FilesOf(drive, IdOf[Front(x)], Last(x))
          /\ Spot(x)' = FilesOf(drive', IdOf'[Front(x)], Last(x))
      BY OfDrive, OfDriveNext DEF SpotOf
    <3>2. Near(Front(x))
      BY <1>13, PathsAre
    <3>3. FilesOf(drive', IdOf'[Front(x)], Last(x)) = FilesOf(drive, IdOf'[Front(x)], Last(x))
      BY <1>6
    <3>4. CASE IdOf'[Front(x)] = IdOf[Front(x)]
      BY <3>1, <3>3, <3>4
    <3>5. CASE IdOf[Front(x)] = None /\ IdOf'[Front(x)] = f
      BY <1>8, <3>1, <3>3, <3>5
    <3> QED
      BY <3>2, <3>4, <3>5
  <2>2. \A x \in Paths : \A g \in Spot(x) : drive'[g] = drive[g]
    BY <1>3, SpotIs
  <2>3. \A x \in Paths : /\ SpotOf(drive, IdOf, x) = Spot(x)
                         /\ SpotOf(drive', IdOf', x) = Spot(x)
                         /\ Spot(x) # {} => drive'[One(Spot(x))] = drive[One(Spot(x))]
    BY <2>1, <2>2, OneIs, OfDrive, OfDriveNext
  <2>4. ASSUME NEW x \in Paths
        PROVE  Content(drive', SpotOf(drive', IdOf', x)) = Content(drive, SpotOf(drive, IdOf, x))
    <3>1. SpotOf(drive, IdOf, x) = Spot(x) /\ SpotOf(drive', IdOf', x) = Spot(x)
      BY <2>3
    <3>2. Content(drive', Spot(x)) = Content(drive, Spot(x))
      BY <2>3, ContentSame
    <3> QED
      BY <3>1, <3>2
  <2> QED
    BY <2>4, OfDrive, OfDriveNext DEF StoredOf
<1>15. FoldersUnique'
  BY <1>2, <1>3, <1>4 DEF TreeInv, FoldersUnique
<1>16. FilesUnique'
  BY <1>1, <1>2, <1>3 DEF TreeInv, FilesUnique
<1>17. Rooted'
  BY <1>1, <1>2, <1>3 DEF TreeInv, Rooted
<1> QED
  BY <1>2, <1>14, <1>15, <1>16, <1>17 DEF TreeInv
-----------------------------------------------------------------------------
(* What is written, or deleted, is the file of one path.                    *)
LEMMA FileChanges ==
    ASSUME TreeInv, NEW x \in Paths, IdOf[Front(x)] # None, NEW f \in Ids,
           f \in Spot(x) \/ (drive[f] = None /\ Spot(x) = {}),
           NEW r, NEW v \in Values,
           \/ r = None
           \/ r = [parent |-> IdOf[Front(x)], name |-> Last(x), value |-> v],
           drive' = [drive EXCEPT ![f] = r]
    PROVE  /\ stored' = [stored EXCEPT ![x] = IF r = None THEN <<>> ELSE <<v>>]
           /\ TreeInv'
<1> DEFINE p == IdOf[Front(x)]
           n == Last(x)
<1>1. /\ x \in Seq(STRING) /\ Front(x) \in AllDirs /\ n \in STRING
  BY PathsAre
<1>2. p = Base \/ (p \in Items /\ drive[p].value = Folder)
  BY <1>1, IdOfFolder, IdOfRoot
<1>3. p \in Ids \cup {Base}
  BY <1>2 DEF Items
<1>4. r # None => /\ r \in Item /\ r.parent = p /\ r.name = n /\ r.value = v /\ v # Folder
  BY <1>1, <1>3, DistinctAssumption DEF Item, Values
<1>5. /\ f \in Items => drive[f].parent = p /\ drive[f].name = n /\ drive[f].value # Folder
      /\ f \in Items => f \in Spot(x)
      /\ \A g \in Spot(x) : g = f
  <2>1. f \in Items => f \in Spot(x)
    BY DEF Items
  <2>2. \A g \in Spot(x) : g = f
    BY SpotIs
  <2> QED
    BY <2>1, <2>2, SpotIs
<1>6. p # f
  BY <1>2, <1>5, DistinctAssumption
<1>7. /\ drive' \in [Ids -> Item \cup {None}] /\ drive'[f] = r
      /\ \A g \in Ids \ {f} : drive'[g] = drive[g]
  BY <1>4 DEF TreeInv
<1>8. /\ \A g \in Ids \ {f} : g \in Items' <=> g \in Items
      /\ f \in Items' <=> r # None
      /\ Items \subseteq Ids /\ Items' \subseteq Ids
      /\ ItemsOf(drive) = Items /\ ItemsOf(drive') = Items'
  BY <1>7 DEF Items, ItemsOf
<1> HIDE DEF p, n
<1>9. \A a, b : FoldersOf(drive', a, b) = FoldersOf(drive, a, b)
  <2> SUFFICES ASSUME NEW a, NEW b PROVE FoldersOf(drive', a, b) = FoldersOf(drive, a, b)
    OBVIOUS
  <2> DEFINE k == [parent |-> a, name |-> b, value |-> Folder]
  <2>1. k.value = Folder
    OBVIOUS
  <2> HIDE DEF k
  <2>2. /\ FoldersOf(drive', a, b) = {g \in Items' : drive'[g] = k}
        /\ FoldersOf(drive, a, b) = {g \in Items : drive[g] = k}
    BY <1>8 DEF FoldersOf, k
  <2>3. \A g : g \in Items' /\ drive'[g] = k <=> g \in Items /\ drive[g] = k
    BY <1>4, <1>5, <1>7, <1>8, <2>1
  <2> QED
    BY <2>2, <2>3
<1>10. \A d \in AllDirs : IdOf'[d] = IdOf[d]
  BY <1>9, IdOfStays
<1>11. ASSUME NEW y \in Paths
       PROVE  Spot(y)' = {g \in Items' : /\ drive'[g].parent = IdOf[Front(y)]
                                         /\ drive'[g].name = Last(y)
                                         /\ drive'[g].value # Folder}
  <2>1. IdOf'[Front(y)] = IdOf[Front(y)]
    BY <1>10, PathsAre
  <2> QED
    BY <1>8, <2>1, OfDriveNext DEF SpotOf, FilesOf
<1>12. ASSUME NEW y \in Paths, y # x
       PROVE  /\ Spot(y)' = Spot(y)
              /\ f \notin Spot(y)
  <2>1. ~(IdOf[Front(y)] = p /\ Last(y) = n)
    BY <1>12, SpotApart DEF p, n
  <2>2. \A g : g \in Spot(y)' <=> g \in Spot(y)
    BY <1>4, <1>5, <1>7, <1>8, <1>11, <2>1, SpotIs
  <2> QED
    BY <1>5, <2>1, <2>2, SpotIs
<1>13. Spot(x)' = IF r = None THEN {} ELSE {f}
  <2>1. Spot(x) = {g \in Items : /\ drive[g].parent = p
                                 /\ drive[g].name = n
                                 /\ drive[g].value # Folder}
    BY SpotIs DEF p, n
  <2>2. \A g : g \in Spot(x)' <=> g \in Items' /\ drive'[g].parent = p
                                 /\ drive'[g].name = n
                                 /\ drive'[g].value # Folder
    BY <1>11 DEF p, n
  <2>3. \A g : g \in Spot(x)' <=> g = f /\ r # None
    BY <1>4, <1>5, <1>7, <1>8, <2>1, <2>2
  <2> QED
    BY <2>3
<1>14. ASSUME NEW y \in Paths
       PROVE  stored'[y] = IF y = x THEN IF r = None THEN <<>> ELSE <<v>>
                           ELSE stored[y]
  <2>1. stored'[y] = Content(drive', Spot(y)') /\ stored[y] = Content(drive, Spot(y))
    BY OfDrive, OfDriveNext DEF StoredOf
  <2>2. CASE y = x
    <3>1. CASE r = None
      <4>1. Spot(x)' = {}
        BY <1>13, <3>1
      <4> QED
        BY <2>1, <2>2, <3>1, <4>1 DEF Content
    <3>2. CASE r # None
      <4>1. Spot(x)' = {f}
        BY <1>13, <3>2
      <4>2. One({f}) = f
        BY OneIs
      <4>3. Content(drive', {f}) = <<v>>
        BY <1>4, <1>7, <3>2, <4>2 DEF Content
      <4> QED
        BY <2>1, <2>2, <3>2, <4>1, <4>3
    <3> QED
      BY <3>1, <3>2
  <2>3. CASE y # x
    <3>1. Spot(y) # {} => One(Spot(y)) \in Ids \ {f}
      BY <1>12, <2>3, OneIs, SpotIs DEF Items
    <3> HIDE DEF p, n
    <3>2. Spot(y) # {} => drive'[One(Spot(y))] = drive[One(Spot(y))]
      BY <1>7, <3>1
    <3>3. Content(drive', Spot(y)) = Content(drive, Spot(y))
      BY <3>2, ContentSame
    <3> QED
      BY <1>12, <2>1, <2>3, <3>3
  <2> QED
    BY <2>2, <2>3
<1>15. stored' = [stored EXCEPT ![x] = IF r = None THEN <<>> ELSE <<v>>]
  <2>1. stored = [y \in Paths |-> stored[y]] /\ stored' = [y \in Paths |-> stored'[y]]
    BY DEF stored
  <2> QED
    BY <1>14, <2>1
<1>16. FoldersUnique'
  BY <1>4, <1>7, <1>8 DEF TreeInv, FoldersUnique
<1>17. FilesUnique'
  <2> SUFFICES ASSUME NEW g \in Items', NEW h \in Items',
                      drive'[g].value # Folder, drive'[h].value # Folder,
                      drive'[g].parent = drive'[h].parent, drive'[g].name = drive'[h].name
               PROVE  g = h
    BY DEF FilesUnique
  <2>1. CASE g # f /\ h # f
    BY <1>7, <1>8, <2>1 DEF TreeInv, FilesUnique
  <2>2. ASSUME NEW k \in Items', k # f, drive'[k].parent = p, drive'[k].name = n,
               drive'[k].value # Folder
        PROVE  FALSE
    <3>1. k \in Spot(x)
      BY <1>7, <1>8, <2>2, SpotIs DEF p, n
    <3> QED
      BY <1>5, <2>2, <3>1
  <2> QED
    BY <1>4, <1>7, <1>8, <2>1, <2>2
<1>18. Rooted'
  <2> SUFFICES ASSUME NEW g \in Items'
               PROVE  drive'[g].parent = Base
                      \/ (drive'[g].parent \in Items' /\ drive'[drive'[g].parent].value = Folder)
    BY DEF Rooted
  <2>1. CASE g = f
    BY <1>2, <1>4, <1>6, <1>7, <1>8, <2>1
  <2>2. CASE g # f
    <3>1. g \in Items /\ drive'[g] = drive[g]
      BY <1>7, <1>8, <2>2
    <3> DEFINE q == drive[g].parent
    <3>2. q = Base \/ (q \in Items /\ drive[q].value = Folder)
      BY <3>1 DEF TreeInv, Rooted
    <3> HIDE DEF q
    <3>3. q = Base \/ (q \in Items /\ q # f /\ drive[q].value = Folder)
      BY <1>5, <3>2
    <3>4. q = Base \/ (q \in Items' /\ drive'[q].value = Folder)
      BY <1>7, <1>8, <3>3
    <3> QED
      BY <3>1, <3>4 DEF q
  <2> QED
    BY <2>1, <2>2
<1> QED
  BY <1>7, <1>15, <1>16, <1>17, <1>18 DEF TreeInv
-----------------------------------------------------------------------------
(* What a handler that is at l knows of its call c, when the paths hold s.  *)
Stands(l, c, s) ==
    /\ l = "idle" => c.op = "none" /\ c.res \in {"ok", "notfound", "error"}
    /\ l # "idle" => c.op \in {"upload", "download", "delete"} /\ c.res = "running"
    /\ l = "find" => c.op # "upload"
    /\ l = "get" => c.op = "download"
    /\ l = "remove" => c.op = "delete"
    /\ l \notin {"idle", "reply"} /\ c.op = "download" => c.value = None
    /\ l = "create" => s[c.path] = <<>>
    /\ l = "reply" => /\ c.did = TRUE
                      /\ c.op = "upload" => s[c.path] = <<c.value>>
                      /\ c.op = "delete" => s[c.path] = <<>>
                      /\ c.op = "download" => c.value = IF s[c.path] = <<>> THEN None
                                                        ELSE Head(s[c.path])

StoreInv == TreeInv /\ \A i \in Calls : Stands(pc[i], calls[i], stored)

DriveInv == FolderInv /\ CacheInv /\ StoreInv

(* The request that the call is to the store. *)
RequestOf(l, c, s) ==
    [op |-> c.op, path |-> c.path, res |-> c.res,
     value |-> IF l = "idle" \/ c.op = "upload" THEN c.value ELSE None,
     did |-> c.op # "download" /\ c.did,
     alone |-> TRUE,
     seen |-> IF c.op = "download" /\ s[c.path] = <<>> THEN {None}
              ELSE IF c.op = "download" THEN {Head(s[c.path])}
              ELSE {}]

Fields == {"op", "path", "res", "value", "did", "alone", "seen"}

(* Records are equal that have equal fields. *)
LEMMA FieldsEqual ==
    ASSUME NEW q, NEW r, q = [n \in Fields |-> q[n]], r = [n \in Fields |-> r[n]],
           q.op = r.op, q.path = r.path, q.res = r.res, q.value = r.value, q.did = r.did,
           q.alone = r.alone, q.seen = r.seen
    PROVE  q = r
<1>1. \A n \in Fields : q[n] = r[n]
  BY DEF Fields
<1> QED
  BY <1>1

LEMMA RequestsAre ==
    /\ requests = [i \in Calls |-> RequestOf(pc[i], calls[i], stored)]
    /\ requests' = [i \in Calls |-> RequestOf(pc'[i], calls'[i], stored')]
<1>1. requests = [i \in Calls |-> RequestOf(pc[i], calls[i], stored)]
  BY DEF requests, RequestOf, seen
<1>2. requests' = [i \in Calls |-> RequestOf(pc'[i], calls'[i], stored')]
  BY DEF requests, RequestOf, seen
<1> QED
  BY <1>1, <1>2

LEMMA StoredIs ==
    ASSUME TreeInv, NEW x \in Paths
    PROVE  /\ stored[x] = <<>> <=> Spot(x) = {}
           /\ stored[x] # <<>> => \E v \in Values : stored[x] = <<v>>
<1>1. \A v : <<v>> # <<>>
  OBVIOUS
<1>2. \A f \in Spot(x) : \E v \in Values : stored[x] = <<v>>
  BY SpotIs
<1> QED
  BY <1>1, <1>2, SpotIs

(* A call is busy with its path alone. *)
LEMMA PathsApart ==
    ASSUME DriveInv, NEW i \in Calls
    PROVE  /\ pc[i] # "idle" => calls[i].path \in Paths
           /\ \A j \in Calls : pc[i] # "idle" /\ pc[j] # "idle" /\ calls[i].path = calls[j].path
                                 => i = j
           /\ requests[i].res = "running" => pc[i] # "idle"
           /\ requests[i].path = calls[i].path /\ requests[i].op = calls[i].op
           /\ requests[i].res = calls[i].res
<1>1. /\ pc[i] # "idle" => calls[i].path \in Paths
      /\ \A j \in Calls : pc[i] # "idle" /\ pc[j] # "idle" /\ calls[i].path = calls[j].path
                                 => i = j
  BY DEF DriveInv, CacheInv, Distinct, Requested
<1>2. requests[i] = RequestOf(pc[i], calls[i], stored)
  BY RequestsAre
<1>3. requests[i].path = calls[i].path /\ requests[i].op = calls[i].op /\ requests[i].res = calls[i].res
  BY <1>2 DEF RequestOf
<1>4. calls[i].res = "running" => pc[i] # "idle"
  BY DEF DriveInv, StoreInv, Stands
<1> QED
  BY <1>1, <1>3, <1>4

(* What a step of handler i leaves of its call, and of what its path holds. *)
Moves(i, l, c) ==
    /\ pc' = [pc EXCEPT ![i] = l] /\ calls' = [calls EXCEPT ![i] = c]
    /\ TreeInv' /\ Stands(l, c, stored')
    /\ \/ stored' = stored
       \/ pc[i] # "idle" /\ \A y \in Paths \ {calls[i].path} : stored'[y] = stored[y]

LEMMA MoveShown ==
    ASSUME DriveInv, NEW i \in Calls, NEW l, NEW c, Moves(i, l, c)
    PROVE  /\ StoreInv'
           /\ requests' = [requests EXCEPT ![i] = RequestOf(l, c, stored')]
<1>1. /\ pc'[i] = l /\ calls'[i] = c
      /\ \A j \in Calls \ {i} : pc'[j] = pc[j] /\ calls'[j] = calls[j]
  BY DEF DriveInv, FolderInv, Shaped, Moves
<1>2. ASSUME NEW j \in Calls \ {i}
      PROVE  /\ Stands(pc'[j], calls'[j], stored')
             /\ RequestOf(pc'[j], calls'[j], stored') = RequestOf(pc[j], calls[j], stored)
  <2>1. Stands(pc[j], calls[j], stored)
    BY DEF DriveInv, StoreInv
  <2>2. CASE pc[j] = "idle"
    BY <1>1, <2>1, <2>2 DEF Stands, RequestOf
  <2>3. CASE pc[j] # "idle"
    <3>1. stored'[calls[j].path] = stored[calls[j].path]
      BY <2>3, PathsApart DEF Moves
    <3> QED
      BY <1>1, <2>1, <3>1 DEF Stands, RequestOf
  <2> QED
    BY <2>2, <2>3
<1>3. StoreInv'
  <2>1. \A j \in Calls : Stands(pc'[j], calls'[j], stored')
    BY <1>1, <1>2 DEF Moves
  <2> QED
    BY <2>1 DEF StoreInv, Moves
<1>4. requests' = [requests EXCEPT ![i] = RequestOf(l, c, stored')]
  BY <1>1, <1>2, RequestsAre
<1> QED
  BY <1>3, <1>4

(* Every step is a step of the store, or none. *)
StoreVars == <<stored, requests>>
Shown == StoreInv' /\ [Store!Next]_StoreVars

LEMMA StutterShown ==
    ASSUME DriveInv, NEW i \in Calls, NEW l, NEW c, Moves(i, l, c), stored' = stored,
           RequestOf(l, c, stored) = RequestOf(pc[i], calls[i], stored)
    PROVE  Shown
<1>1. StoreInv' /\ requests' = [requests EXCEPT ![i] = RequestOf(l, c, stored)]
  BY MoveShown
<1>2. requests' = requests
  BY <1>1, RequestsAre
<1> QED
  BY <1>1, <1>2 DEF Shown, StoreVars

LEMMA ActionShown ==
    ASSUME NEW i \in Calls, StoreInv',
           Store!Start(i) \/ Store!Put(i) \/ Store!Delete(i) \/ Store!Return(i)
    PROVE  Shown
BY DEF Shown, Store!Next

(* The handler goes on with the same call, the drive is what it was.        *)
LEMMA GoShown ==
    ASSUME DriveInv, NEW i \in Calls, NEW l, l # "idle", pc[i] # "idle", Goto(i, l),
           UNCHANGED calls, TreeInv', stored' = stored, Stands(l, calls[i], stored)
    PROVE  Shown
<1>1. calls' = [calls EXCEPT ![i] = calls[i]]
  BY SameCall DEF DriveInv, FolderInv
<1>2. Moves(i, l, calls[i])
  BY <1>1 DEF Moves, Goto
<1>3. RequestOf(l, calls[i], stored) = RequestOf(pc[i], calls[i], stored)
  BY DEF RequestOf
<1> QED
  BY <1>2, <1>3, StutterShown

(* What takes effect. *)
LEMMA EffectShown ==
    ASSUME DriveInv, NEW i \in Calls, NEW l, l # "idle", pc[i] # "idle", calls[i].op # "download",
           Moves(i, l, [calls[i] EXCEPT !.did = TRUE]),
           NEW s, stored' = [stored EXCEPT ![calls[i].path] = s],
           calls[i].op = "upload" => s = <<calls[i].value>>,
           calls[i].op = "delete" => s = <<>>
    PROVE  Shown
<1> DEFINE c == [calls[i] EXCEPT !.did = TRUE]
           x == calls[i].path
<1>1. /\ c.op = calls[i].op /\ c.path = x /\ c.value = calls[i].value /\ c.res = calls[i].res
      /\ c.did = TRUE
  BY DEF DriveInv, FolderInv, Shaped
<1>2. calls[i].op \in {"upload", "delete"} /\ calls[i].res = "running" /\ x \in Paths
  <2>1. Stands(pc[i], calls[i], stored)
    BY DEF DriveInv, StoreInv
  <2> QED
    BY <2>1, PathsApart DEF Stands
<1>3. StoreInv' /\ requests' = [requests EXCEPT ![i] = RequestOf(l, c, stored')]
  BY MoveShown
<1>4. requests[i] = RequestOf(pc[i], calls[i], stored)
  BY RequestsAre
<1>5. /\ RequestOf(l, c, stored') = [requests[i] EXCEPT !.did = TRUE]
      /\ requests[i].value = IF calls[i].op = "upload" THEN calls[i].value ELSE None
  <2> HIDE DEF c, x
  <2>1. RequestOf(l, c, stored') = [op |-> calls[i].op, path |-> x, res |-> calls[i].res,
            value |-> IF calls[i].op = "upload" THEN calls[i].value ELSE None,
            did |-> TRUE, alone |-> TRUE, seen |-> {}]
    BY <1>1, <1>2 DEF RequestOf
  <2>2. requests[i] = [op |-> calls[i].op, path |-> x, res |-> calls[i].res,
            value |-> IF calls[i].op = "upload" THEN calls[i].value ELSE None,
            did |-> requests[i].did, alone |-> TRUE, seen |-> {}]
    <3> DEFINE did == calls[i].op # "download" /\ calls[i].did
    <3>1. requests[i] = [op |-> calls[i].op, path |-> x, res |-> calls[i].res,
            value |-> IF calls[i].op = "upload" THEN calls[i].value ELSE None,
            did |-> did, alone |-> TRUE, seen |-> {}]
      BY <1>2, <1>4 DEF RequestOf, x
    <3> HIDE DEF did
    <3> QED
      BY <3>1
  <2>3. ASSUME NEW q, NEW op, NEW path, NEW res, NEW val, NEW did,
               q = [op |-> op, path |-> path, res |-> res, value |-> val, did |-> did,
                    alone |-> TRUE, seen |-> {}]
        PROVE  /\ [op |-> op, path |-> path, res |-> res, value |-> val, did |-> TRUE,
                   alone |-> TRUE, seen |-> {}] = [q EXCEPT !.did = TRUE]
               /\ q.value = val
    <3> DEFINE k == [op |-> op, path |-> path, res |-> res, value |-> val, did |-> TRUE,
                     alone |-> TRUE, seen |-> {}]
               u == [q EXCEPT !.did = TRUE]
    <3>1. k = [n \in Fields |-> k[n]] /\ u = [n \in Fields |-> u[n]]
      BY <2>3 DEF Fields
    <3>2. k.op = u.op /\ k.path = u.path /\ k.res = u.res /\ k.value = u.value /\ k.seen = u.seen
      BY <2>3
    <3>3. k.did = u.did
      BY <2>3
    <3>4. k.alone = u.alone
      BY <2>3
    <3>5. q.value = val
      BY <2>3
    <3> HIDE DEF k, u
    <3>6. k = u
      BY <3>1, <3>2, <3>3, <3>4, FieldsEqual
    <3> QED
      BY <3>5, <3>6 DEF k, u
  <2> QED
    BY <2>1, <2>2, <2>3
<1>6. Store!Changing(i, x) /\ requests[i].path = x /\ requests[i].op = calls[i].op
  BY <1>2, PathsApart DEF Store!Changing
<1>7. \A j \in Calls : requests[j].res = "running" /\ requests[j].path = x => j = i
  BY <1>2, PathsApart
<1>8. Store!Noticed(x, {i})
  <2>1. requests = [j \in Calls |-> requests[j]]
    BY RequestsAre
  <2> HIDE DEF c, x
  <2> QED
    BY <1>3, <1>5, <1>7, <2>1 DEF Store!Noticed
<1>9. Store!Becomes(x, s)
  BY DEF Store!Becomes
<1>10. CASE calls[i].op = "upload"
  BY <1>3, <1>5, <1>6, <1>8, <1>9, <1>10, ActionShown DEF Store!Put
<1>11. CASE calls[i].op = "delete"
  BY <1>3, <1>6, <1>8, <1>9, <1>11, ActionShown DEF Store!Delete
<1> QED
  BY <1>2, <1>10, <1>11

(* The answer. *)
LEMMA ReplyShown ==
    ASSUME DriveInv, NEW i \in Calls, pc[i] # "idle", NEW res \in {"ok", "notfound", "error"},
           Reply(i, res), TreeInv', stored' = stored,
           res = "ok" => calls[i].did = TRUE,
           calls[i].op = "download" /\ res = "ok" =>
               stored[calls[i].path] # <<>> /\ calls[i].value = Head(stored[calls[i].path]),
           res = "notfound" => calls[i].op = "download" /\ stored[calls[i].path] = <<>>
    PROVE  Shown
<1> DEFINE v == IF calls[i].op = "download" /\ res = "ok" THEN calls[i].value ELSE None
           c == [Idle EXCEPT !.res = res, !.value = v]
           x == calls[i].path
<1>1. /\ c.op = "none" /\ c.path = None /\ c.value = v /\ c.res = res /\ c.did = FALSE
  BY DEF Idle
<1>2. calls[i].op \in {"upload", "download", "delete"} /\ calls[i].res = "running" /\ x \in Paths
  <2>1. Stands(pc[i], calls[i], stored)
    BY DEF DriveInv, StoreInv
  <2> QED
    BY <2>1, PathsApart DEF Stands
<1>3. Moves(i, "idle", c)
  <2>1. pc' = [pc EXCEPT ![i] = "idle"] /\ calls' = [calls EXCEPT ![i] = c]
    BY DEF Reply, Goto
  <2>2. Stands("idle", c, stored')
    <3> HIDE DEF c
    <3> QED
      BY <1>1 DEF Stands
  <2> QED
    BY <2>1, <2>2 DEF Moves
<1>4. StoreInv' /\ requests' = [requests EXCEPT ![i] = RequestOf("idle", c, stored')]
  <2> HIDE DEF c
  <2> QED
    BY <1>3, MoveShown
<1>5. RequestOf("idle", c, stored') = [Store!Idle EXCEPT !.res = res, !.value = v]
  <2> DEFINE e == [op |-> "none", path |-> None, res |-> res, value |-> v,
                   did |-> FALSE, alone |-> TRUE, seen |-> {}]
  <2> HIDE DEF c, v
  <2>1. [Store!Idle EXCEPT !.res = res, !.value = v] = e
    <3> DEFINE u == [Store!Idle EXCEPT !.res = res, !.value = v]
    <3>1. u = [n \in Fields |-> u[n]] /\ e = [n \in Fields |-> e[n]]
      BY DEF Store!Idle, Fields
    <3>2. u.op = e.op /\ u.path = e.path /\ u.res = e.res /\ u.value = e.value /\ u.seen = e.seen
      BY DEF Store!Idle
    <3>3. u.did = e.did
      BY DEF Store!Idle
    <3>4. u.alone = e.alone
      BY DEF Store!Idle
    <3> HIDE DEF u, e
    <3>5. u = e
      BY <3>1, <3>2, <3>3, <3>4, FieldsEqual
    <3> QED
      BY <3>5 DEF u
  <2>2. (c.op # "download" /\ c.did) = FALSE
    BY <1>1
  <2>3. RequestOf("idle", c, stored') = e
    BY <1>1, <2>2 DEF RequestOf
  <2> QED
    BY <2>1, <2>3
<1>6. /\ requests[i].seen = IF calls[i].op # "download" THEN {}
                            ELSE IF stored[x] = <<>> THEN {None} ELSE {Head(stored[x])}
      /\ requests[i].did <=> calls[i].op # "download" /\ calls[i].did
      /\ requests[i].op = calls[i].op /\ requests[i].res = "running"
  BY <1>2, RequestsAre DEF RequestOf
<1>7. calls[i].op = "download" /\ res = "ok" => v \in Values /\ v # None /\ v = Head(stored[x])
  <2>1. stored[x] # <<>> => \E w \in Values : stored[x] = <<w>>
    BY <1>2, StoredIs DEF DriveInv, StoreInv
  <2>2. stored[x] # <<>> => Head(stored[x]) \in Values
    BY <2>1
  <2> QED
    BY <2>2, DistinctAssumption
<1> HIDE DEF c, v, x
<1>8. v # None => calls[i].op = "download" /\ res = "ok"
  BY DEF v
<1>9. Store!Return(i)
  <2>1. v \in Values \cup {"torn", None}
    BY <1>7, <1>8
  <2>2. /\ calls[i].op = "download" /\ res = "ok" => v # None /\ v \in requests[i].seen
        /\ requests[i].op # "download" /\ res = "ok" => requests[i].did
        /\ res = "notfound" => requests[i].op = "download" /\ None \in requests[i].seen
    BY <1>6, <1>7 DEF x
  <2> QED
    BY <1>4, <1>5, <1>6, <1>8, <2>1, <2>2 DEF Store!Return
<1> QED
  BY <1>4, <1>9, ActionShown
-----------------------------------------------------------------------------
(* A call whose directory is known looks where its path leads.              *)
LEMMA HereIsSpot ==
    ASSUME DriveInv, NEW i \in Calls, pc[i] \in Resolves
    PROVE  /\ calls[i].path \in Paths /\ pc[i] # "idle"
           /\ CachedId(Dir(i)) = IdOf[Front(calls[i].path)] /\ CachedId(Dir(i)) # None
           /\ Here(i) = Spot(calls[i].path)
<1>1. calls[i].path \in Paths /\ pc[i] # "idle"
  BY PathsApart DEF Resolves
<1>2. Dir(i) \in AllDirs /\ CachedId(Dir(i)) # None
  BY <1>1, PathsAre DEF DriveInv, CacheInv, Placed, Dir
<1>3. CachedId(Dir(i)) = IdOf[Front(calls[i].path)]
  BY <1>2, CacheFollows DEF DriveInv, Dir
<1> QED
  BY <1>1, <1>2, <1>3 DEF Here, Spot, Name

LEMMA CallIs ==
    ASSUME DriveInv, NEW i \in Calls
    PROVE  /\ TreeInv /\ Stands(pc[i], calls[i], stored)
           /\ pc[i] # "idle" => /\ calls[i].op \in {"upload", "download", "delete"}
                                /\ calls[i].res = "running" /\ calls[i].path \in Paths
           /\ pc[i] # "idle" /\ calls[i].op = "upload" => calls[i].value \in Values
           /\ UNCHANGED drive => stored' = stored /\ TreeInv'
<1>1. TreeInv /\ Stands(pc[i], calls[i], stored)
  BY DEF DriveInv, StoreInv
<1>2. UNCHANGED drive => stored' = stored /\ TreeInv'
  BY <1>1, DriveSame
<1> QED
  BY <1>1, <1>2, PathsApart DEF Stands, DriveInv, FolderInv, Uploads

LEMMA StartShown ==
    ASSUME DriveInv, NEW i \in Calls, Start(i)
    PROVE  Shown
<1>1. PICK op \in {"upload", "download", "delete"}, x \in Paths :
         \E v \in IF op = "upload" THEN Contents[x] ELSE {None} :
            /\ \A j \in Calls : pc[j] # "idle" => calls[j].path # x
            /\ calls' = [calls EXCEPT ![i] =
                  [op |-> op, path |-> x, value |-> v, did |-> FALSE, res |-> "running"]]
  BY DEF Start
<1> PICK v \in IF op = "upload" THEN Contents[x] ELSE {None} :
            /\ \A j \in Calls : pc[j] # "idle" => calls[j].path # x
            /\ calls' = [calls EXCEPT ![i] =
                  [op |-> op, path |-> x, value |-> v, did |-> FALSE, res |-> "running"]]
  BY <1>1
<1> DEFINE c == [op |-> op, path |-> x, value |-> v, did |-> FALSE, res |-> "running"]
           held == IF op = "download" THEN IF stored[x] = <<>> THEN {None} ELSE {Head(stored[x])} ELSE {}
           e == [op |-> op, path |-> x, value |-> v, did |-> FALSE, alone |-> TRUE,
                 seen |-> held, res |-> "running"]
<1>2. v \in IF op = "upload" THEN Values ELSE {None}
  BY DEF Values
<1>3. /\ pc[i] = "idle" /\ stored' = stored /\ TreeInv'
      /\ pc' = [pc EXCEPT ![i] = "lookup"] /\ calls' = [calls EXCEPT ![i] = c]
  BY CallIs DEF Start, Goto
<1>4. c.op = op /\ c.path = x /\ c.value = v /\ c.did = FALSE /\ c.res = "running"
  OBVIOUS
<1> HIDE DEF c
<1>5. Moves(i, "lookup", c)
  BY <1>3, <1>4 DEF Moves, Stands
<1>6. StoreInv' /\ requests' = [requests EXCEPT ![i] = RequestOf("lookup", c, stored)]
  BY <1>3, <1>5, MoveShown
<1>7. RequestOf("lookup", c, stored) = e
  <2> HIDE DEF held
  <2> DEFINE u == RequestOf("lookup", c, stored)
  <2>1. u = [n \in Fields |-> u[n]] /\ e = [n \in Fields |-> e[n]]
    BY DEF RequestOf, Fields
  <2>2. u.op = e.op /\ u.path = e.path /\ u.res = e.res /\ u.value = e.value
    BY <1>2, <1>4 DEF RequestOf
  <2>3. u.did = e.did
    BY <1>4 DEF RequestOf
  <2>4. u.alone = e.alone
    BY DEF RequestOf
  <2>5. u.seen = e.seen
    BY <1>4 DEF RequestOf, held
  <2> HIDE DEF u, e
  <2>6. u = e
    BY <2>1, <2>2, <2>3, <2>4, <2>5, FieldsEqual
  <2> QED
    BY <2>6 DEF u
<1>8. op = "download" => held = {Store!Current(x)}
  <2>1. stored[x] # <<>> => \E w \in Values : stored[x] = <<w>>
    BY CallIs, StoredIs
  <2>2. ASSUME NEW w PROVE Store!Last(<<w>>) = w /\ Head(<<w>>) = w
    BY DEF Store!Last
  <2> QED
    BY <2>1, <2>2 DEF Store!Current
<1>9. \A k \in Calls : ~Store!Changing(k, x)
  BY <1>1, PathsApart DEF Store!Changing
<1>10. Store!Start(i)
  <2>1. requests[i].res # "running"
    BY <1>3, PathsApart
  <2>2. requests = [j \in Calls |-> requests[j]]
    BY RequestsAre
  <2> DEFINE al == \A k \in Calls : Store!Changing(k, x) => op = "download" /\ requests[k].alone
             sn == IF op = "download" THEN {Store!Current(x)} ELSE {}
  <2>3. e = [op |-> op, path |-> x, value |-> v, did |-> FALSE, alone |-> al,
             seen |-> sn, res |-> "running"]
    <3>1. al = TRUE
      BY <1>9
    <3>2. sn = held
      BY <1>8
    <3> HIDE DEF al, sn, held
    <3> QED
      BY <3>1, <3>2
  <2>4. requests' = [j \in Calls |-> IF j = i THEN e
             ELSE IF /\ op # "download" /\ \E k \in Calls : Store!Changing(k, x)
                     /\ requests[j].res = "running" /\ requests[j].path = x
             THEN [requests[j] EXCEPT !.alone = FALSE]
             ELSE requests[j]]
    <3> HIDE DEF e
    <3> QED
      BY <1>6, <1>7, <1>9, <2>2
  <2> HIDE DEF e
  <2>5. requests' = [j \in Calls |-> IF j = i
             THEN [op |-> op, path |-> x, value |-> v, did |-> FALSE, alone |-> al,
                   seen |-> sn, res |-> "running"]
             ELSE IF /\ op # "download" /\ \E k \in Calls : Store!Changing(k, x)
                     /\ requests[j].res = "running" /\ requests[j].path = x
             THEN [requests[j] EXCEPT !.alone = FALSE]
             ELSE requests[j]]
    <3> HIDE DEF al, sn
    <3> QED
      BY <2>3, <2>4
  <2> QED
    BY <1>2, <1>3, <2>1, <2>5 DEF Store!Start
<1> QED
  BY <1>6, <1>10, ActionShown

(* An attempt that fails: the call starts over, or its answer is an error.  *)
LEMMA AttemptShown ==
    ASSUME DriveInv, NEW i \in Calls, pc[i] \notin {"idle", "reply"}, Attempt(i), stored' = stored, TreeInv'
    PROVE  Shown
<1>1. CASE Exhausted(i)
  <2>1. Reply(i, "error")
    BY <1>1 DEF Attempt, GiveUp
  <2> QED
    BY <2>1, ReplyShown
<1>2. CASE ~Exhausted(i)
  <2>1. Goto(i, "lookup") /\ UNCHANGED calls
    BY <1>2 DEF Attempt
  <2>2. Stands("lookup", calls[i], stored)
    BY CallIs DEF Stands
  <2> QED
    BY <2>1, <2>2, GoShown
<1> QED
  BY <1>1, <1>2

(* A folder that is made where the handler found none. *)
LEMMA MadeShown ==
    ASSUME DriveInv, NEW i \in Calls, pc[i] = "mkdir", NEW f \in Free,
           drive' = [drive EXCEPT ![f] = NewFolder(Missing(i))]
    PROVE  stored' = stored /\ TreeInv'
<1> DEFINE d == Missing(i)
           p == Parent(d)
<1>1. f \in Ids /\ drive[f] = None
  BY FreeIs DEF DriveInv
<1>2. d \in Dirs /\ p # None
  <2>1. calls[i].path \in Paths /\ CachedId(Dir(i)) = None
    BY CallIs DEF DriveInv, CacheInv, Placed, Seeks
  <2> QED
    BY <2>1, MissingIs
<1>3. Front(d) \in AllDirs /\ Last(d) \in STRING
  BY <1>2, DirsAre
<1>4. p = IdOf[Front(d)]
  BY <1>2, <1>3, CacheFollows DEF DriveInv, Parent
<1>5. p = Base \/ (p \in Items /\ drive[p].value = Folder)
  BY <1>2, <1>3, <1>4, CallIs, IdOfFolder, IdOfRoot
<1>6. Folders(p, Last(d)) = {}
  BY DEF DriveInv, FolderInv, Absent, Sought
<1>7. NewFolder(d) = [parent |-> p, name |-> Last(d), value |-> Folder]
  BY DEF NewFolder
<1> HIDE DEF d, p
<1> QED
  BY <1>1, <1>3, <1>5, <1>6, <1>7, CallIs, FolderMade DEF d

LEMMA ResolveShown ==
    ASSUME DriveInv, NEW i \in Calls, Resolve(i)
    PROVE  Shown
<1> DEFINE o == Operation(i)
<1>1. o \in {"check", "find"} /\ (o = "find" => calls[i].op # "upload")
  BY DEF Operation
<1>2. ASSUME NEW l \in {o, "lock", "folder", "mkdir"}, Goto(i, l), UNCHANGED calls,
             pc[i] \notin {"idle", "reply"}, stored' = stored, TreeInv'
      PROVE  Shown
  <2>1. Stands(l, calls[i], stored)
    BY <1>1, <1>2, CallIs DEF Stands
  <2>2. l # "idle"
    BY <1>1
  <2> HIDE DEF o
  <2> QED
    BY <1>2, <2>1, <2>2, GoShown
<1> HIDE DEF o
<1>3. CASE Lookup(i)
  BY <1>2, <1>3, CallIs DEF Lookup, o
<1>4. CASE Lock(i)
  BY <1>2, <1>4, CallIs DEF Lock, o
<1>5. CASE FindFolder(i)
  BY <1>2, <1>5, CallIs DEF FindFolder, Known, o
<1>6. CASE MakeFolder(i)
  <2>1. PICK f \in Free : drive' = [drive EXCEPT ![f] = NewFolder(Missing(i))] /\ Known(i, f)
    BY <1>6 DEF MakeFolder
  <2>2. stored' = stored /\ TreeInv'
    BY <1>6, <2>1, MadeShown DEF MakeFolder
  <2> QED
    BY <1>2, <1>6, <2>1, <2>2 DEF MakeFolder, Known, o
<1>7. CASE FolderFails(i)
  <2>1. stored' = stored /\ TreeInv'
    BY <1>7, CallIs, MadeShown DEF FolderFails
  <2> QED
    BY <1>7, <2>1, AttemptShown DEF FolderFails
<1> QED
  BY <1>3, <1>4, <1>5, <1>6, <1>7 DEF Resolve

(* A file is written.                                                       *)
LEMMA WrittenShown ==
    ASSUME DriveInv, NEW i \in Calls,
           \/ pc[i] = "create" /\ \E f \in Free : Written(i, f)
           \/ pc[i] = "update" /\ Written(i, file[i]),
           NEW l \in {"lookup", "reply"}, Goto(i, l),
           calls' = [calls EXCEPT ![i].did = TRUE]
    PROVE  Shown
<1> DEFINE x == calls[i].path
           c == [calls[i] EXCEPT !.did = TRUE]
           r == [parent |-> IdOf[Front(x)], name |-> Last(x), value |-> calls[i].value]
<1>1. pc[i] \in Resolves /\ pc[i] # "idle" /\ pc[i] \in {"check", "create", "update"}
  BY DEF Resolves
<1>2. calls[i].op = "upload" /\ calls[i].value \in Values /\ x \in Paths /\ TreeInv
      /\ calls[i].res = "running"
  BY <1>1, CallIs DEF DriveInv, FolderInv, Uploads
<1>3. PICK f : /\ Written(i, f)
               /\ f \in Ids
               /\ f \in Spot(x) \/ (drive[f] = None /\ Spot(x) = {})
  <2>1. CASE pc[i] = "create"
    <3>1. PICK f \in Free : Written(i, f)
      BY <2>1
    <3>2. f \in Ids /\ drive[f] = None
      BY FreeIs DEF DriveInv
    <3>3. Spot(x) = {}
      BY <1>2, <2>1, CallIs, StoredIs DEF Stands
    <3> QED
      BY <3>1, <3>2, <3>3
  <2>2. CASE pc[i] = "update"
    <3>1. file[i] \in Spot(x) /\ file[i] \in Ids
      BY <1>1, <2>2, HereIsSpot, HereIs DEF DriveInv, CacheInv, Holding, Holds
    <3> QED
      BY <2>2, <3>1
  <2> QED
    BY <2>1, <2>2
<1>4. drive' = [drive EXCEPT ![f] = r]
  BY <1>1, <1>3, HereIsSpot DEF Written, Name
<1>5. r # None
  <2>1. r \in Item
    <3>1. IdOf[Front(x)] \in Ids \cup {Base}
      <4>1. IdOf[Front(x)] # None /\ Front(x) \in AllDirs
        BY <1>1, <1>2, HereIsSpot, PathsAre
      <4> QED
        BY <1>2, <4>1, IdOfFolder, IdOfRoot DEF Items
    <3> QED
      BY <1>2, <3>1, PathsAre DEF Item
  <2> QED
    BY <2>1, ItemAssumption
<1>6. stored' = [stored EXCEPT ![x] = <<calls[i].value>>] /\ TreeInv'
  <2>1. IdOf[Front(x)] # None
    BY <1>1, HereIsSpot
  <2> HIDE DEF x
  <2>2. stored' = [stored EXCEPT ![x] = IF r = None THEN <<>> ELSE <<calls[i].value>>] /\ TreeInv'
    BY <1>2, <1>3, <1>4, <2>1, FileChanges
  <2> QED
    BY <1>5, <2>2
<1>7. /\ calls' = [calls EXCEPT ![i] = c]
      /\ c.op = "upload" /\ c.res = "running" /\ c.path = x /\ c.did = TRUE
      /\ c.value = calls[i].value
  BY <1>2 DEF DriveInv, FolderInv, Shaped
<1>8. Stands(l, c, stored')
  <2>1. x \in Paths /\ stored = [y \in Paths |-> stored[y]]
    BY <1>1, HereIsSpot DEF stored
  <2> HIDE DEF c, x
  <2>2. stored'[x] = <<calls[i].value>>
    BY <1>6, <2>1
  <2> QED
    BY <1>7, <2>2 DEF Stands
<1>9. \A y \in Paths \ {x} : stored'[y] = stored[y]
  BY <1>6 DEF stored
<1>10. Moves(i, l, c)
  <2> HIDE DEF c
  <2> QED
    BY <1>1, <1>6, <1>7, <1>8, <1>9 DEF Moves, Goto
<1> QED
  BY <1>1, <1>2, <1>6, <1>10, EffectShown

LEMMA OperateShown ==
    ASSUME DriveInv, NEW i \in Calls, Operate(i)
    PROVE  Shown
<1> DEFINE x == calls[i].path
<1>1. CASE Check(i)
  <2>1. pc[i] \in Resolves /\ UNCHANGED calls /\ stored' = stored /\ TreeInv'
    BY <1>1, CallIs DEF Check, Resolves
  <2>2. pc[i] # "idle" /\ calls[i].op = "upload" /\ x \in Paths
    BY <1>1, CallIs DEF Check, DriveInv, FolderInv, Uploads
  <2>3. CASE Here(i) = {}
    <3>1. stored[x] = <<>>
      BY <2>1, <2>2, <2>3, HereIsSpot, CallIs, StoredIs
    <3>2. Stands("create", calls[i], stored) /\ Goto(i, "create")
      BY <1>1, <2>2, <2>3, <3>1, CallIs DEF Stands, Check
    <3> QED
      BY <2>1, <2>2, <3>2, GoShown
  <2>4. CASE Here(i) # {}
    <3>1. Stands("update", calls[i], stored) /\ Goto(i, "update")
      BY <1>1, <2>2, <2>4, CallIs DEF Stands, Check
    <3> QED
      BY <2>1, <2>2, <3>1, GoShown
  <2> QED
    BY <2>3, <2>4
<1>2. CASE Write(i) \/ WriteUnanswered(i)
  BY <1>2, WrittenShown DEF Write, WriteUnanswered
<1>3. CASE Find(i)
  <2>1. /\ pc[i] = "find" /\ pc[i] \in Resolves /\ stored' = stored /\ TreeInv' /\ x \in Paths
        /\ calls[i].op \in {"download", "delete"} /\ calls[i].res = "running"
    BY <1>3, CallIs DEF Find, Resolves, Stands
  <2>2. CASE Here(i) = {}
    <3> DEFINE c == [calls[i] EXCEPT !.did = TRUE]
    <3>1. stored[x] = <<>>
      BY <2>1, <2>2, HereIsSpot, CallIs, StoredIs
    <3>2. calls' = [calls EXCEPT ![i] = c] /\ Goto(i, "reply")
      BY <1>3, <2>2 DEF Find
    <3>3. /\ c.op = calls[i].op /\ c.res = "running" /\ c.path = x /\ c.did = TRUE
          /\ c.value = calls[i].value
      BY <2>1 DEF DriveInv, FolderInv, Shaped
    <3>4. calls[i].op = "download" => calls[i].value = None
      BY <2>1, CallIs DEF Stands
    <3>5. Moves(i, "reply", c)
      <4> HIDE DEF c
      <4>1. Stands("reply", c, stored')
        BY <2>1, <3>1, <3>3, <3>4 DEF Stands
      <4> QED
        BY <2>1, <3>2, <4>1 DEF Moves, Goto
    <3>6. CASE calls[i].op = "delete"
      <4>1. stored' = [stored EXCEPT ![x] = <<>>]
        BY <2>1, <3>1 DEF stored
      <4> QED
        BY <2>1, <3>5, <3>6, <4>1, EffectShown
    <3>7. CASE calls[i].op = "download"
      <4>1. RequestOf("reply", c, stored) = RequestOf(pc[i], calls[i], stored)
        <5> HIDE DEF c
        <5> QED
          BY <2>1, <3>3, <3>7 DEF RequestOf
      <4> HIDE DEF c
      <4> QED
        BY <2>1, <3>5, <4>1, StutterShown
    <3> QED
      BY <2>1, <3>6, <3>7
  <2>3. CASE Here(i) # {}
    <3>1. PICK l \in {"get", "remove"} :
              /\ Goto(i, l) /\ UNCHANGED calls
              /\ l = IF calls[i].op = "download" THEN "get" ELSE "remove"
      BY <1>3, <2>3 DEF Find
    <3>2. Stands(l, calls[i], stored)
      BY <2>1, <3>1, CallIs DEF Stands
    <3> QED
      BY <2>1, <3>1, <3>2, GoShown
  <2> QED
    BY <2>2, <2>3
<1>4. CASE Get(i)
  <2> DEFINE v == drive[file[i]].value
             c == [calls[i] EXCEPT !.did = TRUE, !.value = v]
  <2>1. /\ pc[i] = "get" /\ pc[i] \in Resolves \cap Holds /\ stored' = stored /\ TreeInv' /\ x \in Paths
        /\ calls[i].op = "download" /\ calls[i].res = "running"
    BY <1>4, CallIs DEF Get, Resolves, Holds, Stands
  <2>2. stored[x] = <<v>>
    <3>1. file[i] \in Spot(x)
      BY <2>1, HereIsSpot DEF DriveInv, CacheInv, Holding
    <3> QED
      BY <2>1, <3>1, CallIs, SpotIs
  <2>3. calls' = [calls EXCEPT ![i] = c] /\ Goto(i, "reply")
    BY <1>4 DEF Get
  <2>4. c.op = "download" /\ c.res = "running" /\ c.path = x /\ c.did = TRUE /\ c.value = v
    BY <2>1 DEF DriveInv, FolderInv, Shaped
  <2> HIDE DEF v
  <2>5. stored[x] # <<>> /\ Head(stored[x]) = v
    BY <2>2
  <2> HIDE DEF c
  <2>6. Moves(i, "reply", c)
    <3>1. Stands("reply", c, stored')
      BY <2>1, <2>4, <2>5 DEF Stands
    <3> QED
      BY <2>1, <2>3, <3>1 DEF Moves, Goto
  <2>7. RequestOf("reply", c, stored) = RequestOf(pc[i], calls[i], stored)
    BY <2>1, <2>4 DEF RequestOf
  <2> QED
    BY <2>1, <2>6, <2>7, StutterShown
<1>5. CASE Delete(i)
  <2> DEFINE c == [calls[i] EXCEPT !.did = TRUE]
  <2>1. /\ pc[i] = "remove" /\ pc[i] \in Resolves \cap Holds /\ x \in Paths
        /\ calls[i].op = "delete" /\ calls[i].res = "running" /\ TreeInv
    BY <1>5, CallIs DEF Delete, Resolves, Holds, Stands
  <2>2. file[i] \in Spot(x) /\ file[i] \in Ids /\ IdOf[Front(x)] # None
    BY <2>1, HereIsSpot, HereIs DEF DriveInv, CacheInv, Holding
  <2>3. drive' = [drive EXCEPT ![file[i]] = None]
    BY <1>5 DEF Delete
  <2>4. Values # {}
    BY <2>1, <2>2, SpotIs
  <2>5. stored' = [stored EXCEPT ![x] = <<>>] /\ TreeInv'
    <3> DEFINE r == None
    <3>1. PICK v \in Values : TRUE
      BY <2>4
    <3>2. stored' = [stored EXCEPT ![x] = IF r = None THEN <<>> ELSE <<v>>] /\ TreeInv'
      <4> HIDE DEF x
      <4> QED
        BY <2>1, <2>2, <2>3, FileChanges
    <3> QED
      BY <3>2
  <2>6. /\ calls' = [calls EXCEPT ![i] = c] /\ Goto(i, "reply")
        /\ c.op = "delete" /\ c.res = "running" /\ c.path = x /\ c.did = TRUE
    BY <1>5, <2>1 DEF Delete, DriveInv, FolderInv, Shaped
  <2>7. \A y \in Paths \ {x} : stored'[y] = stored[y]
    BY <2>5 DEF stored
  <2>8. Moves(i, "reply", c)
    <3> HIDE DEF c, x
    <3>0. stored'[x] = <<>>
      <4>1. x \in Paths /\ stored = [y \in Paths |-> stored[y]]
        BY <2>1, HereIsSpot DEF stored, x
      <4> QED
        BY <2>5, <4>1
    <3>1. Stands("reply", c, stored')
      BY <2>6, <3>0 DEF Stands
    <3> QED
      BY <2>1, <2>5, <2>6, <2>7, <3>1 DEF Moves, Goto, x
  <2> QED
    BY <2>1, <2>5, <2>8, EffectShown
<1>6. CASE RequestFails(i)
  BY <1>6, CallIs, AttemptShown DEF RequestFails
<1>7. CASE Answer(i)
  <2>1. /\ pc[i] = "reply" /\ stored' = stored /\ TreeInv' /\ x \in Paths
        /\ calls[i].op \in {"upload", "download", "delete"} /\ calls[i].did = TRUE
        /\ calls[i].op = "download" => calls[i].value = IF stored[x] = <<>> THEN None
                                                        ELSE Head(stored[x])
    BY <1>7, CallIs DEF Answer, Stands
  <2>2. stored[x] # <<>> => Head(stored[x]) # None
    <3>1. stored[x] # <<>> => \E v \in Values : stored[x] = <<v>>
      BY <2>1, CallIs, StoredIs
    <3>2. \A v : Head(<<v>>) = v
      OBVIOUS
    <3> QED
      BY <3>1, <3>2, DistinctAssumption
  <2>3. CASE calls[i].op = "download" /\ calls[i].value = None
    <3>1. Reply(i, "notfound")
      BY <1>7, <2>3 DEF Answer
    <3> QED
      BY <2>1, <2>2, <2>3, <3>1, ReplyShown
  <2>4. CASE ~(calls[i].op = "download" /\ calls[i].value = None)
    <3>1. Reply(i, "ok")
      BY <1>7, <2>4 DEF Answer
    <3> QED
      BY <2>1, <2>2, <2>4, <3>1, ReplyShown
  <2> QED
    BY <2>3, <2>4
<1>8. CASE AnswerLost(i)
  BY <1>8, CallIs, ReplyShown DEF AnswerLost
<1> QED
  BY <1>1, <1>2, <1>3, <1>4, <1>5, <1>6, <1>7, <1>8 DEF Operate

-----------------------------------------------------------------------------
LEMMA InitStoreInv == Init => StoreInv /\ Store!Init
<1> SUFFICES ASSUME Init PROVE StoreInv /\ Store!Init
  OBVIOUS
<1>1. Items = {}
  BY DEF Init, Items
<1>2. TreeInv
  BY <1>1 DEF Init, TreeInv, FoldersUnique, Rooted, FilesUnique
<1>3. stored = [x \in Paths |-> <<>>]
  BY <1>1 DEF stored, Files
<1>4. \A i \in Calls : pc[i] = "idle" /\ calls[i] = Idle
  BY DEF Init
<1>5. StoreInv
  BY <1>2, <1>4 DEF StoreInv, Stands, Idle
<1>6. ASSUME NEW i \in Calls
      PROVE  requests[i] = Store!Idle
  <2> DEFINE u == RequestOf("idle", Idle, stored)
             e == Store!Idle
  <2>1. u = [n \in Fields |-> u[n]] /\ e = [n \in Fields |-> e[n]]
    BY DEF RequestOf, Store!Idle, Fields
  <2>2. u.op = e.op /\ u.path = e.path /\ u.res = e.res /\ u.value = e.value /\ u.seen = e.seen
    BY DEF RequestOf, Store!Idle, Idle
  <2>3. u.did = e.did
    BY DEF RequestOf, Store!Idle, Idle
  <2>4. u.alone = e.alone
    BY DEF RequestOf, Store!Idle
  <2>5. requests[i] = u
    BY <1>4, RequestsAre
  <2> HIDE DEF u, e
  <2>6. u = e
    BY <2>1, <2>2, <2>3, <2>4, FieldsEqual
  <2> QED
    BY <2>5, <2>6 DEF e
<1>7. requests = [i \in Calls |-> Store!Idle]
  BY <1>6, RequestsAre
<1> QED
  BY <1>3, <1>5, <1>7 DEF Store!Init

LEMMA NextShown == DriveInv /\ [Next]_vars => Shown
<1> SUFFICES ASSUME DriveInv, [Next]_vars PROVE Shown
  OBVIOUS
<1>1. CASE Next
  BY <1>1, StartShown, ResolveShown, OperateShown DEF Next, Step
<1>2. CASE UNCHANGED vars
  <2>1. stored' = stored /\ TreeInv'
    BY <1>2, DriveSame DEF vars, DriveInv, StoreInv
  <2>2. StoreInv'
    BY <1>2, <2>1 DEF vars, DriveInv, StoreInv
  <2>3. requests' = requests
    BY <1>2, <2>1, RequestsAre DEF vars
  <2> QED
    BY <2>1, <2>2, <2>3 DEF Shown, StoreVars
<1> QED
  BY <1>1, <1>2

(* While its calls overlap, fail, are tried again and make the folders they *)
(* share, the Drive plugin is the store that the commands take it for       *)
(* (DriveStore.ImplementsStore): an upload or a deletion that returns       *)
(* without an error took effect, in the file of its path only, and a        *)
(* download answers with what its path holds.                               *)
THEOREM StoreImplemented == Spec => ImplementsStore
<1>1. StoreInv /\ FolderInv /\ CacheInv /\ [Next]_vars => StoreInv' /\ [Store!Next]_<<stored, requests>>
  BY NextShown DEF Shown, StoreVars, DriveInv
<1> QED
  BY <1>1, InitStoreInv, InitFolderInv, NextFolderInv, InitCacheInv, NextCacheInv, PTL
     DEF Spec, ImplementsStore, Store!Spec

-----------------------------------------------------------------------------
(* A call reports success from its last place only.                         *)
LEMMA Answered ==
    ASSUME Shaped, NEW j \in Calls, Start(j) \/ Step(j), NEW i \in Calls,
           calls[i].res = "running", calls'[i].res = "ok"
    PROVE  pc[i] = "reply"
<1> SUFFICES ASSUME pc[i] # "reply" PROVE FALSE
  OBVIOUS
<1>1. DOMAIN calls = Calls /\ DOMAIN calls[j] = {"op", "path", "value", "did", "res"}
  BY DEF Shaped
<1>2. calls' # calls
  OBVIOUS
<1>3. ~Reply(j, "error")
  BY <1>1 DEF Reply, Idle
<1>4. ~Attempt(j)
  BY <1>2, <1>3 DEF Attempt, GiveUp
<1>5. ASSUME calls' = [calls EXCEPT ![j].did = TRUE] PROVE FALSE
  BY <1>1, <1>5
<1>6. ~Start(j)
  BY <1>1 DEF Start
<1>7. ~Resolve(j)
  BY <1>2, <1>4 DEF Resolve, Lookup, Lock, FindFolder, MakeFolder, FolderFails
<1>8. ~(Check(j) \/ RequestFails(j) \/ AnswerLost(j))
  BY <1>2, <1>3, <1>4 DEF Check, RequestFails, AnswerLost
<1>9. ~(Write(j) \/ WriteUnanswered(j) \/ Find(j) \/ Delete(j))
  BY <1>2, <1>5 DEF Write, WriteUnanswered, Find, Delete
<1>10. ~Get(j)
  BY <1>1 DEF Get
<1>11. ~Answer(j)
  BY <1>1 DEF Answer, Reply, Idle
<1> QED
  BY <1>6, <1>7, <1>8, <1>9, <1>10, <1>11 DEF Step, Operate

(***************************************************************************)
(* When an upload or a deletion reports success, its path holds what it    *)
(* wrote, or nothing (DriveStore.SuccessLasts), through all attempts and   *)
(* whatever the other handlers do to the folders on its way.               *)
(***************************************************************************)
THEOREM SuccessAlwaysLasts == Spec => SuccessLasts
<1>1. ASSUME DriveInv, [Next]_vars, NEW i \in Calls, requests[i].res = "running",
             requests'[i].res = "ok"
      PROVE  Store!InEffect(i)
  <2>1. calls[i].res = "running" /\ calls'[i].res = "ok" /\ Stands(pc[i], calls[i], stored)
    BY <1>1, RequestsAre, CallIs DEF RequestOf
  <2>2. pc[i] = "reply"
    BY <1>1, <2>1, Answered DEF Next, vars, DriveInv, FolderInv
  <2>3. /\ calls[i].op = "upload" => stored[calls[i].path] = <<calls[i].value>>
        /\ calls[i].op = "delete" => stored[calls[i].path] = <<>>
    BY <2>1, <2>2 DEF Stands
  <2>4. /\ requests[i].op = calls[i].op /\ requests[i].path = calls[i].path
        /\ calls[i].op = "upload" => requests[i].value = calls[i].value
    BY <1>1, RequestsAre DEF RequestOf
  <2>5. ASSUME NEW w PROVE Store!Last(<<w>>) = w /\ <<w>> # <<>>
    BY DEF Store!Last
  <2> QED
    BY <2>3, <2>4, <2>5 DEF Store!InEffect, Store!Current
<1>2. DriveInv /\ [Next]_vars =>
         [\A i \in Calls :
             requests[i].res = "running" /\ requests'[i].res = "ok" /\ requests[i].alone
             => Store!InEffect(i)]_<<stored, requests>>
  BY <1>1
<1> QED
  BY <1>2, NextShown, InitStoreInv, InitFolderInv, NextFolderInv, InitCacheInv, NextCacheInv, PTL
     DEF Spec, SuccessLasts, Store!SuccessLasts, DriveInv, Shown

===============================================================================
