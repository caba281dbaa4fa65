------------------------------ MODULE Archiver ------------------------------
(***************************************************************************)
(* pkg/archive.Archiver as runBackup uses it: AddFile for every changed    *)
(* path, in any order, then Finalize.  SecureBackup takes one call for a   *)
(* step with few outcomes; here the tar writer, the chunk file and the     *)
(* running size are modelled, and ImplementsArchive says that nothing else *)
(* can come of them.                                                       *)
(*                                                                         *)
(* The tar writer is archive/tar's: a member announces its size and must   *)
(* be written in full before the next header; Close reports a member that  *)
(* is not, once, and after that the writer only ever refuses.              *)
(*                                                                         *)
(* A definition with an underscore in its name is a wrong version of the   *)
(* one before the underscore.                                              *)
(***************************************************************************)
EXTENDS Naturals, FiniteSets, FiniteSetsExt

CONSTANTS
    Paths, Links,    \* slash paths, and those that are symbolic links
    Special,         \* the paths that are neither files nor links
    Versions,        \* what a file can hold
    Size, MTime,     \* [Versions -> Nat]
    ChunkIds,        \* the identifiers uuid.New can return
    ChunkLimit,      \* defaultChunkLimit
    MaxEdits,        \* bound on the files that change meanwhile
    None,            \* no file, no chunk
    Torn,            \* a member that is cut short
    Other            \* a complete member that holds no version of its file

ASSUME SortsAssumption ==
    /\ Links \subseteq Paths
    /\ Special \subseteq Paths \ Links
    /\ Size \in [Versions -> Nat]
    /\ MTime \in [Versions -> Nat]
ASSUME LimitAssumption == ChunkLimit \in Nat \ {0} /\ MaxEdits \in Nat
ASSUME EnoughIds == Cardinality(ChunkIds) >= Cardinality(Paths \ Special)
ASSUME MarkersAssumption ==
    /\ {None, Torn, Other} \cap (Versions \cup ChunkIds) = {}
    /\ None # Torn /\ None # Other /\ Torn # Other

VARIABLES
    disk,    \* the files on disk
    seen,    \* what the walk saw of them
    edited,  \* history: the paths that changed since the walk
    todo,    \* changedPaths, those left to add
    a,       \* the Archiver
    tar,     \* the members of every chunk file
    phase    \* of runBackup: adding, finalized, or failed

vars == <<disk, seen, edited, todo, a, tar, phase>>

FileMap == [Paths -> Versions \cup {None}]
Meta == [size : Nat, mtime : Nat, chunk : ChunkIds]
NoMembers == [x \in Paths |-> None]

(* No entry is told from an entry. *)
ASSUME MetaAssumption == None \notin Meta

(* tw: nil, open, or closed; file: whether a.f is open; pending: the member *)
(* last announced is not complete.                                          *)
TypeOK ==
    /\ disk \in FileMap
    /\ seen \in FileMap
    /\ edited \subseteq Paths
    /\ todo \subseteq Paths
    /\ a \in [tw : {"nil", "open", "closed"}, file : BOOLEAN, pending : BOOLEAN,
              currentUUID : ChunkIds \cup {None}, currentSize : Nat,
              chunks : SUBSET ChunkIds, files : [Paths -> Meta \cup {None}]]
    /\ tar \in [ChunkIds -> [Paths -> Versions \cup {None, Torn, Other}]]
    /\ phase \in {"adding", "finalized", "failed"}

(* The file map is left nil. *)
NewArchiver_Nil ==
    [tw |-> "nil", file |-> FALSE, pending |-> FALSE, currentUUID |-> None,
     currentSize |-> 0, chunks |-> {}, files |-> None]

NewArchiver ==
    [tw |-> "nil", file |-> FALSE, pending |-> FALSE, currentUUID |-> None,
     currentSize |-> 0, chunks |-> {}, files |-> NoMembers]

(* What is neither a file nor a link has no bytes: it is there or not. *)
Init ==
    /\ disk \in FileMap
    /\ \A x \in Special : disk[x] \in {None, CHOOSE v \in Versions : TRUE}
    /\ seen = disk
    /\ edited = {}
    /\ todo = {x \in Paths : disk[x] # None}
    /\ a = NewArchiver
    /\ tar = [c \in ChunkIds |-> NoMembers]
    /\ phase = "adding"

-----------------------------------------------------------------------------
(* rollChunk *)

Opened(b, c) ==
    [b EXCEPT !.tw = "open", !.file = TRUE, !.pending = FALSE,
              !.currentUUID = c, !.currentSize = 0, !.chunks = @ \cup {c}]

(* tw.Close reports a pending member and closes the writer all the same; a  *)
(* second call finds it closed and reports nothing.                         *)
CloseRefused(b) ==
    \/ b.tw = "open" /\ b.pending
    \/ b.tw = "closed" /\ ~b.file

Refused(b) == IF b.tw = "open" THEN [b EXCEPT !.tw = "closed"] ELSE b

(* The old chunk is closed, but the new one cannot be created. *)
NotCreated(b) ==
    IF b.tw = "nil" THEN b ELSE [b EXCEPT !.tw = "closed", !.file = FALSE]

RollOutcomes(b) ==
    IF CloseRefused(b) THEN {[ok |-> FALSE, b |-> Refused(b)]}
    ELSE {[ok |-> FALSE, b |-> NotCreated(b)]}
             \cup {[ok |-> TRUE, b |-> Opened(b, c)] : c \in ChunkIds \ b.chunks}

Full_Exceeded(b) == b.currentSize > ChunkLimit

Full(b) == b.currentSize >= ChunkLimit

(* A regular file starts a chunk when the current one is full, a symbolic   *)
(* link only when there is none.                                            *)
MustRoll(b, x) == b.tw = "nil" \/ (x \notin Links /\ Full(b))

Ready(x) ==
    IF MustRoll(a, x) THEN RollOutcomes(a) ELSE {[ok |-> TRUE, b |-> a]}

(* WriteHeader first completes the member before it. *)
HeaderAccepted(b) == b.tw = "open" /\ ~b.pending

-----------------------------------------------------------------------------
(* AddFile *)

MetaFor(x, c) ==
    [size |-> IF x \in Links THEN 0 ELSE Size[seen[x]], mtime |-> MTime[seen[x]], chunk |-> c]

(* The chunk id was read before rollChunk replaced it. *)
Tracked_BeforeRoll(b, x) ==
    [b EXCEPT !.files[x] =
        MetaFor(x, IF a.currentUUID = None THEN b.currentUUID ELSE a.currentUUID)]

Tracked(b, x) == [b EXCEPT !.files[x] = MetaFor(x, b.currentUUID)]

(* The call is over, whether it returned an error or not. *)
Returned(x, b, member) ==
    /\ a' = b
    /\ tar' = IF member = None THEN tar ELSE [tar EXCEPT ![b.currentUUID][x] = member]
    /\ todo' = todo \ {x}
    /\ UNCHANGED <<disk, seen, edited, phase>>

Adding(x) == phase = "adding" /\ x \in todo

(* Neither a regular file nor a symbolic link: nothing is written. *)
AddSpecial(x) ==
    /\ Adding(x)
    /\ x \in Special
    /\ Returned(x, a, None)

(* rollChunk fails, or the tar writer refuses the header. *)
AddRefused(x) ==
    /\ Adding(x)
    /\ x \notin Special
    /\ \E r \in Ready(x) :
          /\ ~(r.ok /\ HeaderAccepted(r.b))
          /\ Returned(x, r.b, None)

(* The running size counts what the header announces. *)
Announced_Counted(b, x) ==
    [b EXCEPT !.pending = Size[seen[x]] > 0, !.currentSize = @ + Size[seen[x]]]

(* The header of x is written, and none of its bytes. *)
Announced(b, x) == [b EXCEPT !.pending = Size[seen[x]] > 0]

(* The header is written, but the file cannot be opened or read. *)
AddUnreadable(x) ==
    /\ Adding(x)
    /\ x \notin Links \cup Special
    /\ \E r \in Ready(x) :
          /\ r.ok /\ HeaderAccepted(r.b)
          /\ Returned(x, Announced(r.b, x), IF Size[seen[x]] > 0 THEN Torn ELSE Other)

(* A file that outgrew its header is recorded like any other. *)
Copied_Longer(b, x, v) ==
    Tracked([b EXCEPT !.currentSize = @ + Size[v], !.pending = Size[v] < Size[seen[x]]], x)

(* What io.Copy leaves of a file with the bytes of version v: all of it;    *)
(* less than was announced, which is no error; or as much as was announced  *)
(* of a longer file, which is one, and is not counted.                      *)
Copied(b, x, v) ==
    CASE Size[v] = Size[seen[x]] ->
           Tracked([b EXCEPT !.currentSize = @ + Size[v]], x)
      [] Size[v] < Size[seen[x]] ->
           Tracked([b EXCEPT !.currentSize = @ + Size[v], !.pending = TRUE], x)
      [] OTHER -> b

MemberOf(x, v) ==
    CASE Size[v] = Size[seen[x]] -> v
      [] Size[v] < Size[seen[x]] -> Torn
      [] OTHER -> Other

AddRegular(x) ==
    /\ Adding(x)
    /\ x \notin Links \cup Special
    /\ disk[x] # None
    /\ \E r \in Ready(x) :
          /\ r.ok /\ HeaderAccepted(r.b)
          /\ Returned(x, Copied(r.b, x, disk[x]), MemberOf(x, disk[x]))

(* A link that cannot be read is stored as a link to its own name. *)
AddLink(x) ==
    /\ Adding(x)
    /\ x \in Links
    /\ \E r \in Ready(x) :
          /\ r.ok /\ HeaderAccepted(r.b)
          /\ Returned(x, Tracked(r.b, x), IF disk[x] = None THEN Other ELSE disk[x])

-----------------------------------------------------------------------------
Finalize ==
    /\ phase = "adding"
    /\ todo = {}
    /\ IF a.tw # "nil" /\ CloseRefused(a)
       THEN a' = Refused(a) /\ phase' = "failed"
       ELSE /\ a' = [a EXCEPT !.tw = "nil", !.file = FALSE]
            /\ phase' = "finalized"
    /\ UNCHANGED <<disk, seen, edited, todo, tar>>

(* A file changes before it is added; later changes do not concern the      *)
(* archiver.                                                                *)
Edit(x) ==
    /\ Adding(x)
    /\ x \notin Special
    /\ \E v \in (Versions \cup {None}) \ {disk[x]} : disk' = [disk EXCEPT ![x] = v]
    /\ edited' = edited \cup {x}
    /\ Cardinality(edited') <= MaxEdits
    /\ UNCHANGED <<seen, todo, a, tar, phase>>

AddFile(x) ==
    AddSpecial(x) \/ AddRefused(x) \/ AddUnreadable(x) \/ AddRegular(x) \/ AddLink(x)

Next == Finalize \/ \E x \in Paths : AddFile(x) \/ Edit(x)

Spec == Init /\ [][Next]_vars

-----------------------------------------------------------------------------
Recorded == {x \in Paths : a.files[x] # None}
Finalized == phase = "finalized"
Members(c) == {x \in Paths : tar[c][x] # None}

(***************************************************************************)
(* What runBackup uploads and lists can be restored: a recorded file that  *)
(* did not change since the walk is, in the chunk recorded for it, a       *)
(* complete member with the bytes the walk saw; and a cut member has       *)
(* nothing behind it, so that a reader meets it after every other.         *)
(***************************************************************************)
RecordedComplete ==
    Finalized => \A x \in Recorded \ edited : tar[a.files[x].chunk][x] = seen[x]

(***************************************************************************)
(* A chunk that is cut short is never accepted because a file could not be *)
(* read: rollChunk gives up once, but only on a chunk that is full, and an *)
(* unreadable file leaves a chunk that is not.  Only a file that shrank is *)
(* recorded in a chunk cut short.                                          *)
(***************************************************************************)
CutOnlyByShrinking ==
    Finalized => \A c \in ChunkIds, x \in Paths :
        tar[c][x] = Torn => x \in edited /\ x \in Recorded /\ a.files[x].chunk = c

(* The bytes of a chunk, without those of files that outgrew their header. *)
Weight(c) ==
    LET counted == {x \in Members(c) \ Links : tar[c][x] # Other} IN
    MapThenSumSet(LAMBDA x : Size[seen[x]], counted)

(***************************************************************************)
(* Chunks are neither smaller nor larger than the limit asks for: one is   *)
(* left only when its files reach the limit, and no file is added to one   *)
(* that reached it.                                                        *)
(***************************************************************************)
ChunksFilled ==
    /\ \A c \in a.chunks \ {a.currentUUID} : Weight(c) >= ChunkLimit
    /\ \A c \in a.chunks : Weight(c) >= ChunkLimit =>
           \E x \in Members(c) \ Links : Weight(c) - Size[seen[x]] < ChunkLimit

-----------------------------------------------------------------------------
(* Refinement: what SecureBackup says of the archiver *)

proc == "run"
content == [c \in ChunkIds |->
    [x \in Paths |-> IF tar[c][x] \in Versions THEN tar[c][x] ELSE None]]

(* A member is incomplete that was not recorded, or the file is closed: no  *)
(* call can succeed any more.                                               *)
stuck ==
    \/ a.tw = "closed" /\ ~a.file
    \/ a.pending /\ \A x \in Recorded : tar[a.currentUUID][x] # Torn

archiver ==
    IF phase = "failed"
    THEN [todo |-> {}, cur |-> None, chunks |-> {}, files |-> NoMembers, stuck |-> FALSE]
    ELSE [todo |-> todo, cur |-> a.currentUUID, chunks |-> a.chunks, files |-> a.files,
          stuck |-> stuck]

target == "target"
prefix == "prefix"
empty == [files |-> NoMembers, chunks |-> {}]
command ==
    IF phase = "failed" THEN [cmd |-> None, args |-> {}, prefix |-> prefix]
    ELSE [cmd |-> "backup", args |-> {target}, prefix |-> prefix]

Command == INSTANCE SecureBackup WITH
    Procs <- {proc}, Targets <- {target}, Under <- [t \in {target} |-> Paths],
    Prefixed <- [t \in {target} |-> Paths], Prefixes <- {prefix}, NoPrefix <- prefix,
    Commands <- {"backup"}, Faults <- {"addfile", "archive", "shrink", "edit"},
    MaxLate <- 0, IdempotentDelete <- TRUE, AtomicPut <- TRUE, Corrupt <- Other,
    manifest <- None, objects <- {}, minted <- a.chunks, purged <- {}, late <- {},
    pc <- [p \in {proc} |->
        CASE phase = "adding" -> "archive" [] phase = "finalized" -> "upload" [] OTHER -> "idle"],
    job <- [p \in {proc} |-> command],
    man <- [p \in {proc} |-> empty],
    seen <- [p \in {proc} |-> IF phase = "failed" THEN NoMembers ELSE seen],
    arc <- [p \in {proc} |-> archiver],
    queue <- [p \in {proc} |-> IF phase = "finalized" THEN a.chunks ELSE {}],
    out <- [p \in {proc} |-> NoMembers]

(***************************************************************************)
(* Every call of AddFile and Finalize has one of the outcomes that         *)
(* SecureBackup gives it: what is proved of the commands holds with the    *)
(* archiver as it is.                                                      *)
(***************************************************************************)
ImplementsArchive ==
    [][Command!Archive(proc) \/ \E x \in Paths : Command!Edit(x)]_vars

=============================================================================
