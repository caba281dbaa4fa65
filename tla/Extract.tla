------------------------------- MODULE Extract -------------------------------
(***************************************************************************)
(* runRestore once it has the manifest, and archive.Extract, which unpacks *)
(* the wanted members of one chunk after the other.  SecureBackup takes a  *)
(* chunk for a step with three outcomes; here every member is a step, and  *)
(* the destination directory, its links and its subdirectories are         *)
(* modelled.                                                               *)
(*                                                                         *)
(* A name is a sequence of the separator "/" and of the words between; a   *)
(* component may consist of several words, so that one component can be a  *)
(* string prefix of another.  Names come from filepath.Walk: they are      *)
(* clean.                                                                  *)
(*                                                                         *)
(* A definition with an underscore in its name is a wrong version of the   *)
(* one before the underscore.                                              *)
(***************************************************************************)
EXTENDS Naturals, Sequences

Ext == INSTANCE SequencesExt

CONSTANTS
    Paths, Links, Special, Versions, ChunkIds, None, Torn, Other,
    Size, MTime,    \* all of these as in Archiver
    Restores,       \* the restores that may be asked for, see RoundTrip
    LinkTo,         \* [Versions -> names]: what a symbolic link says
    Places,         \* the names below the destination directory, and those
                    \* outside of it that a link there can lead to
    DiskFails       \* whether writing to the destination may fail

VARIABLES
    files,    \* m.Files
    tar,      \* the members of every chunk
    names,    \* the names of the paths
    strip,    \* --strip-prefix
    wanted,   \* chunksToDownload: the selected paths...
    queue,    \* ... and the chunks the loop has left
    before,   \* history: what the destination held before
    dest,     \* what it holds
    reading,  \* the chunk in Extract
    unread,   \* its members that tr.Next has not returned yet
    got,      \* history: the paths restored in full
    failed,   \* the chunks reported as failed
    at        \* idle, select, restoring or done

inputs == <<files, tar>>
command == <<names, strip, wanted, before>>
vars == <<files, tar, names, strip, wanted, queue, before, dest, reading,
          unread, got, failed, at>>

-----------------------------------------------------------------------------
(* Names *)

(* strings.TrimPrefix(name, "/") *)
Trimmed(n) == IF n # <<>> /\ n[1] = "/" THEN Tail(n) ELSE n

(* filepath.Clean, of a prefix that may end in a separator. *)
Cleaned(s) == IF Len(s) > 1 /\ Ext!Last(s) = "/" THEN Ext!Front(s) ELSE s

Stem(s) == Trimmed(Cleaned(s))

(* The name without the prefix; a prefix of part of a component counts. *)
Stripped(n, s) ==
    LET sn == Trimmed(n)
        ss == Stem(s) IN
    CASE s = <<>> -> n
      [] s # <<>> /\ Ext!IsPrefix(ss, sn) -> Trimmed(SubSeq(sn, Len(ss) + 1, Len(sn)))
      [] OTHER -> sn

(* cleanRelativeTarPath accepts the name. *)
Relative(n) ==
    /\ n # <<>>
    /\ n[1] # "/"
    /\ ~(n[1] = ".." /\ (Len(n) = 1 \/ n[2] = "/"))
    /\ n # <<".">>

Target(x) == Stripped(names[x], strip)

(* The directories above a name below the destination. *)
Parents(t) == {SubSeq(t, 1, i - 1) : i \in {j \in 2..Len(t) : t[j] = "/"}}

(* filepath.Dir, with the separator, and filepath.Base *)
Dirname(t) ==
    LET slashes == {i \in 1..Len(t) : t[i] = "/"} IN
    SubSeq(t, 1, IF slashes = {} THEN 0 ELSE CHOOSE i \in slashes : \A j \in slashes : j <= i)

Basename(t) == SubSeq(t, Len(Dirname(t)) + 1, Len(t))

-----------------------------------------------------------------------------
(* The destination *)

Nothing == [is |-> "none", holds |-> None]
Dir == [is |-> "dir", holds |-> None]
File(v) == [is |-> "file", holds |-> v]
Link(t) == [is |-> "link", holds |-> t]

(* os.MkdirAll of the directory of t *)
WithParents(d, t) ==
    [q \in Places |-> IF q \in Parents(t) /\ d[q] = Nothing THEN Dir ELSE d[q]]

(* Where the system call ends up that opens t: it follows links. *)
Followed(d, t) ==
    LET above == {q \in Parents(t) : d[q].is = "link"} IN
    IF above # {}
    THEN LET q == CHOOSE q \in above : TRUE IN
         d[q].holds \o SubSeq(t, Len(q) + 1, Len(t))
    ELSE IF d[t].is = "link" THEN d[t].holds ELSE t

(* ensureNoSymlinkParents *)
ThroughLink(d, t) == \E q \in Parents(t) : d[q].is = "link"

(* os.MkdirAll meets a file. *)
BelowFile(d, t) == \E q \in Parents(t) : d[q].is = "file"

(* A link is taken for the file it leads to. *)
FileBlocked_NotByLink(d, t) ==
    ThroughLink(d, t) \/ BelowFile(d, t) \/ d[t].is = "dir"

(* What makes Extract refuse to write a regular file at t. *)
FileBlocked(d, t) ==
    ThroughLink(d, t) \/ BelowFile(d, t) \/ d[t].is \in {"link", "dir"}

(* os.Remove removes whatever is at t, but no directory with entries. *)
LinkBlocked(d, t) ==
    \/ ThroughLink(d, t) \/ BelowFile(d, t)
    \/ d[t].is = "dir" /\ \E q \in Places : t \in Parents(q) /\ d[q] # Nothing

(* A link that could not be read was archived as a link to its own name. *)
LinkName(x, v) == IF v = Other THEN Basename(names[x]) ELSE LinkTo[v]

(* The regular file or the link that member v of path x becomes. *)
Restored(x, v) ==
    IF x \in Links THEN Link(Dirname(Target(x)) \o LinkName(x, v)) ELSE File(v)

(* A file is opened through links, a link is made where it is named. *)
Put(d, x, e) ==
    LET t == IF x \in Links THEN Target(x) ELSE Followed(d, Target(x)) IN
    [WithParents(d, t) EXCEPT ![t] = e]

-----------------------------------------------------------------------------
(* runRestore *)

Empty == [q \in Places |-> Nothing]

Init ==
    /\ names = [x \in Paths |-> <<>>]
    /\ strip = <<>>
    /\ wanted = {}
    /\ queue = {}
    /\ before = Empty
    /\ dest = Empty
    /\ reading = None
    /\ unread = {}
    /\ got = {}
    /\ failed = {}
    /\ at = "idle"

(* A backup says nothing of where it will be restored, nor do its names     *)
(* matter before: they are chosen here, with the command line.              *)
Start ==
    /\ at = "idle"
    /\ \E r \in Restores :
          /\ names' = r.names
          /\ strip' = r.strip
          /\ before' = r.before
          /\ wanted' = {x \in Paths : files[x] # None
                                     /\ \E arg \in r.args : Ext!IsPrefix(arg, r.names[x])}
    /\ dest' = before'
    /\ at' = "select"
    /\ UNCHANGED <<inputs, queue, reading, unread, got, failed>>

(* Some selected file has the prefix to be stripped. *)
PrefixFound == strip = <<>> \/ \E x \in wanted : Ext!IsPrefix(Stem(strip), Trimmed(names[x]))

Select ==
    /\ at = "select"
    /\ wanted # {}
    /\ PrefixFound
    /\ queue' = {files[x].chunk : x \in wanted}
    /\ at' = "restoring"
    /\ UNCHANGED <<inputs, command, dest, reading, unread, got, failed>>

(* Nothing matches, or nothing has the prefix to be stripped. *)
SelectNothing ==
    /\ at = "select"
    /\ wanted = {} \/ ~PrefixFound
    /\ wanted' = {}
    /\ at' = "done"
    /\ UNCHANGED <<inputs, names, strip, before, queue, dest, reading, unread, got, failed>>

Between == at = "restoring" /\ reading = None

Members(c) == {x \in Paths : tar[c][x] # None}

Open(c) ==
    /\ Between
    /\ c \in queue
    /\ queue' = queue \ {c}
    /\ reading' = c
    /\ unread' = Members(c)
    /\ UNCHANGED <<inputs, command, dest, got, failed, at>>

(* It cannot be downloaded or decrypted: reported, and passed over. *)
OpenFails(c) ==
    /\ Between
    /\ c \in queue
    /\ queue' = queue \ {c}
    /\ failed' = failed \cup {c}
    /\ UNCHANGED <<inputs, command, dest, reading, unread, got, at>>

Done ==
    /\ Between
    /\ queue = {}
    /\ at' = "done"
    /\ UNCHANGED <<inputs, command, queue, dest, reading, unread, got, failed>>

-----------------------------------------------------------------------------
(* Extract *)

(* Every member may come next, but one that is cut short comes last. *)
Reads(x) ==
    /\ x \in unread
    /\ tar[reading][x] = Torn => unread = {x}

(* filesToExtract[header.Name] *)
Asked(x) == x \in wanted /\ files[x].chunk = reading

(* The loop goes on with the next member... *)
Continue(x) ==
    /\ unread' = unread \ {x}
    /\ UNCHANGED <<inputs, command, queue, reading, failed, at>>

(* The error ends the whole restore. *)
Stop_Fatal ==
    /\ at' = "done"
    /\ reading' = None
    /\ unread' = {}
    /\ UNCHANGED <<inputs, command, queue, got, failed>>

(* ... or Extract returns an error, which runRestore reports. *)
Stop ==
    /\ failed' = failed \cup {reading}
    /\ reading' = None
    /\ unread' = {}
    /\ UNCHANGED <<inputs, command, queue, got, at>>

(* Not asked for, or no name is left of it. *)
PassedBy(x) == ~Asked(x) \/ Target(x) = <<>>

(* Extract ends where it should go on. *)
Pass_Ends(x) ==
    /\ Reads(x)
    /\ PassedBy(x)
    /\ tar[reading][x] # Torn
    /\ unread' = {}
    /\ UNCHANGED <<inputs, command, queue, reading, failed, at, dest, got>>

Pass(x) ==
    /\ Reads(x)
    /\ PassedBy(x)
    /\ tar[reading][x] # Torn
    /\ Continue(x)
    /\ UNCHANGED <<dest, got>>

(* The next call of tr.Next meets the end of what was cut short. *)
PassCut(x) ==
    /\ Reads(x)
    /\ PassedBy(x)
    /\ tar[reading][x] = Torn
    /\ Stop
    /\ UNCHANGED dest

Accepted(x) ==
    /\ Relative(Target(x))
    /\ IF x \in Links
       THEN Relative(LinkName(x, tar[reading][x])) /\ ~LinkBlocked(dest, Target(x))
       ELSE ~FileBlocked(dest, Target(x))

Refuse(x) ==
    /\ Reads(x)
    /\ ~PassedBy(x)
    /\ ~Accepted(x)
    /\ Stop
    /\ UNCHANGED dest

(* A chunk is read, and its members are written, in the order of the tar. *)
Write(x) ==
    /\ Reads(x)
    /\ ~PassedBy(x)
    /\ Accepted(x)
    /\ tar[reading][x] # Torn
    /\ dest' = Put(dest, x, Restored(x, tar[reading][x]))
    /\ got' = got \cup {x}
    /\ Continue(x)

(* The error of io.Copy is dropped. *)
WriteCut_Ignored(x) ==
    /\ Reads(x)
    /\ ~PassedBy(x)
    /\ Accepted(x)
    /\ tar[reading][x] = Torn
    /\ dest' = Put(dest, x, File(Torn))
    /\ Continue(x)
    /\ UNCHANGED got

(* io.Copy meets the end too early; what it has written stays. *)
WriteCut(x) ==
    /\ Reads(x)
    /\ ~PassedBy(x)
    /\ Accepted(x)
    /\ tar[reading][x] = Torn
    /\ dest' = Put(dest, x, File(Torn))
    /\ Stop

(* Making the directories, opening the file or writing it fails; a link is  *)
(* removed before the new one is made.                                      *)
WriteFails(x) ==
    /\ DiskFails
    /\ Reads(x)
    /\ ~PassedBy(x)
    /\ Accepted(x)
    /\ dest' \in {dest, WithParents(dest, Target(x)),
                  Put(dest, x, IF x \in Links THEN Nothing ELSE File(Torn))}
    /\ Stop

Close ==
    /\ reading # None
    /\ unread = {}
    /\ reading' = None
    /\ UNCHANGED <<inputs, command, queue, dest, unread, got, failed, at>>

Next ==
    \/ Start \/ Select \/ SelectNothing \/ Done \/ Close
    \/ \E c \in ChunkIds : Open(c) \/ OpenFails(c)
    \/ \E x \in Paths :
          Pass(x) \/ PassCut(x) \/ Refuse(x) \/ Write(x) \/ WriteCut(x) \/ WriteFails(x)

Spec == Init /\ [][Next]_vars

-----------------------------------------------------------------------------
Entry ==
    {Nothing, Dir} \cup [is : {"file"}, holds : Versions \cup {Torn, Other}]
        \cup [is : {"link"}, holds : Seq(STRING)]

TypeOK ==
    /\ names \in [Paths -> Seq(STRING)]
    /\ strip \in Seq(STRING)
    /\ wanted \subseteq Paths
    /\ queue \subseteq ChunkIds
    /\ before \in [Places -> Entry]
    /\ dest \in [Places -> Entry]
    /\ reading \in ChunkIds \cup {None}
    /\ unread \subseteq Paths
    /\ got \subseteq wanted
    /\ failed \subseteq ChunkIds
    /\ at \in {"idle", "select", "restoring", "done"}

(* The files that are restored to t. *)
For(t) == {x \in wanted : Target(x) = t}

(***************************************************************************)
(* A restore changes nothing but the places of the files it was asked for  *)
(* and the directories above them: not what a link in the destination      *)
(* leads to, inside or outside of it, and not the links themselves.        *)
(***************************************************************************)
OnlyWanted ==
    \A t \in Places : dest[t] # before[t] =>
        \/ For(t) # {}
        \/ before[t] = Nothing /\ dest[t] = Dir /\ \E x \in wanted : t \in Parents(Target(x))

(***************************************************************************)
(* What is written at a place is what the chunk of a file restored there   *)
(* holds of it; a file that is cut short, or a link that was only removed, *)
(* is in a chunk that was reported.                                        *)
(***************************************************************************)
DamageReported ==
    \A t \in Places : dest[t] # before[t] /\ For(t) # {} =>
        \/ \E x \in For(t) : LET v == tar[files[x].chunk][x] IN
               v # Torn /\ dest[t] = Restored(x, v)
        \/ dest[t] = Dir /\ \E x \in wanted : t \in Parents(Target(x))
        \/ dest[t] \in {File(Torn), Nothing} /\ \E x \in For(t) : files[x].chunk \in failed

-----------------------------------------------------------------------------
(* Refinement: what SecureBackup says of a restore *)

proc == "run"
prefix == "prefix"
NoFiles == [x \in Paths |-> None]
Whole == [c \in ChunkIds |->
    [x \in Paths |-> IF tar[c][x] \in Versions THEN tar[c][x] ELSE None]]
manifest == [files |-> files, chunks |-> ChunkIds]

(* A chunk counts when Extract has returned. *)
Finished == {x \in got : files[x].chunk # reading}

Command == INSTANCE SecureBackup WITH
    Procs <- {proc}, Targets <- Paths, Under <- [x \in Paths |-> {x}],
    Prefixed <- [x \in Paths |-> {x}], Prefixes <- {prefix}, NoPrefix <- prefix,
    Commands <- {"restore"}, Faults <- {"download", "extract"},
    MaxLate <- 0, IdempotentDelete <- TRUE, AtomicPut <- TRUE, Corrupt <- Other,
    disk <- NoFiles, objects <- {prefix} \X ChunkIds, content <- Whole,
    minted <- ChunkIds, purged <- {}, late <- {},
    pc <- [p \in {proc} |->
        CASE at = "select" -> "select" [] at = "restoring" -> "restore" [] OTHER -> "idle"],
    job <- [p \in {proc} |-> IF at = "done" THEN [cmd |-> None, args |-> {}, prefix |-> prefix]
                             ELSE [cmd |-> "restore", args |-> wanted, prefix |-> prefix]],
    man <- [p \in {proc} |-> IF at = "done" THEN [files |-> NoFiles, chunks |-> {}] ELSE manifest],
    seen <- [p \in {proc} |-> NoFiles],
    arc <- [p \in {proc} |-> [todo |-> {}, cur |-> None, chunks |-> {}, files |-> NoFiles,
                              stuck |-> FALSE]],
    queue <- [p \in {proc} |->
        IF at = "done" THEN {} ELSE queue \cup ({reading} \ {None})],
    out <- [p \in {proc} |->
        [x \in Paths |-> IF at # "done" /\ x \in Finished THEN Whole[files[x].chunk][x] ELSE None]]

(***************************************************************************)
(* Every step of a restore is a step of SecureBackup's, which therefore    *)
(* has all that Extract can do to a chunk: all of it is restored, or some  *)
(* of it, or nothing.                                                      *)
(***************************************************************************)
abstract == Command!vars
RestoreStep == at # "idle" => Command!Restore(proc)
ImplementsRestore == [][RestoreStep]_abstract

=============================================================================
