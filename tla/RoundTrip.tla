------------------------------ MODULE RoundTrip ------------------------------
(***************************************************************************)
(* A backup and a restore of what it archived: Archiver, and Extract on    *)
(* the chunks and the entries that the archiver leaves behind.             *)
(***************************************************************************)
EXTENDS Archiver, Sequences

CONSTANTS Restores, LinkTo, Places, DiskFails

ASSUME DiskAssumption == DiskFails \in BOOLEAN

VARIABLES names, strip, wanted, queue, before, dest, reading, unread, got, failed, at

restoring == <<names, strip, wanted, queue, before, dest, reading, unread, got, failed, at>>
allvars == <<vars, restoring>>

Restoring == INSTANCE Extract WITH files <- a.files

(***************************************************************************)
(* names: the names of the paths, which are different.   args: the         *)
(* arguments of restore; the empty name is a prefix of every other, as     *)
(* --all is.   strip: --strip-prefix, empty when it is not given.          *)
(* before: what the destination holds.  Every name that a file can be      *)
(* restored to is one of the places.                                       *)
(***************************************************************************)
Name == Seq(STRING)
Requests == [names : [Paths -> Name], args : SUBSET Name, strip : Name,
              before : [Places -> Restoring!Entry]]

ASSUME RestoresAssumption ==
    /\ Restores \subseteq Requests
    /\ \A r \in Restores :
          /\ \A x, y \in Paths : r.names[x] = r.names[y] => x = y
          /\ \A x \in Paths \ Special :
                LET t == Restoring!Stripped(r.names[x], r.strip) IN
                Restoring!Relative(t) => t \in Places
    /\ LinkTo \in [Versions -> Name]

RoundTripInit == Init /\ Restoring!Init

RoundTripNext ==
    \/ Next /\ UNCHANGED restoring
    \/ phase = "finalized" /\ UNCHANGED vars /\ Restoring!Next

RoundTripSpec == RoundTripInit /\ [][RoundTripNext]_allvars

-----------------------------------------------------------------------------
(* Type correctness of both parts. *)
Types == TypeOK /\ Restoring!TypeOK

(* A restore changes nothing but the places of the files it was asked for  *)
(* and the directories above them (Extract.OnlyWanted).                    *)
OnlyWanted == Restoring!OnlyWanted

(* What was not restored whole is in a chunk that was reported             *)
(* (Extract.DamageReported).                                               *)
DamageReported == Restoring!DamageReported

(***************************************************************************)
(* The restore is the one of SecureBackup, on what the archiver left.      *)
(***************************************************************************)
ImplementsRestore == [][Restoring!RestoreStep]_(Restoring!abstract)

(* What the file or link x was when the walk saw it. *)
Original(x) == Restoring!Restored(x, seen[x])

(***************************************************************************)
(* What was archived is what comes back: when a restore is over, every     *)
(* file it was asked for that did not change during the backup, whose      *)
(* chunk was not reported and whose name was not stripped to nothing or to *)
(* the name of another, is what it was when the backup began.              *)
(***************************************************************************)
ComesBack ==
    at = "done" => \A x \in wanted \ edited :
        LET t == Restoring!Target(x) IN
        \/ a.files[x].chunk \in failed
        \/ Restoring!For(t) # {x}
        \/ t = <<>>
        \/ dest[t] = Original(x)

=============================================================================
