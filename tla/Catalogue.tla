------------------------------ MODULE Catalogue ------------------------------
(***************************************************************************)
(* What the commands promise, without chunks, objects or steps: a backup   *)
(* store is a map from paths to the version last backed up.  A backup      *)
(* replaces what the map says of the paths below its arguments by what is  *)
(* on disk, in one step; a delete forgets the paths its arguments are      *)
(* prefixes of; delete --all forgets everything.  Commands that fail       *)
(* change nothing.                                                         *)
(***************************************************************************)
CONSTANTS
    Paths, Versions, Targets, Under, Prefixed, None,
    Skips  \* whether a backup may pass over a file it cannot read

VARIABLES disk, saved

Init ==
    /\ disk \in [Paths -> Versions \cup {None}]
    /\ saved = [x \in Paths |-> None]

Edit ==
    /\ \E x \in Paths, v \in Versions \cup {None} : disk' = [disk EXCEPT ![x] = v]
    /\ UNCHANGED saved

Below(args) == UNION {Under[t] : t \in args}

(* A file that is passed over keeps what an earlier backup saved of it. *)
Backup(args) ==
    /\ \E skipped \in SUBSET Paths :
          /\ Skips \/ skipped = {}
          /\ \A x \in skipped : disk[x] # None
          /\ saved' = [x \in Paths |->
                IF x \in Below(args) \ skipped THEN disk[x] ELSE saved[x]]
    /\ UNCHANGED disk

Delete(args) ==
    /\ saved' = [x \in Paths |->
          IF x \in UNION {Prefixed[t] : t \in args} THEN None ELSE saved[x]]
    /\ UNCHANGED disk

DeleteAll ==
    /\ saved' = [x \in Paths |-> None]
    /\ UNCHANGED disk

Next ==
    \/ Edit
    \/ \E args \in SUBSET Targets : Backup(args) \/ Delete(args)
    \/ DeleteAll

Spec == Init /\ [][Next]_<<disk, saved>>

=============================================================================
