---------------------------- MODULE ObjectStore ----------------------------
(***************************************************************************)
(* What the commands take a storage plugin for, the contract of            *)
(* plugins.Provider: a map from remote paths to objects, and calls that    *)
(* overlap and fail.                                                       *)
(*   - A download that succeeds answers with what the path held at one     *)
(*     moment of the call; NotFound means that it held nothing then.       *)
(*   - An upload or a deletion that succeeds has taken effect during the   *)
(*     call.  One that fails may have, once or several times.              *)
(*   - Where objects are written in place (InPlace), an upload tears the   *)
(*     object before it is complete, and one that runs alone not again     *)
(*     when it has completed it.  A download that meets a torn object,     *)
(*     uploads and deletions that overlap on one path, and a download      *)
(*     beside such overlapping changes, promise nothing.                   *)
(*   - Where older versions are kept (Versioned), an upload adds one and   *)
(*     a deletion removes only one.                                        *)
(***************************************************************************)
EXTENDS Sequences, SequencesExt

CONSTANTS Calls, Paths, Values, InPlace, Versioned, None, Torn

VARIABLES
    store,  \* what every path holds: its versions, the newest last
    calls   \* the calls, see Idle

Idle == [op |-> "none", path |-> None, value |-> None, did |-> FALSE, alone |-> TRUE,
         seen |-> {}, res |-> "ok"]

Current(x) == IF store[x] = <<>> THEN None ELSE Last(store[x])

(* Calls are alone until changes of their path overlap. *)
Changing(i, x) ==
    calls[i].res = "running" /\ calls[i].op \in {"upload", "delete"} /\ calls[i].path = x

Init ==
    /\ store = [x \in Paths |-> <<>>]
    /\ calls = [i \in Calls |-> Idle]

(* Only an upload brings a value. *)
Start(i) ==
    /\ calls[i].res # "running"
    /\ \E op \in {"upload", "download", "delete"}, x \in Paths :
       \E v \in IF op = "upload" THEN Values ELSE {None} :
          calls' = [j \in Calls |->
             IF j = i
             THEN [op |-> op, path |-> x, value |-> v, did |-> FALSE,
                   alone |-> \A k \in Calls :
                       Changing(k, x) => op = "download" /\ calls[k].alone,
                   seen |-> IF op = "download" THEN {Current(x)} ELSE {},
                   res |-> "running"]
             ELSE IF /\ op # "download" /\ \E k \in Calls : Changing(k, x)
                     /\ calls[j].res = "running" /\ calls[j].path = x
             THEN [calls[j] EXCEPT !.alone = FALSE]
             ELSE calls[j]]
    /\ UNCHANGED store

(* The path holds these versions now; downloads in progress may see it. *)
Becomes(x, versions) == store' = [store EXCEPT ![x] = versions]

Noticed(x, done) ==
    calls' = [j \in Calls |->
        IF j \in done THEN [calls[j] EXCEPT !.did = TRUE]
        ELSE IF calls[j].res = "running" /\ calls[j].op = "download" /\ calls[j].path = x
        THEN [calls[j] EXCEPT !.seen = @ \cup {IF store'[x] = <<>> THEN None ELSE Last(store'[x])}]
        ELSE calls[j]]

Put(i) ==
    LET x == calls[i].path v == calls[i].value IN
    /\ Changing(i, x)
    /\ calls[i].op = "upload"
    /\ Becomes(x, IF x \in Versioned THEN Append(store[x], v) ELSE <<v>>)
    /\ Noticed(x, {i})

Tear(i) ==
    LET x == calls[i].path IN
    /\ Changing(i, x)
    /\ calls[i].op = "upload"
    /\ x \in InPlace
    /\ ~(calls[i].alone /\ calls[i].did)
    /\ Becomes(x, <<Torn>>)
    /\ Noticed(x, {})

Delete(i) ==
    LET x == calls[i].path IN
    /\ Changing(i, x)
    /\ calls[i].op = "delete"
    /\ \/ x \notin Versioned /\ Becomes(x, <<>>)
       \/ x \in Versioned /\ \E n \in DOMAIN store[x] : Becomes(x, RemoveAt(store[x], n))
    /\ Noticed(x, {i})

(* Nothing is promised of the call. *)
Disturbed(i) == calls[i].path \in InPlace /\ ~calls[i].alone

Return(i) ==
    /\ calls[i].res = "running"
    /\ \E res \in {"ok", "notfound", "error"}, v \in Values \cup {Torn, None} :
          /\ calls[i].op = "download" /\ res = "ok" =>
                v # None /\ (v \in calls[i].seen \/ Torn \in calls[i].seen \/ Disturbed(i))
          /\ v # None => calls[i].op = "download" /\ res = "ok"
          /\ calls[i].op # "download" /\ res = "ok" => calls[i].did \/ Disturbed(i)
          /\ res = "notfound" => calls[i].op = "download" /\ None \in calls[i].seen
          /\ calls' = [calls EXCEPT ![i] = [Idle EXCEPT !.res = res, !.value = v]]
    /\ UNCHANGED store

Next == \E i \in Calls : Start(i) \/ Put(i) \/ Tear(i) \/ Delete(i) \/ Return(i)

Spec == Init /\ [][Next]_<<store, calls>>

(* A call that changes its path has done so: the object is there, or gone.  *)
InEffect(i) ==
    LET x == calls[i].path IN
    /\ calls[i].op = "upload" => Current(x) = calls[i].value
    /\ calls[i].op = "delete" /\ x \notin Versioned => Current(x) = None

(***************************************************************************)
(* When an upload or a deletion reports success, and no other change of    *)
(* its path overlapped it, what it wrote is what a download would get, or  *)
(* nothing is there (unless older versions are).                           *)
(***************************************************************************)
SuccessLasts ==
    [][\A i \in Calls :
          calls[i].res = "running" /\ calls'[i].res = "ok" /\ calls[i].alone => InEffect(i)
      ]_<<store, calls>>

=============================================================================
