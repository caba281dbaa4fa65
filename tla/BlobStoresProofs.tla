-------------------------- MODULE BlobStoresProofs --------------------------
(***************************************************************************)
(* What the handlers of the local, aws-s3 and backblaze plugins make of    *)
(* their stores, for any number of handlers, paths, contents and blocks.   *)
(***************************************************************************)
EXTENDS BlobStores, SequenceTheorems, TLAPS

Marks == Values \cup {Torn}
Replies == {"running", "ok", "notfound", "error"}
Version == [id : Ids \cup {None}, value : Values]
CallStates ==
    [op : {"none", "upload", "download", "delete"}, path : Paths \cup {None},
     value : Values \cup {None, Torn}, did : BOOLEAN, alone : BOOLEAN,
     seen : SUBSET (Values \cup {None, Torn}), res : Replies]
Stages == {"idle", "open", "write", "read", "remove", "send", "find", "reply"}

TypeInv ==
    /\ disk \in [Local -> Ids \cup {None}]
    /\ data \in [Ids -> Seq(Marks)]
    /\ bucket \in [Remote -> Seq(Version)]
    /\ pc \in [Calls -> Stages]
    /\ calls \in [Calls -> CallStates]
    /\ tries \in [Calls -> 1 .. Retries]
    /\ handle \in [Calls -> Ids \cup {None}]
    /\ got \in [Calls -> Seq(Marks)]

Busy(i) == pc[i] # "idle"

(* A call is in progress while its handler runs; an upload carries a value. *)
Called ==
    \A i \in Calls :
        /\ Busy(i) <=> calls[i].res = "running"
        /\ Busy(i) => /\ calls[i].op \in {"upload", "download", "delete"}
                      /\ Path(i) \in Paths
                      /\ Value(i) \in IF calls[i].op = "upload" THEN Values ELSE {None}

(* Where a handler is, and what it has copied. *)
Staged ==
    \A i \in Calls :
        /\ pc[i] \notin {"write", "read", "reply"} => got[i] = <<>>
        /\ pc[i] = "write" =>
              /\ calls[i].op = "upload" /\ Path(i) \in Local /\ handle[i] \in Ids
              /\ Len(got[i]) < Blocks[Value(i)]
              /\ \A n \in 1 .. Len(got[i]) : got[i][n] = Value(i)
        /\ pc[i] = "read" =>
              calls[i].op = "download" /\ Path(i) \in Local /\ handle[i] \in Ids
        /\ pc[i] = "reply" =>
              calls[i].op # "download" /\ (calls[i].did \/ (Path(i) \in Local /\ ~calls[i].alone))

Opened == {i \in Calls : pc[i] \in {"write", "read"}}

(* A file is of one path. *)
Owned ==
    /\ \A x, y \in Local : disk[x] = disk[y] /\ disk[x] # None => x = y
    /\ \A i \in Opened, x \in Local : disk[x] = handle[i] => x = Path(i)
    /\ \A i, j \in Opened : handle[i] = handle[j] => Path(i) = Path(j)

(* An upload that is alone has its file to itself. *)
Alone ==
    \A i \in Calls : \A x \in Paths : Changing(i, x) /\ calls[i].alone =>
        /\ \A j \in Calls : Changing(j, x) => j = i
        /\ pc[i] = "write" => disk[x] = handle[i] /\ data[handle[i]] = got[i]

Undisturbed(i) == calls[i].alone /\ Torn \notin calls[i].seen

Downloading(i, x) == Busy(i) /\ calls[i].op = "download" /\ Path(i) = x

(* What a download can still answer: a file is only read while nothing      *)
(* writes it, or the download has met a torn object.                        *)
Seen ==
    \A i \in Calls : \A x \in Paths : Downloading(i, x) =>
        /\ Held(x) \in calls[i].seen
        /\ calls[i].alone => \A j \in Calls : Changing(j, x) => calls[j].alone
        /\ x \in Local /\ Undisturbed(i) => \A j \in Calls : Changing(j, x) => pc[j] # "write"
        /\ pc[i] = "read" /\ Undisturbed(i) =>
              /\ Contents(data[handle[i]]) \in calls[i].seen
              /\ Len(got[i]) <= Len(data[handle[i]])
              /\ \A n \in 1 .. Len(got[i]) : got[i][n] = data[handle[i]][n]

StoreInv == TypeInv /\ Called /\ Staged /\ Owned /\ Alone /\ Seen

(* An upload that is alone and still writes has not completed its object.   *)
Unfinished ==
    \A i \in Calls : pc[i] \in {"open", "write"} /\ calls[i].alone => ~calls[i].did

-----------------------------------------------------------------------------
(* What a sequence of blocks is. *)
LEMMA ContentsIs ==
    /\ \A blocks : Contents(blocks) \in Marks
    /\ Contents(<<>>) = Torn
    /\ \A v \in Values, s \in Seq(Marks) :
          /\ \A n \in 1 .. Len(s) : s[n] = v
          => Contents(s) = IF Len(s) = Blocks[v] THEN v ELSE Torn
    /\ \A v \in Values, s \in Seq(Marks), n \in Nat :
          n \in 1 .. Len(s) /\ s[n] = v => Contents(s) \in {v, Torn}
<1>1. \A v \in Values : Blocks[v] \in Nat /\ Blocks[v] >= 1
  BY BlocksAssumption
<1>2. ASSUME NEW blocks, NEW v \in Values, blocks = [n \in 1 .. Blocks[v] |-> v]
      PROVE  blocks[1] = v /\ Len(blocks) = Blocks[v] /\ \A n \in 1 .. Blocks[v] : blocks[n] = v
  BY <1>1, <1>2
<1>3. \A blocks : Contents(blocks) \in Marks
  BY <1>2 DEF Contents, Marks
<1>4. Contents(<<>>) = Torn
  <2>1. ASSUME NEW v \in Values PROVE <<>> # [n \in 1 .. Blocks[v] |-> v]
    <3>1. Len(<<>>) = 0
      OBVIOUS
    <3> QED
      BY <1>1, <1>2, <3>1
  <2> QED
    BY <2>1 DEF Contents
<1>5. ASSUME NEW v \in Values, NEW s \in Seq(Marks), NEW n \in 1 .. Len(s), s[n] = v
      PROVE  Contents(s) \in {v, Torn}
  <2>1. ASSUME NEW w \in Values, s = [k \in 1 .. Blocks[w] |-> w] PROVE s[1] = v
    BY <1>2, <1>5, <2>1
  <2> QED
    BY <2>1 DEF Contents
<1>6. ASSUME NEW v \in Values, NEW s \in Seq(Marks), \A n \in 1 .. Len(s) : s[n] = v
      PROVE  Contents(s) = IF Len(s) = Blocks[v] THEN v ELSE Torn
  <2>1. CASE Len(s) = Blocks[v]
    <3>1. s = [n \in 1 .. Blocks[v] |-> v]
      BY <1>6, <2>1
    <3> QED
      BY <1>2, <2>1, <3>1 DEF Contents
  <2>2. CASE Len(s) # Blocks[v]
    <3>1. ASSUME NEW w \in Values, s = [k \in 1 .. Blocks[w] |-> w] PROVE FALSE
      <4>1. s[1] = w /\ Len(s) = Blocks[w]
        BY <1>2, <3>1
      <4>2. 1 \in 1 .. Len(s)
        BY <1>1, <4>1
      <4> QED
        BY <1>6, <2>2, <4>1, <4>2
    <3> QED
      BY <2>2, <3>1 DEF Contents
  <2> QED
    BY <2>1, <2>2
<1> QED
  BY <1>3, <1>4, <1>5, <1>6

LEMMA Apart ==
    /\ Values \subseteq Marks /\ Torn \in Marks /\ None \notin Marks /\ Torn \notin Values
    /\ None \notin Ids
  BY DistinctAssumption DEF Marks

(* The objects of a sequence of versions. *)
Objects(s) == [n \in DOMAIN s |-> s[n].value]

LEMMA VersionSequences ==
    ASSUME NEW s \in Seq(Version)
    PROVE  /\ Objects(s) \in Seq(Values) /\ Len(Objects(s)) = Len(s)
           /\ Objects(s) = <<>> <=> s = <<>>
           /\ s # <<>> => /\ Last(s) \in Version /\ Last(s).value \in Values
                          /\ Last(Objects(s)) = Last(s).value
<1>1. Len(s) \in Nat /\ DOMAIN s = 1 .. Len(s) /\ \A n \in 1 .. Len(s) : s[n] \in Version
  OBVIOUS
<1>2. \A n \in 1 .. Len(s) : s[n].value \in Values
  BY <1>1 DEF Version
<1>3. Objects(s) \in Seq(Values) /\ Len(Objects(s)) = Len(s)
      /\ \A n \in 1 .. Len(s) : Objects(s)[n] = s[n].value
  BY <1>1, <1>2 DEF Objects
<1>4. s # <<>> => Len(s) \in 1 .. Len(s)
  BY <1>1
<1>5. Objects(s) = <<>> <=> s = <<>>
  BY <1>1, <1>3
<1> QED
  BY <1>1, <1>2, <1>3, <1>4, <1>5 DEF Last

LEMMA Removed ==
    ASSUME NEW S, NEW s \in Seq(S), NEW n \in DOMAIN s
    PROVE  /\ RemoveAt(s, n) \in Seq(S)
           /\ Len(RemoveAt(s, n)) = Len(s) - 1
           /\ \A k \in 1 .. Len(s) - 1 : RemoveAt(s, n)[k] = IF k < n THEN s[k] ELSE s[k + 1]
<1>1. PICK m \in Nat : m = Len(s)
  OBVIOUS
<1>2. n \in 1 .. m /\ \A k \in 1 .. m : s[k] \in S
  BY <1>1
<1>3. /\ SubSeq(s, 1, n - 1) \in Seq(S) /\ Len(SubSeq(s, 1, n - 1)) = n - 1
      /\ \A k \in 1 .. n - 1 : SubSeq(s, 1, n - 1)[k] = s[k]
  BY <1>2
<1>4. /\ SubSeq(s, n + 1, m) \in Seq(S) /\ Len(SubSeq(s, n + 1, m)) = m - n
      /\ \A k \in 1 .. m - n : SubSeq(s, n + 1, m)[k] = s[n + k]
  <2>1. n + 1 \in Int /\ m \in Int /\ \A k \in n + 1 .. m : s[k] \in S
    BY <1>2
  <2>2. /\ SubSeq(s, n + 1, m) \in Seq(S)
        /\ Len(SubSeq(s, n + 1, m)) = IF n + 1 <= m THEN m - (n + 1) + 1 ELSE 0
        /\ \A k \in 1 .. m - (n + 1) + 1 : SubSeq(s, n + 1, m)[k] = s[n + 1 + k - 1]
    BY <2>1, SubSeqProperties
  <2>3. m - (n + 1) + 1 = m - n /\ \A k \in 1 .. m - n : n + 1 + k - 1 = n + k
    BY <1>2
  <2>4. (IF n + 1 <= m THEN m - (n + 1) + 1 ELSE 0) = m - n
    BY <1>2
  <2> QED
    BY <2>2, <2>3, <2>4
<1>5. RemoveAt(s, n) = SubSeq(s, 1, n - 1) \o SubSeq(s, n + 1, m)
  BY <1>1 DEF RemoveAt
<1>6. /\ RemoveAt(s, n) \in Seq(S) /\ Len(RemoveAt(s, n)) = (n - 1) + (m - n)
      /\ \A k \in 1 .. (n - 1) + (m - n) :
            RemoveAt(s, n)[k] = IF k <= n - 1 THEN SubSeq(s, 1, n - 1)[k]
                                ELSE SubSeq(s, n + 1, m)[k - (n - 1)]
  <2> DEFINE a == SubSeq(s, 1, n - 1)
             b == SubSeq(s, n + 1, m)
  <2>1. a \in Seq(S) /\ b \in Seq(S) /\ Len(a) = n - 1 /\ Len(b) = m - n
    BY <1>3, <1>4
  <2>2. RemoveAt(s, n) = a \o b
    BY <1>5
  <2> HIDE DEF a, b
  <2>3. /\ a \o b \in Seq(S) /\ Len(a \o b) = Len(a) + Len(b)
        /\ \A k \in 1 .. Len(a) + Len(b) :
              (a \o b)[k] = IF k <= Len(a) THEN a[k] ELSE b[k - Len(a)]
    BY <2>1, ConcatProperties
  <2>4. /\ RemoveAt(s, n) \in Seq(S) /\ Len(RemoveAt(s, n)) = (n - 1) + (m - n)
        /\ \A k \in 1 .. (n - 1) + (m - n) :
              RemoveAt(s, n)[k] = IF k <= n - 1 THEN a[k] ELSE b[k - (n - 1)]
    BY <2>1, <2>2, <2>3
  <2> QED
    BY <2>4 DEF a, b
<1>7. ASSUME NEW k \in 1 .. m - 1 PROVE RemoveAt(s, n)[k] = IF k < n THEN s[k] ELSE s[k + 1]
  <2>1. CASE k < n
    BY <1>2, <1>3, <1>6, <2>1
  <2>2. CASE ~(k < n)
    <3>1. k - (n - 1) \in 1 .. m - n /\ n + (k - (n - 1)) = k + 1
      BY <1>2, <2>2
    <3>2. k \in 1 .. (n - 1) + (m - n) /\ ~(k <= n - 1)
      BY <1>2, <2>2
    <3>3. RemoveAt(s, n)[k] = SubSeq(s, n + 1, m)[k - (n - 1)]
      BY <1>6, <3>2
    <3>4. SubSeq(s, n + 1, m)[k - (n - 1)] = s[n + (k - (n - 1))]
      BY <1>4, <3>1
    <3> QED
      BY <2>2, <3>1, <3>3, <3>4
  <2> QED
    BY <2>1, <2>2
<1> QED
  BY <1>1, <1>2, <1>6, <1>7

(* Removing a version removes its object. *)
LEMMA ObjectsRemoved ==
    ASSUME NEW s \in Seq(Version), NEW n \in DOMAIN s
    PROVE  Objects(RemoveAt(s, n)) = RemoveAt(Objects(s), n)
<1>1. PICK m \in Nat \ {0} : m = Len(s)
  OBVIOUS
<1>2. DOMAIN s = 1 .. m /\ n \in 1 .. m /\ DOMAIN Objects(s) = 1 .. m
      /\ Objects(s) \in Seq(Values) /\ Len(Objects(s)) = m
      /\ \A k \in 1 .. m : Objects(s)[k] = s[k].value
  BY <1>1, VersionSequences DEF Objects
<1>3. /\ RemoveAt(s, n) \in Seq(Version) /\ Len(RemoveAt(s, n)) = m - 1
      /\ \A k \in 1 .. m - 1 : RemoveAt(s, n)[k] = IF k < n THEN s[k] ELSE s[k + 1]
  BY <1>1, Removed
<1>4. /\ RemoveAt(Objects(s), n) \in Seq(Values) /\ Len(RemoveAt(Objects(s), n)) = m - 1
      /\ \A k \in 1 .. m - 1 :
            RemoveAt(Objects(s), n)[k] = IF k < n THEN Objects(s)[k] ELSE Objects(s)[k + 1]
  BY <1>2, Removed
<1>5. /\ Objects(RemoveAt(s, n)) \in Seq(Values) /\ Len(Objects(RemoveAt(s, n))) = m - 1
      /\ \A k \in 1 .. m - 1 : Objects(RemoveAt(s, n))[k] = RemoveAt(s, n)[k].value
  <2>1. DOMAIN RemoveAt(s, n) = 1 .. m - 1
    BY <1>3
  <2> QED
    BY <1>3, <2>1, VersionSequences DEF Objects
<1>6. ASSUME NEW k \in 1 .. m - 1
      PROVE  Objects(RemoveAt(s, n))[k] = RemoveAt(Objects(s), n)[k]
  <2>1. k \in 1 .. m /\ k + 1 \in 1 .. m
    BY <1>1
  <2> QED
    BY <1>2, <1>3, <1>4, <1>5, <2>1
<1> QED
  BY <1>1, <1>4, <1>5, <1>6, SeqEqual

-----------------------------------------------------------------------------
(* What a path holds. *)
LEMMA HeldIs ==
    ASSUME TypeInv, NEW x \in Paths
    PROVE  /\ Held(x) \in Marks \cup {None}
           /\ x \in Local => (Held(x) = None <=> disk[x] = None)
           /\ x \in Remote => stored[x] = Objects(bucket[x])
           /\ stored[x] = <<>> <=> Held(x) = None
           /\ stored[x] # <<>> => Last(stored[x]) = Held(x)
<1>1. CASE x \in Local
  <2>1. x \notin Remote /\ stored[x] = IF disk[x] = None THEN <<>> ELSE <<Held(x)>>
    BY <1>1 DEF stored, Remote
  <2>2. Held(x) = IF disk[x] = None THEN None ELSE Contents(data[disk[x]])
    BY <1>1 DEF Held
  <2>3. disk[x] # None => Held(x) \in Marks
    BY <2>2, ContentsIs
  <2>4. <<Held(x)>> # <<>> /\ Last(<<Held(x)>>) = Held(x)
    BY DEF Last
  <2> QED
    BY <2>1, <2>2, <2>3, <2>4, Apart
<1>2. CASE x \notin Local
  <2>1. x \in Remote /\ stored[x] = Objects(bucket[x])
    BY <1>2 DEF stored, Remote, Objects
  <2>2. bucket[x] \in Seq(Version)
    BY <2>1 DEF TypeInv
  <2>3. Held(x) = IF bucket[x] = <<>> THEN None ELSE Last(bucket[x]).value
    BY <1>2 DEF Held
  <2> QED
    BY <1>2, <2>1, <2>2, <2>3, VersionSequences, Apart
<1> QED
  BY <1>1, <1>2

LEMMA SameHeld ==
    ASSUME TypeInv, NEW x \in Paths,
           x \in Local =>
               disk'[x] = disk[x] /\ (disk[x] # None => data'[disk[x]] = data[disk[x]]),
           x \in Remote => bucket'[x] = bucket[x]
    PROVE  Held(x)' = Held(x) /\ stored'[x] = stored[x]
<1>1. CASE x \in Local
  BY <1>1 DEF Held, stored, Contents
<1>2. CASE x \notin Local
  BY <1>2 DEF Held, stored, Remote
<1> QED
  BY <1>1, <1>2

(* The files in use are as they were. *)
Kept ==
    /\ data' \in [Ids -> Seq(Marks)]
    /\ \A f \in Ids : f \in Range(disk') \cup Range(handle') => data'[f] = data[f]

LEMMA ClosedKeeps ==
    ASSUME TypeInv, Closed
    PROVE  Kept
<1>1. \A f : f \in Range(disk') \cup Range(handle') => f \in InUse'
  BY DEF InUse
<1>2. <<>> \in Seq(Marks) /\ \A f \in Ids : data[f] \in Seq(Marks)
  BY DEF TypeInv
<1> QED
  BY <1>1, <1>2 DEF Closed, Kept

LEMMA KeptFiles ==
    ASSUME Kept, disk' \in [Local -> Ids \cup {None}], handle' \in [Calls -> Ids \cup {None}]
    PROVE  /\ \A x \in Local : disk'[x] # None => data'[disk'[x]] = data[disk'[x]]
           /\ \A i \in Calls : handle'[i] \in Ids => data'[handle'[i]] = data[handle'[i]]
  BY DEF Kept, Range

(***************************************************************************)
(* A handler returns.                                                      *)
(***************************************************************************)
LEMMA Replied ==
    ASSUME TypeInv, NEW i \in Calls, NEW res \in {"ok", "notfound", "error"},
           NEW v \in Marks \cup {None}, Reply(i, res, v)
    PROVE  /\ pc' \in [Calls -> Stages] /\ calls' \in [Calls -> CallStates]
           /\ tries' \in [Calls -> 1 .. Retries] /\ handle' \in [Calls -> Ids \cup {None}]
           /\ got' \in [Calls -> Seq(Marks)]
           /\ pc'[i] = "idle" /\ calls'[i].res = res /\ got'[i] = <<>>
           /\ \A j \in Calls : j # i =>
                 pc'[j] = pc[j] /\ calls'[j] = calls[j] /\ handle'[j] = handle[j] /\ got'[j] = got[j]
<1>1. [Idle EXCEPT !.res = res, !.value = v] \in CallStates
      /\ [Idle EXCEPT !.res = res, !.value = v].res = res
  BY DEF Idle, CallStates, Replies, Marks
<1>2. calls' \in [Calls -> CallStates] /\ calls'[i].res = res
      /\ \A j \in Calls : j # i => calls'[j] = calls[j]
  BY <1>1 DEF TypeInv, Reply
<1>3. tries' \in [Calls -> 1 .. Retries]
  BY RetriesAssumption DEF TypeInv, Reply
<1>4. <<>> \in Seq(Marks)
  OBVIOUS
<1>5. /\ pc' \in [Calls -> Stages] /\ handle' \in [Calls -> Ids \cup {None}]
      /\ got' \in [Calls -> Seq(Marks)] /\ pc'[i] = "idle" /\ got'[i] = <<>>
      /\ \A j \in Calls : j # i =>
            pc'[j] = pc[j] /\ handle'[j] = handle[j] /\ got'[j] = got[j]
  BY <1>4 DEF TypeInv, Reply, Goto, Stages
<1> QED
  BY <1>2, <1>3, <1>5

LEMMA ReplyStep ==
    ASSUME StoreInv, NEW i \in Calls, NEW res \in {"ok", "notfound", "error"},
           NEW v \in Marks \cup {None}, Reply(i, res, v), UNCHANGED <<disk, bucket>>, Kept
    PROVE  StoreInv'
<1>0. TypeInv /\ Called /\ Staged /\ Owned /\ Alone /\ Seen
  BY DEF StoreInv
<1>1. /\ pc'[i] = "idle" /\ calls'[i].res = res /\ got'[i] = <<>>
      /\ \A j \in Calls : j # i =>
            pc'[j] = pc[j] /\ calls'[j] = calls[j] /\ handle'[j] = handle[j] /\ got'[j] = got[j]
  BY <1>0, Replied
<1>2. TypeInv'
  BY <1>0, Replied DEF TypeInv, Kept
<1>3. /\ \A x \in Local : disk'[x] # None => data'[disk'[x]] = data[disk'[x]]
      /\ \A j \in Calls : handle'[j] \in Ids => data'[handle'[j]] = data[handle'[j]]
  BY <1>2, KeptFiles DEF TypeInv
<1>4. \A x \in Paths : Held(x)' = Held(x)
  BY <1>0, <1>3, SameHeld
<1>5. \A j \in Calls, x \in Paths : Changing(j, x)' => j # i /\ Changing(j, x)
  BY <1>1 DEF Changing, Path
<1>6. \A j \in Calls, x \in Paths : Downloading(j, x)' => j # i /\ Downloading(j, x)
  BY <1>1 DEF Downloading, Busy, Path
<1>7. Called'
  BY <1>0, <1>1 DEF Called, Busy, Path, Value
<1>8. Staged'
  BY <1>0, <1>1 DEF Staged, Path, Value
<1>9. Owned'
  <2>1. Opened' \subseteq Opened \ {i}
    BY <1>1 DEF Opened
  <2>2. \A j \in Opened' : j \in Calls /\ handle'[j] = handle[j] /\ Path(j)' = Path(j)
    BY <1>1, <2>1 DEF Opened, Path
  <2> QED
    BY <1>0, <2>1, <2>2 DEF Owned
<1>10. Alone'
  <2> SUFFICES ASSUME NEW j \in Calls, NEW x \in Paths, Changing(j, x)', calls'[j].alone
               PROVE  /\ \A k \in Calls : Changing(k, x)' => k = j
                      /\ pc'[j] = "write" => disk'[x] = handle'[j] /\ data'[handle'[j]] = got'[j]
    BY DEF Alone
  <2>1. j # i /\ Changing(j, x) /\ calls[j].alone
    BY <1>1, <1>5
  <2>2. \A k \in Calls : Changing(k, x)' => k = j
    BY <1>0, <1>5, <2>1 DEF Alone
  <2>3. ASSUME pc'[j] = "write" PROVE disk'[x] = handle'[j] /\ data'[handle'[j]] = got'[j]
    BY <1>0, <1>1, <1>3, <2>1, <2>3 DEF Alone, Staged
  <2> QED
    BY <2>2, <2>3
<1>11. Seen'
  <2> SUFFICES ASSUME NEW j \in Calls, NEW x \in Paths, Downloading(j, x)'
               PROVE
        /\ Held(x)' \in calls'[j].seen
        /\ calls'[j].alone => \A k \in Calls : Changing(k, x)' => calls'[k].alone
        /\ x \in Local /\ Undisturbed(j)' => \A k \in Calls : Changing(k, x)' => pc'[k] # "write"
        /\ pc'[j] = "read" /\ Undisturbed(j)' =>
              /\ Contents(data[handle[j]])' \in calls'[j].seen
              /\ Len(got'[j]) <= Len(data'[handle'[j]])
              /\ \A n \in 1 .. Len(got'[j]) : got'[j][n] = data'[handle'[j]][n]
    BY DEF Seen
  <2>1. j # i /\ Downloading(j, x) /\ calls'[j] = calls[j] /\ pc'[j] = pc[j]
        /\ handle'[j] = handle[j] /\ got'[j] = got[j] /\ (Undisturbed(j)' <=> Undisturbed(j))
    BY <1>1, <1>6 DEF Undisturbed
  <2>2. Held(x)' \in calls'[j].seen
    BY <1>0, <1>4, <2>1 DEF Seen
  <2>3. calls'[j].alone => \A k \in Calls : Changing(k, x)' => calls'[k].alone
    BY <1>0, <1>1, <1>5, <2>1 DEF Seen
  <2>4. x \in Local /\ Undisturbed(j)' => \A k \in Calls : Changing(k, x)' => pc'[k] # "write"
    BY <1>0, <1>1, <1>5, <2>1 DEF Seen
  <2>5. ASSUME pc'[j] = "read", Undisturbed(j)'
        PROVE  /\ Contents(data[handle[j]])' \in calls'[j].seen
               /\ Len(got'[j]) <= Len(data'[handle'[j]])
               /\ \A n \in 1 .. Len(got'[j]) : got'[j][n] = data'[handle'[j]][n]
    <3>1. data'[handle'[j]] = data[handle[j]]
      BY <1>0, <1>3, <2>1, <2>5 DEF Staged
    <3>2. Contents(data[handle[j]])' = Contents(data[handle[j]])
      BY <3>1 DEF Contents
    <3>3. /\ Contents(data[handle[j]]) \in calls[j].seen
          /\ Len(got[j]) <= Len(data[handle[j]])
          /\ \A n \in 1 .. Len(got[j]) : got[j][n] = data[handle[j]][n]
      BY <1>0, <2>1, <2>5 DEF Seen
    <3> QED
      BY <2>1, <3>1, <3>2, <3>3
  <2> QED
    BY <2>2, <2>3, <2>4, <2>5
<1> QED
  BY <1>2, <1>7, <1>8, <1>9, <1>10, <1>11 DEF StoreInv

(***************************************************************************)
(* A handler opens, reads or looks for something, or tries again.          *)
(***************************************************************************)
LEMMA QuietStep ==
    ASSUME StoreInv, TypeInv', NEW i \in Calls, Kept, UNCHANGED <<disk, bucket, calls>>,
           \A j \in Calls : j # i =>
               pc'[j] = pc[j] /\ handle'[j] = handle[j] /\ got'[j] = got[j],
           pc[i] \notin {"idle", "write"}, pc'[i] \notin {"idle", "write", "reply"},
           pc'[i] # "read" => got'[i] = <<>>,
           pc'[i] = "read" =>
               /\ calls[i].op = "download" /\ Path(i) \in Local /\ handle'[i] \in Ids
               /\ \/ handle'[i] = disk[Path(i)]
                  \/ i \in Opened /\ handle'[i] = handle[i]
               /\ Undisturbed(i) =>
                     /\ Contents(data[handle'[i]]) \in calls[i].seen
                     /\ Len(got'[i]) <= Len(data[handle'[i]])
                     /\ \A n \in 1 .. Len(got'[i]) : got'[i][n] = data[handle'[i]][n]
    PROVE  StoreInv'
<1>0. TypeInv /\ Called /\ Staged /\ Owned /\ Alone /\ Seen
  BY DEF StoreInv
<1>1. /\ \A x \in Local : disk'[x] # None => data'[disk'[x]] = data[disk'[x]]
      /\ \A j \in Calls : handle'[j] \in Ids => data'[handle'[j]] = data[handle'[j]]
  BY KeptFiles DEF TypeInv
<1>2. \A x \in Paths : Held(x)' = Held(x)
  BY <1>0, <1>1, SameHeld
<1>3. \A j \in Calls : Busy(j)' <=> Busy(j)
  BY DEF Busy
<1>4. \A j \in Calls : pc'[j] = "write" => j # i /\ pc[j] = "write"
  OBVIOUS
<1>5. \A j \in Calls, x \in Paths : Changing(j, x)' <=> Changing(j, x)
  BY <1>3 DEF Changing, Path, Busy
<1>6. \A j \in Calls, x \in Paths : Downloading(j, x)' <=> Downloading(j, x)
  BY <1>3 DEF Downloading, Path
<1>7. Called'
  BY <1>0, <1>3 DEF Called, Path, Value
<1>8. Staged'
  BY <1>0 DEF Staged, Path, Value
<1>9. Owned'
  <2>1. \A j \in Opened' : /\ j \in Calls /\ Path(j)' = Path(j)
                           /\ \/ j # i /\ j \in Opened /\ handle'[j] = handle[j]
                              \/ /\ j = i /\ Path(i) \in Local /\ handle'[i] \in Ids
                                 /\ \/ handle'[i] = disk[Path(i)]
                                    \/ i \in Opened /\ handle'[i] = handle[i]
    BY DEF Opened, Path
  <2>2. None \notin Ids /\ \A j \in Opened : j \in Calls
    BY Apart DEF Opened
  <2>3. \A j \in Opened', x \in Local : disk'[x] = handle'[j] => x = Path(j)'
    BY <1>0, <2>1, <2>2 DEF Owned
  <2>4. \A j, k \in Opened' : handle'[j] = handle'[k] => Path(j)' = Path(k)'
    <3> SUFFICES ASSUME NEW j \in Opened', NEW k \in Opened', handle'[j] = handle'[k]
                 PROVE  Path(j)' = Path(k)'
      OBVIOUS
    <3>1. CASE handle'[j] = disk[Path(j)] /\ Path(j) \in Local
      BY <2>1, <2>3, <3>1
    <3>2. CASE handle'[k] = disk[Path(k)] /\ Path(k) \in Local
      BY <2>1, <2>3, <3>2
    <3>3. CASE j \in Opened /\ handle'[j] = handle[j] /\ k \in Opened /\ handle'[k] = handle[k]
      BY <1>0, <2>1, <3>3 DEF Owned
    <3> QED
      BY <2>1, <3>1, <3>2, <3>3
  <2> QED
    BY <1>0, <2>3, <2>4 DEF Owned
<1>10. Alone'
  <2> SUFFICES ASSUME NEW j \in Calls, NEW x \in Paths, Changing(j, x)', calls'[j].alone
               PROVE  /\ \A k \in Calls : Changing(k, x)' => k = j
                      /\ pc'[j] = "write" => disk'[x] = handle'[j] /\ data'[handle'[j]] = got'[j]
    BY DEF Alone
  <2>1. \A k \in Calls : Changing(k, x)' => k = j
    BY <1>0, <1>5 DEF Alone
  <2>2. ASSUME pc'[j] = "write" PROVE disk'[x] = handle'[j] /\ data'[handle'[j]] = got'[j]
    BY <1>0, <1>1, <1>4, <1>5, <2>2 DEF Alone, Staged
  <2> QED
    BY <2>1, <2>2
<1>11. Seen'
  <2> SUFFICES ASSUME NEW j \in Calls, NEW x \in Paths, Downloading(j, x)'
               PROVE
        /\ Held(x)' \in calls'[j].seen
        /\ calls'[j].alone => \A k \in Calls : Changing(k, x)' => calls'[k].alone
        /\ x \in Local /\ Undisturbed(j)' => \A k \in Calls : Changing(k, x)' => pc'[k] # "write"
        /\ pc'[j] = "read" /\ Undisturbed(j)' =>
              /\ Contents(data[handle[j]])' \in calls'[j].seen
              /\ Len(got'[j]) <= Len(data'[handle'[j]])
              /\ \A n \in 1 .. Len(got'[j]) : got'[j][n] = data'[handle'[j]][n]
    BY DEF Seen
  <2>1. Downloading(j, x) /\ (Undisturbed(j)' <=> Undisturbed(j))
    BY <1>6 DEF Undisturbed
  <2>2. Held(x)' \in calls'[j].seen
    BY <1>0, <1>2, <2>1 DEF Seen
  <2>3. calls'[j].alone => \A k \in Calls : Changing(k, x)' => calls'[k].alone
    BY <1>0, <1>5, <2>1 DEF Seen
  <2>4. x \in Local /\ Undisturbed(j)' => \A k \in Calls : Changing(k, x)' => pc'[k] # "write"
    BY <1>0, <1>4, <1>5, <2>1 DEF Seen
  <2>5. ASSUME pc'[j] = "read", Undisturbed(j)'
        PROVE  /\ Contents(data[handle[j]])' \in calls'[j].seen
               /\ Len(got'[j]) <= Len(data'[handle'[j]])
               /\ \A n \in 1 .. Len(got'[j]) : got'[j][n] = data'[handle'[j]][n]
    <3>1. /\ handle'[j] \in Ids
          /\ Contents(data[handle'[j]]) \in calls[j].seen
          /\ Len(got'[j]) <= Len(data[handle'[j]])
          /\ \A n \in 1 .. Len(got'[j]) : got'[j][n] = data[handle'[j]][n]
      <4>1. CASE j = i
        BY <2>1, <2>5, <4>1
      <4>2. CASE j # i
        <5>1. pc[j] = "read" /\ handle'[j] = handle[j] /\ got'[j] = got[j]
          BY <2>5, <4>2
        <5>2. handle[j] \in Ids
          BY <1>0, <5>1 DEF Staged
        <5>3. /\ Contents(data[handle[j]]) \in calls[j].seen
              /\ Len(got[j]) <= Len(data[handle[j]])
              /\ \A n \in 1 .. Len(got[j]) : got[j][n] = data[handle[j]][n]
          BY <1>0, <2>1, <2>5, <5>1 DEF Seen
        <5> QED
          BY <5>1, <5>2, <5>3
      <4> QED
        BY <4>1, <4>2
    <3>2. data'[handle'[j]] = data[handle'[j]]
      BY <1>1, <3>1
    <3>3. Contents(data[handle[j]])' = Contents(data[handle'[j]])
      BY <3>2 DEF Contents
    <3> QED
      BY <3>1, <3>2, <3>3
  <2> QED
    BY <2>2, <2>3, <2>4, <2>5
<1> QED
  BY <1>7, <1>8, <1>9, <1>10, <1>11 DEF StoreInv

(***************************************************************************)
(* A handler changes what its path holds.                                  *)
(***************************************************************************)
LEMMA ChangedFields ==
    ASSUME TypeInv, NEW i \in Calls, NEW v \in Marks \cup {None}, Changed(i, v)
    PROVE  /\ calls' \in [Calls -> CallStates]
           /\ v # Torn => calls'[i].did
           /\ v = Torn => calls'[i] = calls[i]
           /\ calls'[i].op = calls[i].op /\ calls'[i].path = calls[i].path
           /\ calls'[i].value = calls[i].value /\ calls'[i].alone = calls[i].alone
           /\ calls'[i].res = calls[i].res
           /\ \A j \in Calls : j # i =>
                 IF Downloading(j, Path(i))
                 THEN calls'[j] = [calls[j] EXCEPT !.seen = @ \cup {v}]
                 ELSE calls'[j] = calls[j]
<1>1. \A j \in Calls : calls[j] \in CallStates
  BY DEF TypeInv
<1>2. PICK b \in BOOLEAN : b = (calls[i].did \/ v # Torn)
  OBVIOUS
<1>3. calls'[i] = [calls[i] EXCEPT !.did = b]
  BY <1>2 DEF Changed
<1>4. calls[i].did \in BOOLEAN
  BY <1>1 DEF CallStates
<1>5. v # Torn => b = TRUE
  BY <1>2, Zenon
<1>6. v = Torn => b = calls[i].did
  BY <1>2, <1>4
<1>7. calls'[i] \in CallStates /\ calls'[i].did = b
      /\ calls'[i].op = calls[i].op /\ calls'[i].path = calls[i].path
      /\ calls'[i].value = calls[i].value /\ calls'[i].alone = calls[i].alone
      /\ calls'[i].res = calls[i].res
  BY <1>1, <1>3 DEF CallStates
<1>8. v = Torn => calls'[i] = calls[i]
  BY <1>1, <1>3, <1>6 DEF CallStates
<1>9. \A j \in Calls : j # i =>
         IF Downloading(j, Path(i))
         THEN calls'[j] = [calls[j] EXCEPT !.seen = @ \cup {v}]
         ELSE calls'[j] = calls[j]
  BY DEF Changed, Downloading, Busy
<1>10. \A j \in Calls : [calls[j] EXCEPT !.seen = @ \cup {v}] \in CallStates
  BY <1>1 DEF CallStates, Marks
<1>11. calls' = [j \in Calls |-> calls'[j]]
  BY DEF Changed
<1>12. \A j \in Calls : calls'[j] \in CallStates
  BY <1>1, <1>7, <1>9, <1>10
<1> QED
  BY <1>5, <1>7, <1>8, <1>9, <1>11, <1>12

(* A call during a change of another path, or of its own. *)
Meanwhile(j) ==
    /\ calls'[j].op = calls[j].op /\ calls'[j].path = calls[j].path
    /\ calls'[j].value = calls[j].value /\ calls'[j].alone = calls[j].alone
    /\ calls'[j].res = calls[j].res
    /\ calls[j].did => calls'[j].did
    /\ calls[j].seen \subseteq calls'[j].seen

LEMMA ChangedMeanwhile ==
    ASSUME TypeInv, NEW i \in Calls, NEW v \in Marks \cup {None}, Changed(i, v)
    PROVE  /\ \A j \in Calls : Meanwhile(j)
           /\ \A j \in Calls : j # i /\ Downloading(j, Path(i)) => v \in calls'[j].seen
<1>1. \A j \in Calls : calls[j] \in CallStates
  BY DEF TypeInv
<1>2. \A j \in Calls : LET c == [calls[j] EXCEPT !.seen = @ \cup {v}] IN
          /\ c.op = calls[j].op /\ c.path = calls[j].path /\ c.value = calls[j].value
          /\ c.alone = calls[j].alone /\ c.res = calls[j].res /\ c.did = calls[j].did
          /\ c.seen = calls[j].seen \cup {v}
  BY <1>1 DEF CallStates
<1>3. calls'[i].seen = calls[i].seen /\ (calls[i].did => calls'[i].did)
  <2>1. calls'[i] = [calls[i] EXCEPT !.did = @ \/ v # Torn]
    BY DEF Changed
  <2>2. calls'[i].seen = calls[i].seen
    BY <1>1, <2>1 DEF CallStates
  <2>3. v = Torn => calls'[i] = calls[i]
    BY ChangedFields
  <2>4. v # Torn => calls'[i].did
    BY ChangedFields
  <2> QED
    BY <2>2, <2>3, <2>4
<1>4. Meanwhile(i)
  BY <1>3, ChangedFields DEF Meanwhile
<1>5. ASSUME NEW j \in Calls, j # i PROVE Meanwhile(j) /\ (Downloading(j, Path(i)) => v \in calls'[j].seen)
  <2>1. CASE Downloading(j, Path(i))
    <3>1. calls'[j] = [calls[j] EXCEPT !.seen = @ \cup {v}]
      BY <1>5, <2>1, ChangedFields
    <3> QED
      BY <1>2, <3>1 DEF Meanwhile
  <2>2. CASE ~Downloading(j, Path(i))
    BY <1>5, <2>2, ChangedFields DEF Meanwhile
  <2> QED
    BY <2>1, <2>2
<1> QED
  BY <1>4, <1>5

LEMMA SameRoles ==
    ASSUME NEW j \in Calls, NEW x \in Paths, Meanwhile(j), Busy(j)' <=> Busy(j)
    PROVE  /\ Changing(j, x)' <=> Changing(j, x)
           /\ Downloading(j, x)' <=> Downloading(j, x)
           /\ Undisturbed(j)' => Undisturbed(j)
           /\ Path(j)' = Path(j) /\ Value(j)' = Value(j)
  BY DEF Meanwhile, Changing, Downloading, Undisturbed, Busy, Path, Value

(* An object is put or removed, a file is removed. *)
LEMMA ChangeStep ==
    ASSUME StoreInv, TypeInv', NEW i \in Calls, NEW v \in Values \cup {None}, Changed(i, v),
           NEW at \in Paths, Path(i) = at, UNCHANGED <<handle, got>>, Kept,
           \A j \in Calls : j # i => pc'[j] = pc[j],
           pc[i] \notin {"idle", "write", "read", "reply"}, pc'[i] \in {pc[i], "reply"},
           calls[i].op # "download",
           \A x \in Local : disk'[x] = disk[x] \/ (x = at /\ disk'[x] = None),
           \A x \in Paths : x # at => Held(x)' = Held(x), Held(at)' = v
    PROVE  StoreInv'
<1>0. TypeInv /\ Called /\ Staged /\ Owned /\ Alone /\ Seen
  BY DEF StoreInv
<1>1. /\ \A x \in Local : disk'[x] # None => data'[disk'[x]] = data[disk'[x]]
      /\ \A j \in Calls : handle'[j] \in Ids => data'[handle'[j]] = data[handle'[j]]
  BY KeptFiles DEF TypeInv
<1>2. /\ v \in Marks \cup {None} /\ v # Torn /\ None \notin Ids
  BY Apart, DistinctAssumption
<1>3. \A j \in Calls : Meanwhile(j)
  BY <1>0, <1>2, ChangedMeanwhile
<1>4. \A j \in Calls : Busy(j)' <=> Busy(j)
  BY DEF Busy
<1>5. \A j \in Calls : pc'[j] \in {"write", "read"} => j # i /\ pc'[j] = pc[j]
  OBVIOUS
<1>6. \A j \in Calls, x \in Paths :
         (Changing(j, x)' <=> Changing(j, x)) /\ (Downloading(j, x)' <=> Downloading(j, x))
  BY <1>3, <1>4, SameRoles
<1>7. \A j \in Calls : Path(j)' = Path(j) /\ Value(j)' = Value(j) /\ (Undisturbed(j)' => Undisturbed(j))
  BY <1>3 DEF Meanwhile, Path, Value, Undisturbed
<1>8. Called'
  BY <1>0, <1>3, <1>4, <1>7 DEF Called, Meanwhile
<1>9. Staged'
  <2> SUFFICES ASSUME NEW j \in Calls
               PROVE
        /\ pc'[j] \notin {"write", "read", "reply"} => got'[j] = <<>>
        /\ pc'[j] = "write" =>
              /\ calls'[j].op = "upload" /\ Path(j)' \in Local /\ handle'[j] \in Ids
              /\ Len(got'[j]) < Blocks[Value(j)']
              /\ \A n \in 1 .. Len(got'[j]) : got'[j][n] = Value(j)'
        /\ pc'[j] = "read" =>
              calls'[j].op = "download" /\ Path(j)' \in Local /\ handle'[j] \in Ids
        /\ pc'[j] = "reply" =>
              calls'[j].op # "download"
              /\ (calls'[j].did \/ (Path(j)' \in Local /\ ~calls'[j].alone))
    BY DEF Staged, Local, On
  <2>1. calls'[j].op = calls[j].op /\ calls'[j].alone = calls[j].alone
        /\ (calls[j].did => calls'[j].did)
    BY <1>3 DEF Meanwhile
  <2>2. v # Torn => calls'[i].did
    BY <1>0, <1>2, ChangedFields
  <2>3. CASE j = i
    BY <1>0, <1>2, <2>1, <2>2, <2>3 DEF Staged
  <2>4. CASE j # i
    BY <1>0, <1>7, <2>1, <2>4 DEF Staged
  <2> QED
    BY <2>3, <2>4
<1>10. Owned'
  <2>1. Opened' \subseteq Opened /\ \A j \in Opened : j \in Calls
    BY <1>5 DEF Opened
  <2>2. \A x, y \in Local : disk'[x] = disk'[y] /\ disk'[x] # None => x = y
    BY <1>0 DEF Owned
  <2>3. \A j \in Opened : handle[j] \in Ids
    BY <1>0 DEF Opened, Staged
  <2>4. \A j \in Opened', x \in Local : disk'[x] = handle'[j] => x = Path(j)'
    BY <1>0, <1>2, <1>7, <2>1, <2>3 DEF Owned
  <2>5. \A j, k \in Opened' : handle'[j] = handle'[k] => Path(j)' = Path(k)'
    BY <1>0, <1>7, <2>1 DEF Owned
  <2> QED
    BY <2>2, <2>4, <2>5 DEF Owned, Local, On
<1>11. Alone'
  <2> SUFFICES ASSUME NEW j \in Calls, NEW x \in Paths, Changing(j, x)', calls'[j].alone
               PROVE  /\ \A k \in Calls : Changing(k, x)' => k = j
                      /\ pc'[j] = "write" => disk'[x] = handle'[j] /\ data'[handle'[j]] = got'[j]
    BY DEF Alone
  <2>1. Changing(j, x) /\ calls[j].alone /\ \A k \in Calls : Changing(k, x) => k = j
    BY <1>0, <1>3, <1>6 DEF Alone, Meanwhile
  <2>2. ASSUME pc'[j] = "write" PROVE disk'[x] = handle'[j] /\ data'[handle'[j]] = got'[j]
    <3>1. j # i /\ pc[j] = "write" /\ x \in Local /\ handle[j] \in Ids
      BY <1>0, <1>5, <2>1, <2>2 DEF Staged, Changing
    <3>2. disk[x] = handle[j] /\ data[handle[j]] = got[j]
      BY <1>0, <2>1, <3>1 DEF Alone
    <3>3. x # at
      BY <2>1, <3>1 DEF Changing
    <3> QED
      BY <1>1, <3>1, <3>2, <3>3
  <2> QED
    BY <1>6, <2>1, <2>2
<1>12. Seen'
  <2> SUFFICES ASSUME NEW j \in Calls, NEW x \in Paths, Downloading(j, x)'
               PROVE
        /\ Held(x)' \in calls'[j].seen
        /\ calls'[j].alone => \A k \in Calls : Changing(k, x)' => calls'[k].alone
        /\ x \in Local /\ Undisturbed(j)' => \A k \in Calls : Changing(k, x)' => pc'[k] # "write"
        /\ pc'[j] = "read" /\ Undisturbed(j)' =>
              /\ Contents(data[handle[j]])' \in calls'[j].seen
              /\ Len(got'[j]) <= Len(data'[handle'[j]])
              /\ \A n \in 1 .. Len(got'[j]) : got'[j][n] = data'[handle'[j]][n]
    BY DEF Seen, Local, On
  <2>1. Downloading(j, x) /\ j # i
    BY <1>6 DEF Downloading
  <2>2. Held(x)' \in calls'[j].seen
    <3>1. CASE x = at
      BY <1>0, <1>2, <2>1, <3>1, ChangedMeanwhile
    <3>2. CASE x # at
      BY <1>0, <1>3, <2>1, <3>2 DEF Seen, Meanwhile
    <3> QED
      BY <3>1, <3>2
  <2>3. calls'[j].alone => \A k \in Calls : Changing(k, x)' => calls'[k].alone
    BY <1>0, <1>3, <1>6, <2>1 DEF Seen, Meanwhile
  <2>4. x \in Local /\ Undisturbed(j)' => \A k \in Calls : Changing(k, x)' => pc'[k] # "write"
    BY <1>0, <1>5, <1>6, <1>7, <2>1 DEF Seen
  <2>5. ASSUME pc'[j] = "read", Undisturbed(j)'
        PROVE  /\ Contents(data[handle[j]])' \in calls'[j].seen
               /\ Len(got'[j]) <= Len(data'[handle'[j]])
               /\ \A n \in 1 .. Len(got'[j]) : got'[j][n] = data'[handle'[j]][n]
    <3>1. pc[j] = "read" /\ Undisturbed(j) /\ handle[j] \in Ids
      BY <1>0, <1>5, <1>7, <2>5 DEF Staged
    <3>2. data'[handle'[j]] = data[handle[j]]
      BY <1>1, <3>1
    <3>3. Contents(data[handle[j]])' = Contents(data[handle[j]])
      BY <3>2 DEF Contents
    <3>4. /\ Contents(data[handle[j]]) \in calls[j].seen
          /\ Len(got[j]) <= Len(data[handle[j]])
          /\ \A n \in 1 .. Len(got[j]) : got[j][n] = data[handle[j]][n]
      BY <1>0, <2>1, <3>1 DEF Seen
    <3>5. calls[j].seen \subseteq calls'[j].seen
      BY <1>3 DEF Meanwhile
    <3> QED
      BY <3>2, <3>3, <3>4, <3>5
  <2> QED
    BY <2>2, <2>3, <2>4, <2>5
<1> QED
  BY <1>8, <1>9, <1>10, <1>11, <1>12 DEF StoreInv

(* A local file is opened to be written, or written. *)
LEMMA WriteStep ==
    ASSUME StoreInv, TypeInv', NEW i \in Calls, NEW f \in Ids, NEW at \in Local, Path(i) = at,
           \A j \in Calls : Meanwhile(j),
           \A j \in Calls : j # i =>
               pc'[j] = pc[j] /\ handle'[j] = handle[j] /\ got'[j] = got[j],
           pc[i] \in {"open", "write"}, pc'[i] \in {"write", "reply"},
           calls[i].op = "upload", handle'[i] = f,
           \A g \in Ids : g # f => data'[g] = data[g],
           disk'[at] \in {disk[at], f},
           \A x \in Local : x # at => disk'[x] = disk[x], bucket' = bucket,
           \A x \in Local : disk[x] = f => x = at,
           \A j \in Opened : handle[j] = f => Path(j) = at,
           Held(at)' = Held(at)
               \/ \A j \in Calls : Downloading(j, at) => Held(at)' \in calls'[j].seen,
           \A j \in Calls : Downloading(j, at) => ~Undisturbed(j)',
           pc'[i] = "write" =>
               /\ Len(got'[i]) < Blocks[Value(i)]
               /\ \A n \in 1 .. Len(got'[i]) : got'[i][n] = Value(i)
               /\ calls[i].alone => disk'[at] = f /\ data'[f] = got'[i],
           pc'[i] = "reply" => calls'[i].did \/ ~calls[i].alone
    PROVE  StoreInv'
<1>0. TypeInv /\ Called /\ Staged /\ Owned /\ Alone /\ Seen
  BY DEF StoreInv
<1>1. None \notin Ids
  BY Apart
<1>2. \A j \in Calls : Busy(j)' <=> Busy(j)
  BY DEF Busy
<1>3. \A j \in Calls, x \in Paths :
         (Changing(j, x)' <=> Changing(j, x)) /\ (Downloading(j, x)' <=> Downloading(j, x))
  BY <1>2, SameRoles
<1>4. \A j \in Calls : Path(j)' = Path(j) /\ Value(j)' = Value(j) /\ (Undisturbed(j)' => Undisturbed(j))
  BY DEF Meanwhile, Path, Value, Undisturbed
<1>5. Changing(i, Path(i)) /\ \A x \in Paths : Changing(i, x) => x = Path(i)
  BY DEF Changing
<1>6. ASSUME NEW j \in Opened, Path(j) # Path(i)
      PROVE  handle[j] \in Ids /\ data'[handle[j]] = data[handle[j]] /\ handle'[j] = handle[j]
             /\ got'[j] = got[j] /\ pc'[j] = pc[j]
  BY <1>0, <1>6 DEF Opened, Staged
<1>7. Called'
  BY <1>0, <1>2, <1>4 DEF Called, Meanwhile
<1>8. Staged'
  <2> SUFFICES ASSUME NEW j \in Calls
               PROVE
        /\ pc'[j] \notin {"write", "read", "reply"} => got'[j] = <<>>
        /\ pc'[j] = "write" =>
              /\ calls'[j].op = "upload" /\ Path(j)' \in Local /\ handle'[j] \in Ids
              /\ Len(got'[j]) < Blocks[Value(j)']
              /\ \A n \in 1 .. Len(got'[j]) : got'[j][n] = Value(j)'
        /\ pc'[j] = "read" =>
              calls'[j].op = "download" /\ Path(j)' \in Local /\ handle'[j] \in Ids
        /\ pc'[j] = "reply" =>
              calls'[j].op # "download"
              /\ (calls'[j].did \/ (Path(j)' \in Local /\ ~calls'[j].alone))
    BY DEF Staged, Local, On
  <2>1. calls'[j].op = calls[j].op /\ calls'[j].alone = calls[j].alone
        /\ (calls[j].did => calls'[j].did)
    BY DEF Meanwhile
  <2>2. CASE j = i
    BY <1>4, <2>1, <2>2
  <2>3. CASE j # i
    BY <1>0, <1>4, <2>1, <2>3 DEF Staged
  <2> QED
    BY <2>2, <2>3
<1>9. Owned'
  <2>1. \A x, y \in Local : disk'[x] = disk'[y] /\ disk'[x] # None => x = y
    BY <1>0 DEF Owned
  <2>2. \A j \in Opened' : /\ j \in Calls
                           /\ j # i => j \in Opened /\ handle'[j] = handle[j] /\ handle[j] \in Ids
    BY <1>0 DEF Opened, Staged
  <2>3. \A j \in Opened', x \in Local : disk'[x] = handle'[j] => x = Path(j)'
    BY <1>0, <1>1, <1>4, <2>2 DEF Owned
  <2>4. \A j, k \in Opened' : handle'[j] = handle'[k] => Path(j)' = Path(k)'
    BY <1>0, <1>4, <2>2 DEF Owned
  <2> QED
    BY <2>1, <2>3, <2>4 DEF Owned, Local, On
<1>10. Alone'
  <2> SUFFICES ASSUME NEW j \in Calls, NEW x \in Paths, Changing(j, x)', calls'[j].alone
               PROVE  /\ \A k \in Calls : Changing(k, x)' => k = j
                      /\ pc'[j] = "write" => disk'[x] = handle'[j] /\ data'[handle'[j]] = got'[j]
    BY DEF Alone
  <2>1. Changing(j, x) /\ calls[j].alone /\ \A k \in Calls : Changing(k, x) => k = j
    BY <1>0, <1>3 DEF Alone, Meanwhile
  <2>2. ASSUME pc'[j] = "write" PROVE disk'[x] = handle'[j] /\ data'[handle'[j]] = got'[j]
    <3>1. CASE j = i
      BY <1>5, <2>1, <2>2, <3>1
    <3>2. CASE j # i
      <4>1. Path(j) = x /\ Path(j) # Path(i) /\ pc[j] = "write" /\ j \in Opened
        BY <1>5, <2>1, <2>2, <3>2 DEF Changing, Opened
      <4>2. disk[x] = handle[j] /\ data[handle[j]] = got[j] /\ x \in Local
        BY <1>0, <2>1, <4>1 DEF Alone, Staged
      <4> QED
        BY <1>6, <4>1, <4>2
    <3> QED
      BY <3>1, <3>2
  <2> QED
    BY <1>3, <2>1, <2>2
<1>11. Seen'
  <2> SUFFICES ASSUME NEW j \in Calls, NEW x \in Paths, Downloading(j, x)'
               PROVE
        /\ Held(x)' \in calls'[j].seen
        /\ calls'[j].alone => \A k \in Calls : Changing(k, x)' => calls'[k].alone
        /\ x \in Local /\ Undisturbed(j)' => \A k \in Calls : Changing(k, x)' => pc'[k] # "write"
        /\ pc'[j] = "read" /\ Undisturbed(j)' =>
              /\ Contents(data[handle[j]])' \in calls'[j].seen
              /\ Len(got'[j]) <= Len(data'[handle'[j]])
              /\ \A n \in 1 .. Len(got'[j]) : got'[j][n] = data'[handle'[j]][n]
    BY DEF Seen, Local, On
  <2>1. Downloading(j, x) /\ j # i /\ Path(j) = x
    BY <1>3 DEF Downloading
  <2>2. Held(x) \in calls'[j].seen
    BY <1>0, <2>1 DEF Seen, Meanwhile
  <2>3. Held(x)' \in calls'[j].seen
    <3>1. CASE x = at
      BY <2>1, <2>2, <3>1
    <3>2. CASE x # at
      <4>1. x \in Local => disk'[x] = disk[x] /\ (disk[x] # None => data'[disk[x]] = data[disk[x]])
        BY <1>0, <3>2 DEF TypeInv
      <4>2. Held(x)' = Held(x)
        BY <1>0, <4>1, SameHeld
      <4> QED
        BY <2>2, <4>2
    <3> QED
      BY <3>1, <3>2
  <2>4. calls'[j].alone => \A k \in Calls : Changing(k, x)' => calls'[k].alone
    BY <1>0, <1>3, <2>1 DEF Seen, Meanwhile
  <2>5. ASSUME Undisturbed(j)'
        PROVE  x # Path(i) /\ Undisturbed(j)
    BY <1>4, <2>1, <2>5
  <2>6. x \in Local /\ Undisturbed(j)' => \A k \in Calls : Changing(k, x)' => pc'[k] # "write"
    BY <1>0, <1>3, <1>5, <2>1, <2>5 DEF Seen
  <2>7. ASSUME pc'[j] = "read", Undisturbed(j)'
        PROVE  /\ Contents(data[handle[j]])' \in calls'[j].seen
               /\ Len(got'[j]) <= Len(data'[handle'[j]])
               /\ \A n \in 1 .. Len(got'[j]) : got'[j][n] = data'[handle'[j]][n]
    <3>1. j \in Opened /\ pc[j] = "read"
      BY <2>1, <2>7 DEF Opened
    <3>2. handle'[j] = handle[j] /\ got'[j] = got[j] /\ data'[handle[j]] = data[handle[j]]
      BY <1>6, <2>1, <2>5, <2>7, <3>1
    <3>3. Contents(data[handle[j]])' = Contents(data[handle[j]])
      BY <3>2 DEF Contents
    <3>4. /\ Contents(data[handle[j]]) \in calls[j].seen
          /\ Len(got[j]) <= Len(data[handle[j]])
          /\ \A n \in 1 .. Len(got[j]) : got[j][n] = data[handle[j]][n]
      BY <1>0, <2>1, <2>5, <2>7, <3>1 DEF Seen
    <3>5. calls[j].seen \subseteq calls'[j].seen
      BY DEF Meanwhile
    <3> QED
      BY <3>2, <3>3, <3>4, <3>5
  <2> QED
    BY <2>3, <2>4, <2>6, <2>7
<1> QED
  BY <1>7, <1>8, <1>9, <1>10, <1>11 DEF StoreInv

(***************************************************************************)
(* A request arrives.                                                      *)
(***************************************************************************)
Overlap(op, x) == op # "download" /\ \E k \in Calls : Changing(k, x)

LEMMA Started ==
    ASSUME TypeInv, NEW i \in Calls, Start(i)
    PROVE  /\ pc[i] = "idle" /\ UNCHANGED <<disk, data, bucket, tries, handle, got>>
           /\ pc' \in [Calls -> Stages] /\ calls' \in [Calls -> CallStates]
           /\ \A j \in Calls : j # i => pc'[j] = pc[j]
           /\ calls'[i].did = FALSE
           /\ \E op \in {"upload", "download", "delete"}, x \in Paths :
              \E v \in IF op = "upload" THEN Values ELSE {None} :
                 /\ calls'[i] = [op |-> op, path |-> x, value |-> v, did |-> FALSE,
                                 alone |-> \A k \in Calls :
                                     Changing(k, x) => op = "download" /\ calls[k].alone,
                                 seen |-> IF op = "download" THEN {Held(x)} ELSE {},
                                 res |-> "running"]
                 /\ \A j \in Calls : j # i =>
                       IF Overlap(op, x) /\ Busy(j) /\ Path(j) = x
                       THEN calls'[j] = [calls[j] EXCEPT !.alone = FALSE]
                       ELSE calls'[j] = calls[j]
                 /\ pc'[i] = IF x \in Local THEN IF op = "delete" THEN "remove" ELSE "open"
                             ELSE IF op = "delete" /\ Kind[x] = "backblaze" THEN "find" ELSE "send"
<1>1. PICK op \in {"upload", "download", "delete"}, x \in Paths :
      \E v \in IF op = "upload" THEN Values ELSE {None} :
          /\ calls' = [j \in Calls |->
                IF j = i
                THEN [op |-> op, path |-> x, value |-> v, did |-> FALSE,
                      alone |-> \A k \in Calls :
                          Changing(k, x) => op = "download" /\ calls[k].alone,
                      seen |-> IF op = "download" THEN {Held(x)} ELSE {},
                      res |-> "running"]
                ELSE IF /\ op # "download" /\ \E k \in Calls : Changing(k, x)
                        /\ pc[j] # "idle" /\ Path(j) = x
                THEN [calls[j] EXCEPT !.alone = FALSE]
                ELSE calls[j]]
          /\ Goto(i, IF x \in Local THEN IF op = "delete" THEN "remove" ELSE "open"
                     ELSE IF op = "delete" /\ Kind[x] = "backblaze" THEN "find" ELSE "send")
  BY DEF Start
<1>2. PICK v \in IF op = "upload" THEN Values ELSE {None} :
          /\ calls' = [j \in Calls |->
                IF j = i
                THEN [op |-> op, path |-> x, value |-> v, did |-> FALSE,
                      alone |-> \A k \in Calls :
                          Changing(k, x) => op = "download" /\ calls[k].alone,
                      seen |-> IF op = "download" THEN {Held(x)} ELSE {},
                      res |-> "running"]
                ELSE IF /\ op # "download" /\ \E k \in Calls : Changing(k, x)
                        /\ pc[j] # "idle" /\ Path(j) = x
                THEN [calls[j] EXCEPT !.alone = FALSE]
                ELSE calls[j]]
          /\ Goto(i, IF x \in Local THEN IF op = "delete" THEN "remove" ELSE "open"
                     ELSE IF op = "delete" /\ Kind[x] = "backblaze" THEN "find" ELSE "send")
  BY <1>1
<1> DEFINE new == [op |-> op, path |-> x, value |-> v, did |-> FALSE,
                   alone |-> \A k \in Calls :
                       Changing(k, x) => op = "download" /\ calls[k].alone,
                   seen |-> IF op = "download" THEN {Held(x)} ELSE {},
                   res |-> "running"]
           old(j) == [calls[j] EXCEPT !.alone = FALSE]
<1>3. new \in CallStates /\ new.did = FALSE
  <2>1. PICK a \in BOOLEAN :
            a = (\A k \in Calls : Changing(k, x) => op = "download" /\ calls[k].alone)
    OBVIOUS
  <2>2. PICK seen \in SUBSET (Values \cup {None, Torn}) :
            seen = IF op = "download" THEN {Held(x)} ELSE {}
    BY HeldIs DEF Marks
  <2>3. new = [op |-> op, path |-> x, value |-> v, did |-> FALSE, alone |-> a, seen |-> seen,
               res |-> "running"]
    BY <2>1, <2>2
  <2>4. v \in Values \cup {None}
    OBVIOUS
  <2> HIDE DEF new
  <2> QED
    BY <2>3, <2>4 DEF CallStates, Replies
<1>4. \A j \in Calls : calls[j] \in CallStates /\ old(j) \in CallStates
  BY DEF TypeInv, CallStates
<1>5. calls' = [j \in Calls |->
          IF j = i THEN new
          ELSE IF Overlap(op, x) /\ Busy(j) /\ Path(j) = x THEN old(j) ELSE calls[j]]
  BY <1>2, Zenon DEF Overlap, Busy
<1> HIDE DEF new, old
<1>6. calls'[i] = new /\ calls' \in [Calls -> CallStates] /\ calls'[i].did = FALSE
      /\ \A j \in Calls : j # i =>
            IF Overlap(op, x) /\ Busy(j) /\ Path(j) = x
            THEN calls'[j] = old(j) ELSE calls'[j] = calls[j]
  BY <1>3, <1>4, <1>5
<1>7. /\ pc[i] = "idle" /\ UNCHANGED <<disk, data, bucket, tries, handle, got>>
      /\ pc' \in [Calls -> Stages] /\ \A j \in Calls : j # i => pc'[j] = pc[j]
      /\ pc'[i] = IF x \in Local THEN IF op = "delete" THEN "remove" ELSE "open"
                  ELSE IF op = "delete" /\ Kind[x] = "backblaze" THEN "find" ELSE "send"
  BY <1>2 DEF Start, Goto, TypeInv, Stages
<1> QED
  BY <1>6, <1>7 DEF new, old

LEMMA StartStep ==
    ASSUME StoreInv, NEW i \in Calls, Start(i)
    PROVE  StoreInv'
<1>0. TypeInv /\ Called /\ Staged /\ Owned /\ Alone /\ Seen
  BY DEF StoreInv
<1>1. /\ pc[i] = "idle" /\ UNCHANGED <<disk, data, bucket, tries, handle, got>>
      /\ pc' \in [Calls -> Stages] /\ calls' \in [Calls -> CallStates]
      /\ \A j \in Calls : j # i => pc'[j] = pc[j]
  BY <1>0, Started
<1>2. TypeInv'
  BY <1>0, <1>1 DEF TypeInv, Local, Remote, On
<1>3. PICK op \in {"upload", "download", "delete"}, x \in Paths :
      \E v \in IF op = "upload" THEN Values ELSE {None} :
         /\ calls'[i] = [op |-> op, path |-> x, value |-> v, did |-> FALSE,
                         alone |-> \A k \in Calls :
                             Changing(k, x) => op = "download" /\ calls[k].alone,
                         seen |-> IF op = "download" THEN {Held(x)} ELSE {},
                         res |-> "running"]
         /\ \A j \in Calls : j # i =>
               IF Overlap(op, x) /\ Busy(j) /\ Path(j) = x
               THEN calls'[j] = [calls[j] EXCEPT !.alone = FALSE]
               ELSE calls'[j] = calls[j]
         /\ pc'[i] = IF x \in Local THEN IF op = "delete" THEN "remove" ELSE "open"
                     ELSE IF op = "delete" /\ Kind[x] = "backblaze" THEN "find" ELSE "send"
  BY <1>0, Started
<1>4. /\ calls'[i].op = op /\ Path(i)' = x /\ calls'[i].res = "running"
      /\ calls'[i].seen = IF op = "download" THEN {Held(x)} ELSE {}
      /\ Value(i)' \in IF op = "upload" THEN Values ELSE {None}
      /\ calls'[i].alone <=>
             \A k \in Calls : Changing(k, x) => op = "download" /\ calls[k].alone
      /\ pc'[i] \notin {"idle", "write", "read", "reply"}
  BY <1>3 DEF Path, Value
<1>5. ASSUME NEW j \in Calls, j # i
      PROVE  /\ calls'[j].op = calls[j].op /\ Path(j)' = Path(j) /\ Value(j)' = Value(j)
             /\ calls'[j].did = calls[j].did /\ calls'[j].seen = calls[j].seen
             /\ calls'[j].res = calls[j].res
             /\ calls'[j].alone =>
                   calls[j].alone /\ ~(Overlap(op, x) /\ Busy(j) /\ Path(j) = x)
             /\ calls[j].alone /\ op = "download" => calls'[j].alone
  <2>1. calls[j] \in CallStates
    BY <1>0 DEF TypeInv
  <2> DEFINE old == [calls[j] EXCEPT !.alone = FALSE]
  <2>2. old.op = calls[j].op /\ old.path = calls[j].path /\ old.value = calls[j].value
        /\ old.did = calls[j].did /\ old.seen = calls[j].seen /\ old.res = calls[j].res
        /\ ~old.alone
    BY <2>1 DEF CallStates
  <2>3. \/ Overlap(op, x) /\ Busy(j) /\ Path(j) = x /\ calls'[j] = old
        \/ ~(Overlap(op, x) /\ Busy(j) /\ Path(j) = x) /\ calls'[j] = calls[j]
    BY <1>3, <1>5
  <2> HIDE DEF old
  <2>4. CASE Overlap(op, x) /\ Busy(j) /\ Path(j) = x /\ calls'[j] = old
    BY <2>2, <2>4 DEF Path, Value, Overlap
  <2>5. CASE ~(Overlap(op, x) /\ Busy(j) /\ Path(j) = x) /\ calls'[j] = calls[j]
    BY <2>5 DEF Path, Value
  <2> QED
    BY <2>3, <2>4, <2>5
<1>6. \A j \in Calls : j # i =>
         /\ Busy(j)' <=> Busy(j)
         /\ \A y \in Paths : (Changing(j, y)' <=> Changing(j, y))
                             /\ (Downloading(j, y)' <=> Downloading(j, y))
  BY <1>1, <1>5 DEF Busy, Changing, Downloading, Path
<1>7. /\ ~Busy(i) /\ Busy(i)'
      /\ \A y \in Paths : /\ Changing(i, y)' <=> op # "download" /\ y = x
                          /\ Downloading(i, y)' <=> op = "download" /\ y = x
                          /\ ~Changing(i, y)
  BY <1>1, <1>4 DEF Busy, Changing, Downloading, Path
<1>8. Called'
  <2> SUFFICES ASSUME NEW j \in Calls
               PROVE  /\ Busy(j)' <=> calls'[j].res = "running"
                      /\ Busy(j)' =>
                            /\ calls'[j].op \in {"upload", "download", "delete"}
                            /\ Path(j)' \in Paths
                            /\ Value(j)' \in IF calls'[j].op = "upload" THEN Values ELSE {None}
    BY DEF Called
  <2>1. CASE j = i
    BY <1>4, <1>7, <2>1
  <2>2. CASE j # i
    BY <1>0, <1>5, <1>6, <2>2 DEF Called
  <2> QED
    BY <2>1, <2>2
<1>9. Staged'
  <2> SUFFICES ASSUME NEW j \in Calls
               PROVE
        /\ pc'[j] \notin {"write", "read", "reply"} => got'[j] = <<>>
        /\ pc'[j] = "write" =>
              /\ calls'[j].op = "upload" /\ Path(j)' \in Local /\ handle'[j] \in Ids
              /\ Len(got'[j]) < Blocks[Value(j)']
              /\ \A n \in 1 .. Len(got'[j]) : got'[j][n] = Value(j)'
        /\ pc'[j] = "read" =>
              calls'[j].op = "download" /\ Path(j)' \in Local /\ handle'[j] \in Ids
        /\ pc'[j] = "reply" =>
              calls'[j].op # "download"
              /\ (calls'[j].did \/ (Path(j)' \in Local /\ ~calls'[j].alone))
    BY DEF Staged, Local, On
  <2>1. CASE j = i
    BY <1>0, <1>1, <1>4, <2>1 DEF Staged
  <2>2. CASE j # i
    BY <1>0, <1>1, <1>5, <2>2 DEF Staged
  <2> QED
    BY <2>1, <2>2
<1>10. Owned'
  <2>1. Opened' = Opened
    BY <1>1, <1>4 DEF Opened
  <2>2. i \notin Opened /\ \A j \in Opened : j \in Calls /\ Path(j)' = Path(j)
    BY <1>1, <1>5 DEF Opened
  <2> QED
    BY <1>0, <1>1, <2>1, <2>2 DEF Owned, Local, On
<1>11. Alone'
  <2> SUFFICES ASSUME NEW j \in Calls, NEW y \in Paths, Changing(j, y)', calls'[j].alone
               PROVE  /\ \A k \in Calls : Changing(k, y)' => k = j
                      /\ pc'[j] = "write" => disk'[y] = handle'[j] /\ data'[handle'[j]] = got'[j]
    BY DEF Alone
  <2>1. CASE j = i
    BY <1>4, <1>6, <1>7, <2>1
  <2>2. CASE j # i
    <3>1. Changing(j, y) /\ calls[j].alone /\ Busy(j) /\ Path(j) = y
      BY <1>5, <1>6, <2>2 DEF Changing, Busy
    <3>2. ~(op # "download" /\ y = x)
      BY <1>5, <2>2, <3>1 DEF Overlap
    <3>3. \A k \in Calls : Changing(k, y)' => k = j
      BY <1>0, <1>6, <1>7, <3>1, <3>2 DEF Alone
    <3> QED
      BY <1>0, <1>1, <2>2, <3>1, <3>3 DEF Alone
  <2> QED
    BY <2>1, <2>2
<1>12. Seen'
  <2> SUFFICES ASSUME NEW j \in Calls, NEW y \in Paths, Downloading(j, y)'
               PROVE
        /\ Held(y)' \in calls'[j].seen
        /\ calls'[j].alone => \A k \in Calls : Changing(k, y)' => calls'[k].alone
        /\ y \in Local /\ Undisturbed(j)' => \A k \in Calls : Changing(k, y)' => pc'[k] # "write"
        /\ pc'[j] = "read" /\ Undisturbed(j)' =>
              /\ Contents(data[handle[j]])' \in calls'[j].seen
              /\ Len(got'[j]) <= Len(data'[handle'[j]])
              /\ \A n \in 1 .. Len(got'[j]) : got'[j][n] = data'[handle'[j]][n]
    BY DEF Seen, Local, On
  <2>1. Held(y)' = Held(y)
    BY <1>0, <1>1, SameHeld
  <2>2. CASE j = i
    <3>1. op = "download" /\ y = x /\ calls'[i].seen = {Held(x)}
      BY <1>4, <1>7, <2>2
    <3>2. \A k \in Calls : Changing(k, x)' => k # i /\ Changing(k, x)
      BY <1>6, <1>7, <3>1
    <3>3. calls'[i].alone => \A k \in Calls : Changing(k, x)' => calls[k].alone /\ calls'[k].alone
      BY <1>4, <1>5, <3>1, <3>2
    <3>4. ASSUME x \in Local, Undisturbed(i)', NEW k \in Calls, Changing(k, x)', pc'[k] = "write"
          PROVE  FALSE
      <4>1. k # i /\ Changing(k, x) /\ calls[k].alone /\ pc[k] = "write"
        BY <1>1, <3>2, <3>3, <3>4 DEF Undisturbed
      <4>2. disk[x] = handle[k] /\ data[handle[k]] = got[k]
        BY <1>0, <4>1 DEF Alone
      <4>3. handle[k] \in Ids /\ Len(got[k]) < Blocks[Value(k)] /\ got[k] \in Seq(Marks)
            /\ \A n \in 1 .. Len(got[k]) : got[k][n] = Value(k)
        BY <1>0, <4>1 DEF Staged, TypeInv
      <4>4. Value(k) \in Values /\ Blocks[Value(k)] \in Nat
        BY <1>0, <4>1, BlocksAssumption DEF Called, Staged, Busy
      <4>5. Contents(got[k]) = Torn
        BY <4>3, <4>4, ContentsIs
      <4>6. Held(x) = Torn
        BY <3>4, <4>2, <4>3, <4>5, Apart DEF Held
      <4> QED
        BY <3>1, <3>4, <4>6 DEF Undisturbed
    <3> QED
      BY <1>4, <2>1, <2>2, <3>1, <3>3, <3>4
  <2>3. CASE j # i
    <3>1. Downloading(j, y) /\ calls'[j].seen = calls[j].seen /\ pc'[j] = pc[j]
          /\ (Undisturbed(j)' => Undisturbed(j)) /\ (calls'[j].alone => calls[j].alone)
      BY <1>1, <1>5, <1>6, <2>3 DEF Undisturbed
    <3>2. ASSUME calls'[j].alone, NEW k \in Calls, Changing(k, y)'
          PROVE  calls'[k].alone
      <4>1. CASE k = i
        <5>1. op # "download" /\ y = x
          BY <1>7, <3>2, <4>1
        <5>2. ~Overlap(op, x)
          BY <1>5, <2>3, <3>1, <3>2, <5>1 DEF Downloading
        <5> QED
          BY <1>4, <4>1, <5>1, <5>2 DEF Overlap
      <4>2. CASE k # i
        <5>1. Changing(k, y) /\ calls[k].alone
          BY <1>0, <1>6, <3>1, <3>2, <4>2 DEF Seen
        <5>2. ~(Overlap(op, x) /\ x = y)
          BY <1>5, <2>3, <3>1, <3>2 DEF Downloading
        <5>3. Path(k) = y
          BY <5>1 DEF Changing
        <5>4. calls'[k] = calls[k]
          BY <1>3, <4>2, <5>2, <5>3
        <5> QED
          BY <5>1, <5>4
      <4> QED
        BY <4>1, <4>2
    <3>3. ASSUME y \in Local, Undisturbed(j)', NEW k \in Calls, Changing(k, y)'
          PROVE  pc'[k] # "write"
      BY <1>0, <1>1, <1>4, <1>6, <3>1, <3>3 DEF Seen
    <3>4. ASSUME pc'[j] = "read", Undisturbed(j)'
          PROVE  /\ Contents(data[handle[j]])' \in calls'[j].seen
                 /\ Len(got'[j]) <= Len(data'[handle'[j]])
                 /\ \A n \in 1 .. Len(got'[j]) : got'[j][n] = data'[handle'[j]][n]
      <4>1. Contents(data[handle[j]])' = Contents(data[handle[j]])
        BY <1>1 DEF Contents
      <4>2. /\ Contents(data[handle[j]]) \in calls[j].seen
            /\ Len(got[j]) <= Len(data[handle[j]])
            /\ \A n \in 1 .. Len(got[j]) : got[j][n] = data[handle[j]][n]
        BY <1>0, <3>1, <3>4 DEF Seen
      <4> QED
        BY <1>1, <3>1, <4>1, <4>2
    <3>5. Held(y)' \in calls'[j].seen
      BY <1>0, <2>1, <3>1 DEF Seen
    <3> QED
      BY <3>2, <3>3, <3>4, <3>5
  <2> QED
    BY <2>2, <2>3
<1> QED
  BY <1>2, <1>8, <1>9, <1>10, <1>11, <1>12 DEF StoreInv

-----------------------------------------------------------------------------
(***************************************************************************)
(* What the steps are to the store.                                        *)
(***************************************************************************)
LEMMA StoreChanging ==
    ASSUME TypeInv, Called, NEW j \in Calls, NEW x \in Paths
    PROVE  Store!Changing(j, x) <=> Changing(j, x)
  BY DEF Store!Changing, Changing, Called, Busy, Path

(* What is stored is what the paths hold. *)
Readable ==
    \A x \in Paths : /\ stored[x] = <<>> <=> Held(x) = None
                     /\ stored[x] # <<>> => Last(stored[x]) = Held(x)

LEMMA ReadableAlways == (TypeInv => Readable) /\ (TypeInv' => Readable')
<1>1. TypeInv => Readable
  BY HeldIs DEF Readable
<1> QED
  BY <1>1, PTL

LEMMA StoreSequences ==
    /\ \A s : Store!Last(s) = Last(s)
    /\ \A s, n : Store!RemoveAt(s, n) = RemoveAt(s, n)
  BY DEF Store!Last, Last, Store!RemoveAt, RemoveAt

LEMMA StartRefined ==
    ASSUME TypeInv, Called, NEW i \in Calls, Start(i)
    PROVE  Store!Start(i)
<1>1. PICK op \in {"upload", "download", "delete"}, x \in Paths :
      \E v \in IF op = "upload" THEN Values ELSE {None} :
          /\ calls' = [j \in Calls |->
                IF j = i
                THEN [op |-> op, path |-> x, value |-> v, did |-> FALSE,
                      alone |-> \A k \in Calls :
                          Changing(k, x) => op = "download" /\ calls[k].alone,
                      seen |-> IF op = "download" THEN {Held(x)} ELSE {},
                      res |-> "running"]
                ELSE IF /\ op # "download" /\ \E k \in Calls : Changing(k, x)
                        /\ pc[j] # "idle" /\ Path(j) = x
                THEN [calls[j] EXCEPT !.alone = FALSE]
                ELSE calls[j]]
          /\ Goto(i, IF x \in Local THEN IF op = "delete" THEN "remove" ELSE "open"
                     ELSE IF op = "delete" /\ Kind[x] = "backblaze" THEN "find" ELSE "send")
  BY DEF Start
<1>2. PICK v \in IF op = "upload" THEN Values ELSE {None} :
          /\ calls' = [j \in Calls |->
                IF j = i
                THEN [op |-> op, path |-> x, value |-> v, did |-> FALSE,
                      alone |-> \A k \in Calls :
                          Changing(k, x) => op = "download" /\ calls[k].alone,
                      seen |-> IF op = "download" THEN {Held(x)} ELSE {},
                      res |-> "running"]
                ELSE IF /\ op # "download" /\ \E k \in Calls : Changing(k, x)
                        /\ pc[j] # "idle" /\ Path(j) = x
                THEN [calls[j] EXCEPT !.alone = FALSE]
                ELSE calls[j]]
          /\ Goto(i, IF x \in Local THEN IF op = "delete" THEN "remove" ELSE "open"
                     ELSE IF op = "delete" /\ Kind[x] = "backblaze" THEN "find" ELSE "send")
  BY <1>1
<1>3. \A j \in Calls : Store!Changing(j, x) <=> Changing(j, x)
  BY StoreChanging
<1>4. Store!Current(x) = Held(x)
  BY ReadableAlways, StoreSequences DEF Store!Current, Readable
<1>5. \A j \in Calls : pc[j] # "idle" <=> calls[j].res = "running"
  BY DEF Called, Busy
<1>6. (\A k \in Calls : Changing(k, x) => op = "download" /\ calls[k].alone)
          = (\A k \in Calls : Store!Changing(k, x) => op = "download" /\ calls[k].alone)
  BY <1>3
<1>7. calls' = [j \in Calls |->
             IF j = i
             THEN [op |-> op, path |-> x, value |-> v, did |-> FALSE,
                   alone |-> \A k \in Calls :
                       Store!Changing(k, x) => op = "download" /\ calls[k].alone,
                   seen |-> IF op = "download" THEN {Store!Current(x)} ELSE {},
                   res |-> "running"]
             ELSE IF /\ op # "download" /\ \E k \in Calls : Store!Changing(k, x)
                     /\ calls[j].res = "running" /\ calls[j].path = x
             THEN [calls[j] EXCEPT !.alone = FALSE]
             ELSE calls[j]]
  <2>1. (\E k \in Calls : Store!Changing(k, x)) <=> \E k \in Calls : Changing(k, x)
    BY <1>3
  <2>2. ASSUME NEW a, NEW b, a = b, NEW seen
        PROVE  [op |-> op, path |-> x, value |-> v, did |-> FALSE, alone |-> a,
                seen |-> seen, res |-> "running"]
             = [op |-> op, path |-> x, value |-> v, did |-> FALSE, alone |-> b,
                seen |-> seen, res |-> "running"]
    BY <2>2
  <2>3. [op |-> op, path |-> x, value |-> v, did |-> FALSE,
         alone |-> \A k \in Calls : Changing(k, x) => op = "download" /\ calls[k].alone,
         seen |-> IF op = "download" THEN {Held(x)} ELSE {}, res |-> "running"]
      = [op |-> op, path |-> x, value |-> v, did |-> FALSE,
         alone |-> \A k \in Calls : Store!Changing(k, x) => op = "download" /\ calls[k].alone,
         seen |-> IF op = "download" THEN {Held(x)} ELSE {}, res |-> "running"]
    BY <1>6, Zenon
  <2>4. ASSUME NEW j \in Calls, j # i
        PROVE  calls'[j] = IF /\ op # "download" /\ \E k \in Calls : Store!Changing(k, x)
                              /\ calls[j].res = "running" /\ calls[j].path = x
                           THEN [calls[j] EXCEPT !.alone = FALSE]
                           ELSE calls[j]
    BY <1>2, <1>5, <2>1, <2>4 DEF Path
  <2>5. calls'[i] = [op |-> op, path |-> x, value |-> v, did |-> FALSE,
                     alone |-> \A k \in Calls :
                         Store!Changing(k, x) => op = "download" /\ calls[k].alone,
                     seen |-> IF op = "download" THEN {Store!Current(x)} ELSE {},
                     res |-> "running"]
    BY <1>2, <1>4, <2>3, Zenon
  <2>6. calls' = [j \in Calls |-> calls'[j]]
    BY <1>2
  <2> QED
    BY <2>4, <2>5, <2>6, Zenon
<1>8. calls[i].res # "running" /\ UNCHANGED stored
  BY <1>5 DEF Start, stored, Held, Contents
<1> QED
  BY <1>7, <1>8, Zenon DEF Store!Start

LEMMA ReplyRefined ==
    ASSUME TypeInv, Called, NEW i \in Calls, Busy(i),
           NEW res \in {"ok", "notfound", "error"}, NEW v \in Marks \cup {None},
           Reply(i, res, v), UNCHANGED stored,
           calls[i].op = "download" /\ res = "ok" =>
               /\ v # None
               /\ \/ v \in calls[i].seen \/ Torn \in calls[i].seen
                  \/ ~Undisturbed(i) /\ Path(i) \in Local,
           v # None => calls[i].op = "download" /\ res = "ok",
           calls[i].op # "download" /\ res = "ok" =>
               calls[i].did \/ (Path(i) \in Local /\ ~calls[i].alone),
           res = "notfound" => calls[i].op = "download" /\ None \in calls[i].seen
    PROVE  Store!Return(i)
<1>1. calls[i].res = "running" /\ v \in Values \cup {Torn, None}
  BY DEF Called, Marks
<1>2. calls' = [calls EXCEPT ![i] = [Store!Idle EXCEPT !.res = res, !.value = v]]
  BY DEF Reply, Idle, Store!Idle
<1>3. Store!Disturbed(i) <=> Path(i) \in Local /\ ~calls[i].alone
  BY DEF Store!Disturbed, Path
<1>4. calls[i].op = "download" /\ res = "ok" =>
          v # None /\ (v \in calls[i].seen \/ Torn \in calls[i].seen \/ Store!Disturbed(i))
  BY <1>3 DEF Undisturbed
<1>5. calls[i].op # "download" /\ res = "ok" => calls[i].did \/ Store!Disturbed(i)
  BY <1>3
<1> QED
  BY <1>1, <1>2, <1>4, <1>5 DEF Store!Return

LEMMA Becoming ==
    ASSUME NEW at \in Paths, NEW versions, stored'[at] = versions,
           \A x \in Paths : x # at => stored'[x] = stored[x]
    PROVE  Store!Becomes(at, versions)
<1>1. stored = [x \in Paths |-> stored[x]] /\ stored' = [x \in Paths |-> stored'[x]]
  BY DEF stored
<1> HIDE DEF stored
<1> QED
  BY <1>1 DEF Store!Becomes

(* The path holds v now, and the calls see it. *)
LEMMA Noticing ==
    ASSUME TypeInv, TypeInv', Called, NEW i \in Calls, NEW v \in Marks \cup {None},
           Changed(i, v), Busy(i), calls[i].op # "download",
           NEW at \in Paths, Path(i) = at, Held(at)' = v
    PROVE  Store!Noticed(at, IF v = Torn THEN {} ELSE {i})
<1>1. (IF stored'[at] = <<>> THEN None ELSE Last(stored'[at])) = v
  <2>1. /\ stored'[at] = <<>> <=> Held(at)' = None
        /\ stored'[at] # <<>> => Last(stored'[at]) = Held(at)'
    BY ReadableAlways DEF Readable
  <2> QED
    BY <2>1
<1>2. \A j \in Calls : calls[j] \in CallStates /\ calls'[j] \in CallStates
  BY DEF TypeInv
<1>3. ASSUME NEW j \in Calls
      PROVE  calls'[j] = IF j \in (IF v = Torn THEN {} ELSE {i}) THEN [calls[j] EXCEPT !.did = TRUE]
               ELSE IF calls[j].res = "running" /\ calls[j].op = "download" /\ calls[j].path = at
               THEN [calls[j] EXCEPT !.seen = @ \cup {v}]
               ELSE calls[j]
  <2>1. CASE j = i
    <3>1. v # Torn => calls'[i] = [calls[i] EXCEPT !.did = TRUE]
      <4>1. calls'[i] = [calls[i] EXCEPT !.did = @ \/ v # Torn]
        BY DEF Changed
      <4>2. v # Torn => (calls[i].did \/ v # Torn) = TRUE
        BY Zenon
      <4> QED
        BY <4>1, <4>2, Zenon
    <3>2. v = Torn => calls'[i] = calls[i]
      BY ChangedFields
    <3> QED
      BY <2>1, <3>1, <3>2
  <2>2. CASE j # i
    <3>1. Downloading(j, at) <=>
              calls[j].res = "running" /\ calls[j].op = "download" /\ calls[j].path = at
      BY DEF Downloading, Called, Path
    <3> QED
      BY <2>2, <3>1, ChangedFields
  <2> QED
    BY <2>1, <2>2
<1>4. calls' = [j \in Calls |-> calls'[j]]
  BY DEF Changed
<1>5. calls' = [j \in Calls |->
          IF j \in (IF v = Torn THEN {} ELSE {i}) THEN [calls[j] EXCEPT !.did = TRUE]
          ELSE IF calls[j].res = "running" /\ calls[j].op = "download" /\ calls[j].path = at
          THEN [calls[j] EXCEPT !.seen = @ \cup {IF stored'[at] = <<>> THEN None
                                                 ELSE Last(stored'[at])}]
          ELSE calls[j]]
  BY <1>1, <1>3, <1>4, Zenon
<1> QED
  <2>1. \A s : Store!Last(s) = Last(s)
    BY StoreSequences
  <2> QED
    BY <1>5, <2>1, Zenon DEF Store!Noticed

-----------------------------------------------------------------------------
(***************************************************************************)
(* The actions: each keeps the invariant, and is a step of the store or    *)
(* none.                                                                   *)
(***************************************************************************)
Shown == StoreInv' /\ [Store!Next]_<<stored, calls>>

LEMMA Kinds ==
    ASSUME NEW x \in Paths
    PROVE  /\ x \in Local <=> Kind[x] = "local"
           /\ x \in Remote <=> Kind[x] # "local"
           /\ x \in On("backblaze") <=> Kind[x] = "backblaze"
           /\ Kind[x] \in {"local", "aws-s3", "backblaze"}
  BY KindAssumption DEF Local, Remote, On

LEMMA SameStored ==
    ASSUME TypeInv, Kept, UNCHANGED <<disk, bucket>>, handle' \in [Calls -> Ids \cup {None}]
    PROVE  UNCHANGED stored /\ \A x \in Paths : Held(x)' = Held(x)
<1>1. disk' \in [Local -> Ids \cup {None}]
  BY DEF TypeInv
<1>2. \A x \in Local : disk[x] # None => data'[disk[x]] = data[disk[x]]
  BY <1>1, KeptFiles
<1>3. \A x \in Paths : Held(x)' = Held(x) /\ stored'[x] = stored[x]
  BY <1>2, SameHeld
<1>4. stored = [x \in Paths |-> stored[x]] /\ stored' = [x \in Paths |-> stored'[x]]
  BY DEF stored
<1> HIDE DEF stored
<1> QED
  BY <1>3, <1>4

LEMMA SameKept ==
    ASSUME TypeInv, UNCHANGED data
    PROVE  Kept
  BY DEF TypeInv, Kept

LEMMA StartShown ==
    ASSUME StoreInv, NEW i \in Calls, Start(i)
    PROVE  Shown
<1>1. StoreInv'
  BY StartStep
<1>2. Store!Start(i)
  BY StartRefined DEF StoreInv
<1> QED
  BY <1>1, <1>2 DEF Shown, Store!Next

LEMMA LeaveShown ==
    ASSUME StoreInv, NEW i \in Calls, Busy(i),
           NEW res \in {"ok", "notfound", "error"}, NEW v \in Marks \cup {None},
           Reply(i, res, v), UNCHANGED <<disk, bucket>>, Kept,
           calls[i].op = "download" /\ res = "ok" =>
               /\ v # None
               /\ \/ v \in calls[i].seen \/ Torn \in calls[i].seen
                  \/ ~Undisturbed(i) /\ Path(i) \in Local,
           v # None => calls[i].op = "download" /\ res = "ok",
           calls[i].op # "download" /\ res = "ok" =>
               calls[i].did \/ (Path(i) \in Local /\ ~calls[i].alone),
           res = "notfound" => calls[i].op = "download" /\ None \in calls[i].seen
    PROVE  Shown
<1>1. StoreInv'
  BY ReplyStep
<1>2. TypeInv /\ Called /\ handle' \in [Calls -> Ids \cup {None}]
  BY Replied DEF StoreInv
<1>3. UNCHANGED stored
  BY <1>2, SameStored
<1>4. Store!Return(i)
  BY <1>2, <1>3, ReplyRefined
<1> QED
  BY <1>1, <1>4 DEF Shown, Store!Next

LEMMA ErrorShown ==
    ASSUME StoreInv, NEW i \in Calls, Busy(i), Reply(i, "error", None),
           UNCHANGED <<disk, bucket>>, Kept
    PROVE  Shown
  BY LeaveShown

LEMMA QuietShown ==
    ASSUME StoreInv, NEW i \in Calls, Kept, UNCHANGED <<disk, bucket, calls>>,
           pc' \in [Calls -> Stages], tries' \in [Calls -> 1 .. Retries],
           handle' \in [Calls -> Ids \cup {None}], got' \in [Calls -> Seq(Marks)],
           \A j \in Calls : j # i =>
               pc'[j] = pc[j] /\ handle'[j] = handle[j] /\ got'[j] = got[j],
           pc[i] \notin {"idle", "write"}, pc'[i] \notin {"idle", "write", "reply"},
           pc'[i] # "read" => got'[i] = <<>>,
           pc'[i] = "read" =>
               /\ calls[i].op = "download" /\ Path(i) \in Local /\ handle'[i] \in Ids
               /\ \/ handle'[i] = disk[Path(i)]
                  \/ i \in Opened /\ handle'[i] = handle[i]
               /\ Undisturbed(i) =>
                     /\ Contents(data[handle'[i]]) \in calls[i].seen
                     /\ Len(got'[i]) <= Len(data[handle'[i]])
                     /\ \A n \in 1 .. Len(got'[i]) : got'[i][n] = data[handle'[i]][n]
    PROVE  Shown
<1>1. TypeInv'
  BY DEF StoreInv, TypeInv, Kept, Local, Remote, On
<1>2. StoreInv'
  BY <1>1, QuietStep
<1>3. UNCHANGED stored
  BY SameStored DEF StoreInv
<1> QED
  BY <1>2, <1>3 DEF Shown

LEMMA FailsShown ==
    ASSUME StoreInv, NEW i \in Calls, Fails(i) \/ CopyFails(i)
    PROVE  Shown
<1>1. Busy(i) /\ Reply(i, "error", None) /\ UNCHANGED <<disk, bucket>> /\ Closed
  BY DEF Fails, CopyFails, At, Busy
<1>2. Kept
  BY <1>1, ClosedKeeps DEF StoreInv
<1> QED
  BY <1>1, <1>2, ErrorShown

LEMMA StoredShown ==
    ASSUME StoreInv, NEW i \in Calls, Stored(i)
    PROVE  Shown
<1>1. pc[i] = "reply" /\ Busy(i) /\ Reply(i, "ok", None) /\ UNCHANGED <<disk, bucket>> /\ Closed
  BY DEF Stored, Busy
<1>2. Kept
  BY <1>1, ClosedKeeps DEF StoreInv
<1>3. calls[i].op # "download" /\ (calls[i].did \/ (Path(i) \in Local /\ ~calls[i].alone))
  BY <1>1 DEF StoreInv, Staged
<1> QED
  BY <1>1, <1>2, <1>3, LeaveShown

LEMMA OpenToReadShown ==
    ASSUME StoreInv, NEW i \in Calls, OpenToRead(i)
    PROVE  Shown
<1>0. TypeInv /\ Called /\ Staged /\ Seen
  BY DEF StoreInv
<1>1. pc[i] = "open" /\ calls[i].op = "download" /\ Busy(i) /\ Kind[Path(i)] = "local"
      /\ UNCHANGED <<disk, bucket>> /\ Closed
  BY DEF OpenToRead, At, Busy
<1>2. Path(i) \in Local /\ Path(i) \in Paths /\ Downloading(i, Path(i)) /\ Kept
  BY <1>0, <1>1, Kinds, ClosedKeeps DEF Called, Downloading
<1>3. Held(Path(i)) \in calls[i].seen
  BY <1>0, <1>2 DEF Seen
<1>4. CASE disk[Path(i)] = None
  <2>1. Reply(i, "notfound", None)
    BY <1>4 DEF OpenToRead
  <2>2. None \in calls[i].seen
    BY <1>0, <1>2, <1>3, <1>4, HeldIs
  <2> QED
    BY <1>1, <1>2, <2>1, <2>2, LeaveShown
<1>5. CASE disk[Path(i)] # None
  <2>1. handle' = [handle EXCEPT ![i] = disk[Path(i)]] /\ Goto(i, "read")
        /\ UNCHANGED <<calls, tries, got>>
    BY <1>5 DEF OpenToRead
  <2>2. disk[Path(i)] \in Ids
    BY <1>0, <1>2, <1>5 DEF TypeInv
  <2>3. handle' \in [Calls -> Ids \cup {None}] /\ handle'[i] = disk[Path(i)]
        /\ pc' \in [Calls -> Stages] /\ pc'[i] = "read"
        /\ \A j \in Calls : j # i => pc'[j] = pc[j] /\ handle'[j] = handle[j]
    BY <1>0, <2>1, <2>2 DEF TypeInv, Goto, Stages
  <2>4. Contents(data[handle'[i]]) \in calls[i].seen
    BY <1>2, <1>3, <1>5, <2>3 DEF Held
  <2>5. got'[i] = <<>> /\ Len(got'[i]) = 0 /\ got' = got /\ got \in [Calls -> Seq(Marks)]
    <3>1. got[i] = <<>> /\ got' = got
      BY <1>0, <1>1, <2>1 DEF Staged
    <3>2. Len(<<>>) = 0
      OBVIOUS
    <3> QED
      BY <1>0, <3>1, <3>2 DEF TypeInv
  <2>6. data[handle'[i]] \in Seq(Marks)
    BY <1>0, <2>2, <2>3 DEF TypeInv
  <2>7. Len(got'[i]) <= Len(data[handle'[i]])
        /\ \A n \in 1 .. Len(got'[i]) : got'[i][n] = data[handle'[i]][n]
    BY <2>5, <2>6
  <2>8. tries' \in [Calls -> 1 .. Retries]
    BY <1>0, <2>1 DEF TypeInv
  <2> QED
    BY <1>1, <1>2, <2>1, <2>2, <2>3, <2>4, <2>5, <2>7, <2>8, QuietShown
<1> QED
  BY <1>4, <1>5

LEMMA ReadBlockShown ==
    ASSUME StoreInv, NEW i \in Calls, ReadBlock(i)
    PROVE  Shown
<1>0. TypeInv /\ Called /\ Staged /\ Seen
  BY DEF StoreInv
<1>1. pc[i] = "read" /\ Busy(i) /\ UNCHANGED <<disk, bucket>> /\ Closed
  BY DEF ReadBlock, At, Busy
<1>2. Path(i) \in Local /\ Path(i) \in Paths /\ calls[i].op = "download"
      /\ Downloading(i, Path(i)) /\ Kept /\ handle[i] \in Ids /\ i \in Opened
  BY <1>0, <1>1, ClosedKeeps DEF Called, Downloading, Staged, Opened
<1>3. PICK blocks \in Seq(Marks) : blocks = data[handle[i]]
  BY <1>0, <1>2 DEF TypeInv
<1>4. PICK done \in Seq(Marks) : done = got[i]
  BY <1>0 DEF TypeInv
<1>5. Undisturbed(i) => /\ Contents(blocks) \in calls[i].seen /\ Len(done) <= Len(blocks)
                        /\ \A n \in 1 .. Len(done) : done[n] = blocks[n]
  BY <1>0, <1>1, <1>2, <1>3, <1>4 DEF Seen
<1>6. CASE Len(done) + 1 <= Len(blocks)
  <2>1. got' = [got EXCEPT ![i] = Append(done, blocks[Len(done) + 1])]
        /\ UNCHANGED <<pc, calls, tries, handle>>
    BY <1>3, <1>4, <1>6 DEF ReadBlock
  <2>2. PICK more \in Seq(Marks) : more = Append(done, blocks[Len(done) + 1])
    <3>1. Len(done) \in Nat /\ Len(blocks) \in Nat
      OBVIOUS
    <3>2. Len(done) + 1 \in 1 .. Len(blocks)
      BY <1>6, <3>1
    <3>3. blocks[Len(done) + 1] \in Marks
      BY <3>2
    <3>4. Append(done, blocks[Len(done) + 1]) \in Seq(Marks)
      BY <3>3, AppendProperties
    <3> QED
      BY <3>4, Zenon
  <2>3. Len(more) = Len(done) + 1 /\ \A n \in 1 .. Len(done) : more[n] = done[n]
    BY <2>2
  <2>4. more[Len(done) + 1] = blocks[Len(done) + 1]
    BY <2>2
  <2>5. Undisturbed(i) => Len(more) <= Len(blocks) /\ \A n \in 1 .. Len(more) : more[n] = blocks[n]
    <3> SUFFICES ASSUME Undisturbed(i), NEW n \in 1 .. Len(more) PROVE more[n] = blocks[n]
      BY <1>6, <2>3
    <3>1. CASE n \in 1 .. Len(done)
      BY <1>5, <2>3, <3>1
    <3>2. CASE n = Len(done) + 1
      BY <2>4, <3>2
    <3> QED
      BY <2>3, <3>1, <3>2
  <2>6. got' \in [Calls -> Seq(Marks)] /\ got'[i] = more
        /\ \A j \in Calls : j # i => got'[j] = got[j]
    BY <1>0, <2>1, <2>2 DEF TypeInv
  <2>7. pc' \in [Calls -> Stages] /\ tries' \in [Calls -> 1 .. Retries]
        /\ handle' \in [Calls -> Ids \cup {None}]
    BY <1>0, <2>1 DEF TypeInv
  <2> QED
    BY <1>1, <1>2, <1>3, <1>5, <2>1, <2>5, <2>6, <2>7, QuietShown
<1>7. CASE ~(Len(done) + 1 <= Len(blocks))
  <2>1. Reply(i, "ok", Contents(done))
    BY <1>3, <1>4, <1>7 DEF ReadBlock
  <2>2. Contents(done) \in Marks /\ Contents(done) # None
    BY ContentsIs, Apart
  <2>3. ASSUME Undisturbed(i) PROVE done = blocks
    <3>1. Len(done) = Len(blocks)
      BY <1>5, <1>7, <2>3
    <3> QED
      BY <1>5, <2>3, <3>1, SeqEqual
  <2>4. Undisturbed(i) => Contents(done) \in calls[i].seen
    BY <1>5, <2>3
  <2> QED
    BY <1>1, <1>2, <2>1, <2>2, <2>4, LeaveShown
<1> QED
  BY <1>6, <1>7

(* Loops with a bounded number of attempts. *)
LEMMA AttemptShown ==
    ASSUME StoreInv, NEW i \in Calls, pc[i] = "send", NEW err \in {"notfound", "error"},
           Attempt(i, err), UNCHANGED <<disk, bucket>>, Kept,
           err = "notfound" => calls[i].op = "download" /\ None \in calls[i].seen
    PROVE  Shown
<1>0. TypeInv /\ Staged /\ Busy(i)
  BY DEF StoreInv, Busy
<1>1. CASE tries[i] = Retries
  <2>1. Reply(i, err, None)
    BY <1>1 DEF Attempt
  <2> QED
    BY <1>0, <2>1, LeaveShown
<1>2. CASE tries[i] # Retries
  <2>1. tries' = [tries EXCEPT ![i] = @ + 1] /\ UNCHANGED <<pc, calls, handle, got>>
    BY <1>2 DEF Attempt
  <2>2. tries[i] \in 1 .. Retries /\ tries[i] + 1 \in 1 .. Retries
    BY <1>0, <1>2, RetriesAssumption DEF TypeInv
  <2>3. /\ tries' \in [Calls -> 1 .. Retries] /\ pc' \in [Calls -> Stages]
        /\ handle' \in [Calls -> Ids \cup {None}] /\ got' \in [Calls -> Seq(Marks)]
    BY <1>0, <2>1, <2>2 DEF TypeInv
  <2>4. got'[i] = <<>>
    BY <1>0, <2>1 DEF Staged
  <2> QED
    BY <1>0, <2>1, <2>3, <2>4, QuietShown
<1> QED
  BY <1>1, <1>2

LEMMA AttemptFailsShown ==
    ASSUME StoreInv, NEW i \in Calls, AttemptFails(i)
    PROVE  Shown
<1>1. pc[i] = "send" /\ Attempt(i, "error") /\ UNCHANGED <<disk, data, bucket>>
  BY DEF AttemptFails
<1>2. Kept
  BY <1>1, SameKept DEF StoreInv
<1> QED
  BY <1>1, <1>2, AttemptShown

(* What a download finds at its path is what it answers. *)
LEMMA HeldSeen ==
    ASSUME StoreInv, NEW i \in Calls, Busy(i), calls[i].op = "download"
    PROVE  Path(i) \in Paths /\ Held(Path(i)) \in calls[i].seen
           /\ Held(Path(i)) \in Marks \cup {None}
<1>1. Path(i) \in Paths /\ Downloading(i, Path(i))
  BY DEF StoreInv, Called, Downloading
<1> QED
  BY <1>1, HeldIs DEF StoreInv, Seen

LEMMA GetObjectShown ==
    ASSUME StoreInv, NEW i \in Calls, GetObject(i)
    PROVE  Shown
<1>1. pc[i] = "send" /\ Busy(i) /\ calls[i].op = "download" /\ UNCHANGED <<disk, bucket>> /\ Closed
  BY DEF GetObject, At, Busy
<1>2. Kept
  BY <1>1, ClosedKeeps DEF StoreInv
<1>3. Held(Path(i)) \in calls[i].seen /\ Held(Path(i)) \in Marks \cup {None}
  BY <1>1, HeldSeen
<1>4. CASE Held(Path(i)) # None
  <2>1. PICK v \in Marks : v = Held(Path(i))
    BY <1>3, <1>4
  <2>2. Reply(i, "ok", v)
    BY <1>4, <2>1 DEF GetObject
  <2>3. v # None /\ v \in calls[i].seen
    BY <1>3, <1>4, <2>1
  <2> QED
    BY <1>1, <1>2, <2>2, <2>3, LeaveShown
<1>5. CASE Held(Path(i)) = None
  <2>1. Attempt(i, "notfound")
    BY <1>5 DEF GetObject
  <2> QED
    BY <1>1, <1>2, <1>3, <1>5, <2>1, AttemptShown
<1> QED
  BY <1>4, <1>5

LEMMA DownloadShown ==
    ASSUME StoreInv, NEW i \in Calls, Download(i)
    PROVE  Shown
<1>1. pc[i] = "send" /\ Busy(i) /\ calls[i].op = "download" /\ UNCHANGED <<disk, bucket>> /\ Closed
  BY DEF Download, At, Busy
<1>2. Kept
  BY <1>1, ClosedKeeps DEF StoreInv
<1>3. Held(Path(i)) \in calls[i].seen /\ Held(Path(i)) \in Marks \cup {None}
  BY <1>1, HeldSeen
<1>4. CASE Held(Path(i)) # None
  <2>1. PICK v \in Marks : v = Held(Path(i))
    BY <1>3, <1>4
  <2>2. Reply(i, "ok", v)
    BY <1>4, <2>1 DEF Download
  <2>3. v # None /\ v \in calls[i].seen
    BY <1>3, <1>4, <2>1
  <2> QED
    BY <1>1, <1>2, <2>2, <2>3, LeaveShown
<1>5. CASE Held(Path(i)) = None
  <2>1. Reply(i, "notfound", None)
    BY <1>5 DEF Download
  <2> QED
    BY <1>1, <1>2, <1>3, <1>5, <2>1, LeaveShown
<1> QED
  BY <1>4, <1>5

LEMMA FindVersionShown ==
    ASSUME StoreInv, NEW i \in Calls, FindVersion(i)
    PROVE  Shown
<1>0. TypeInv /\ Called /\ Staged
  BY DEF StoreInv
<1>1. pc[i] = "find" /\ Busy(i) /\ calls[i].op = "delete" /\ Kind[Path(i)] = "backblaze"
      /\ UNCHANGED <<disk, bucket>> /\ Closed
  BY DEF FindVersion, At, Busy
<1>2. Kept /\ Path(i) \in Paths /\ Path(i) \in Remote /\ Path(i) \notin Local
  BY <1>0, <1>1, Kinds, ClosedKeeps DEF Called
<1>3. CASE Held(Path(i)) = None
  <2>1. Reply(i, "error", None)
    BY <1>3 DEF FindVersion
  <2> QED
    BY <1>1, <1>2, <2>1, ErrorShown
<1>4. CASE Held(Path(i)) # None
  <2>1. handle' = [handle EXCEPT ![i] = Last(bucket[Path(i)]).id] /\ Goto(i, "send")
        /\ UNCHANGED <<calls, tries, got>>
    BY <1>4 DEF FindVersion
  <2>2. bucket[Path(i)] \in Seq(Version) /\ bucket[Path(i)] # <<>>
    BY <1>0, <1>2, <1>4 DEF TypeInv, Held
  <2>3. Last(bucket[Path(i)]).id \in Ids \cup {None}
    BY <2>2, VersionSequences DEF Version
  <2>4. /\ tries' \in [Calls -> 1 .. Retries] /\ pc' \in [Calls -> Stages]
        /\ handle' \in [Calls -> Ids \cup {None}] /\ got' \in [Calls -> Seq(Marks)]
        /\ pc'[i] = "send"
        /\ \A j \in Calls : j # i =>
              pc'[j] = pc[j] /\ handle'[j] = handle[j] /\ got'[j] = got[j]
    BY <1>0, <2>1, <2>3 DEF TypeInv, Goto, Stages
  <2>5. got'[i] = <<>>
    BY <1>0, <1>1, <2>1 DEF Staged
  <2> QED
    BY <1>1, <1>2, <2>1, <2>4, <2>5, QuietShown
<1> QED
  BY <1>3, <1>4

(* An object of a bucket is put or removed. *)
LEMMA BucketChange ==
    ASSUME StoreInv, NEW i \in Calls, NEW at \in Remote, Path(i) = at, NEW s \in Seq(Version),
           bucket' = [bucket EXCEPT ![at] = s], UNCHANGED <<disk, data, handle, got>>,
           pc[i] = "send", calls[i].op # "download",
           Goto(i, "reply") \/ UNCHANGED pc, tries' \in [Calls -> 1 .. Retries],
           Changed(i, IF s = <<>> THEN None ELSE Last(s).value)
    PROVE  /\ StoreInv' /\ Store!Noticed(at, {i}) /\ Store!Becomes(at, Objects(s))
           /\ stored[at] = Objects(bucket[at])
<1>0. TypeInv /\ Called /\ Kept /\ at \in Paths /\ at \notin Local
  BY SameKept DEF StoreInv, Remote
<1> DEFINE v == IF s = <<>> THEN None ELSE Last(s).value
<1>1. v \in Values \cup {None} /\ v \in Marks \cup {None} /\ v # Torn
  BY VersionSequences, Apart, DistinctAssumption
<1>2. Changed(i, v)
  OBVIOUS
<1>3. /\ pc' \in [Calls -> Stages] /\ pc'[i] \in {"send", "reply"}
      /\ \A j \in Calls : j # i => pc'[j] = pc[j]
  BY <1>0 DEF TypeInv, Goto, Stages
<1>4. bucket' \in [Remote -> Seq(Version)] /\ bucket'[at] = s
      /\ \A x \in Remote : x # at => bucket'[x] = bucket[x]
  BY <1>0 DEF TypeInv
<1>5. TypeInv'
  BY <1>0, <1>1, <1>2, <1>3, <1>4, ChangedFields DEF TypeInv, Local, Remote, On
<1>6. \A x \in Paths : x # at => Held(x)' = Held(x) /\ stored'[x] = stored[x]
  BY <1>0, <1>4, SameHeld DEF TypeInv
<1>7. Held(at)' = v
  BY <1>0, <1>4 DEF Held
<1> HIDE DEF v
<1>8. StoreInv'
  BY <1>0, <1>1, <1>2, <1>3, <1>5, <1>6, <1>7, ChangeStep
<1>9. Busy(i)
  BY DEF Busy
<1>10. Store!Noticed(at, {i})
  <2>1. Store!Noticed(at, IF v = Torn THEN {} ELSE {i})
    BY <1>0, <1>1, <1>2, <1>5, <1>7, <1>9, Noticing
  <2> QED
    BY <1>1, <2>1
<1>11. stored'[at] = Objects(s) /\ stored[at] = Objects(bucket[at])
  BY <1>0, <1>4 DEF stored, Objects
<1> QED
  BY <1>0, <1>6, <1>8, <1>10, <1>11, Becoming

LEMMA UploadShown ==
    ASSUME StoreInv, NEW i \in Calls, Upload(i) \/ UploadUnanswered(i)
    PROVE  Shown
<1>0. TypeInv /\ Called
  BY DEF StoreInv
<1>1. /\ At(i, "send", "upload", {"aws-s3", "backblaze"})
      /\ \E id \in NewId(i) : PutObject(i, id)
      /\ Changed(i, Value(i)) /\ UNCHANGED <<disk, data, handle, got>>
      /\ Goto(i, "reply") \/ UNCHANGED pc
      /\ \/ UNCHANGED tries
         \/ tries[i] < Retries /\ tries' = [tries EXCEPT ![i] = @ + 1]
  BY DEF Upload, UploadUnanswered
<1>2. PICK at \in Paths : at = Path(i)
  BY <1>0, <1>1 DEF At, Called, Busy
<1>3. /\ pc[i] = "send" /\ calls[i].op = "upload" /\ Value(i) \in Values
      /\ at \in Remote /\ Busy(i)
  BY <1>0, <1>1, <1>2, Kinds DEF At, Called, Busy
<1>4. tries' \in [Calls -> 1 .. Retries]
  <2>1. tries[i] < Retries => tries[i] + 1 \in 1 .. Retries
    BY <1>0, RetriesAssumption DEF TypeInv
  <2> QED
    BY <1>0, <1>1, <2>1 DEF TypeInv
<1>5. PICK id \in Ids \cup {None} : PutObject(i, id)
  BY <1>1 DEF NewId, Free
<1>6. PICK new \in Version : new = [id |-> id, value |-> Value(i)]
  BY <1>3 DEF Version
<1>7. PICK old \in Seq(Version) : old = bucket[at]
  BY <1>0, <1>3 DEF TypeInv
<1>8. bucket' = [bucket EXCEPT ![at] = IF Kind[at] = "backblaze" THEN Append(old, new) ELSE <<new>>]
  BY <1>2, <1>5, <1>6, <1>7 DEF PutObject
<1>9. ASSUME NEW s \in Seq(Version), bucket' = [bucket EXCEPT ![at] = s],
             s # <<>>, Last(s) = new
      PROVE  /\ StoreInv' /\ Store!Noticed(at, {i}) /\ Store!Becomes(at, Objects(s))
             /\ stored[at] = Objects(old)
  <2>1. (IF s = <<>> THEN None ELSE Last(s).value) = Value(i)
    BY <1>6, <1>9
  <2>2. Changed(i, IF s = <<>> THEN None ELSE Last(s).value)
    BY <1>1, <2>1
  <2> QED
    BY <1>1, <1>2, <1>3, <1>4, <1>7, <1>9, <2>2, BucketChange
<1>10. new.value = Value(i)
  BY <1>6
<1>11. CASE Kind[at] = "backblaze"
  <2>1. PICK s \in Seq(Version) : s = Append(old, new)
    BY AppendProperties
  <2>2. s # <<>> /\ Last(s) = new
    BY <2>1, AppendProperties DEF Last
  <2>3. bucket' = [bucket EXCEPT ![at] = s]
    BY <1>8, <1>11, <2>1
  <2>4. Objects(s) = Append(Objects(old), Value(i))
    <3>1. PICK m \in Nat : m = Len(old) /\ DOMAIN old = 1 .. m
      OBVIOUS
    <3>2. Len(s) = m + 1 /\ (\A n \in 1 .. m : s[n] = old[n]) /\ s[m + 1] = new
          /\ DOMAIN s = 1 .. m + 1
      BY <2>1, <3>1, AppendProperties
    <3>3. Objects(old) \in Seq(Values) /\ Len(Objects(old)) = m
          /\ \A n \in 1 .. m : Objects(old)[n] = old[n].value
      BY <3>1, VersionSequences DEF Objects
    <3>4. Objects(s) \in Seq(Values) /\ Len(Objects(s)) = m + 1
          /\ \A n \in 1 .. m + 1 : Objects(s)[n] = s[n].value
      BY <3>2, VersionSequences DEF Objects
    <3>5. /\ Append(Objects(old), Value(i)) \in Seq(Values)
          /\ Len(Append(Objects(old), Value(i))) = m + 1
          /\ \A n \in 1 .. m : Append(Objects(old), Value(i))[n] = Objects(old)[n]
          /\ Append(Objects(old), Value(i))[m + 1] = Value(i)
      BY <1>3, <3>3, AppendProperties
    <3>6. ASSUME NEW n \in 1 .. m + 1
          PROVE  Objects(s)[n] = Append(Objects(old), Value(i))[n]
      <4>1. CASE n \in 1 .. m
        BY <3>2, <3>3, <3>4, <3>5, <4>1
      <4>2. CASE n = m + 1
        BY <1>10, <3>2, <3>4, <3>5, <4>2
      <4>3. \A k \in Nat : \A l \in 1 .. k + 1 : l \in 1 .. k \/ l = k + 1
        OBVIOUS
      <4> QED
        BY <4>1, <4>2, <4>3
    <3> QED
      BY <3>4, <3>5, <3>6, SeqEqual
  <2>5. at \in On("backblaze") /\ Store!Changing(i, at)
    BY <1>0, <1>2, <1>3, <1>11, Kinds, StoreChanging DEF Changing, Busy
  <2>6. StoreInv' /\ Store!Noticed(at, {i}) /\ Store!Becomes(at, Append(stored[at], Value(i)))
    BY <1>9, <2>2, <2>3, <2>4
  <2>7. Store!Put(i)
    BY <1>2, <1>3, <2>5, <2>6 DEF Store!Put, Path, Value
  <2> QED
    BY <2>6, <2>7 DEF Shown, Store!Next
<1>12. CASE Kind[at] # "backblaze"
  <2>1. PICK s \in Seq(Version) : s = <<new>>
    <3>1. <<new>> \in Seq(Version)
      OBVIOUS
    <3> QED
      BY <3>1, Zenon
  <2>2. s # <<>> /\ Last(s) = new
    BY <2>1 DEF Last
  <2>3. bucket' = [bucket EXCEPT ![at] = s]
    BY <1>8, <1>12, <2>1
  <2>4. Objects(s) = <<Value(i)>>
    BY <1>10, <2>1 DEF Objects
  <2>5. at \notin On("backblaze") /\ Store!Changing(i, at)
    BY <1>0, <1>2, <1>3, <1>12, Kinds, StoreChanging DEF Changing, Busy
  <2>6. StoreInv' /\ Store!Noticed(at, {i}) /\ Store!Becomes(at, <<Value(i)>>)
    BY <1>9, <2>2, <2>3, <2>4
  <2>7. Store!Put(i)
    BY <1>2, <1>3, <2>5, <2>6 DEF Store!Put, Path, Value
  <2> QED
    BY <2>6, <2>7 DEF Shown, Store!Next
<1> QED
  BY <1>11, <1>12

LEMMA DeleteObjectShown ==
    ASSUME StoreInv, NEW i \in Calls, DeleteObject(i)
    PROVE  Shown
<1>0. TypeInv /\ Called
  BY DEF StoreInv
<1>1. /\ pc[i] = "send" /\ calls[i].op = "delete" /\ Kind[Path(i)] = "aws-s3" /\ Busy(i)
      /\ bucket' = [bucket EXCEPT ![Path(i)] = <<>>] /\ Changed(i, None) /\ Goto(i, "reply")
      /\ UNCHANGED <<disk, data, tries, handle, got>>
  BY DEF DeleteObject, At, Busy
<1>2. PICK at \in Paths : at = Path(i)
  BY <1>0, <1>1 DEF Called
<1>3. at \in Remote /\ at \notin On("backblaze") /\ tries' \in [Calls -> 1 .. Retries]
  BY <1>0, <1>1, <1>2, Kinds DEF TypeInv
<1>4. PICK s \in Seq(Version) : s = <<>>
  BY EmptySeq, Zenon
<1>5. bucket' = [bucket EXCEPT ![at] = s]
      /\ Changed(i, IF s = <<>> THEN None ELSE Last(s).value)
  BY <1>1, <1>2, <1>4
<1>6. StoreInv' /\ Store!Noticed(at, {i}) /\ Store!Becomes(at, Objects(s))
  BY <1>1, <1>2, <1>3, <1>5, BucketChange
<1>7. Objects(s) = <<>>
  BY <1>4, VersionSequences
<1>8. Store!Changing(i, at)
  BY <1>0, <1>1, <1>2, StoreChanging DEF Changing, Busy
<1>9. Store!Delete(i)
  BY <1>1, <1>2, <1>3, <1>6, <1>7, <1>8 DEF Store!Delete, Path
<1> QED
  BY <1>6, <1>9 DEF Shown, Store!Next

LEMMA DeleteVersionShown ==
    ASSUME StoreInv, NEW i \in Calls, DeleteVersion(i)
    PROVE  Shown
<1>0. TypeInv /\ Called
  BY DEF StoreInv
<1>1. /\ pc[i] = "send" /\ calls[i].op = "delete" /\ Kind[Path(i)] = "backblaze" /\ Busy(i)
      /\ UNCHANGED <<disk, data>>
  BY DEF DeleteVersion, At, Busy
<1>2. PICK at \in Paths : at = Path(i)
  BY <1>0, <1>1 DEF Called
<1>3. at \in Remote /\ at \in On("backblaze")
  BY <1>1, <1>2, Kinds
<1>4. PICK old \in Seq(Version) : old = bucket[at]
  BY <1>0, <1>3 DEF TypeInv
<1> DEFINE found == {n \in DOMAIN old : old[n].id = handle[i]}
<1>5. CASE found = {}
  <2>1. Reply(i, "error", None) /\ UNCHANGED bucket
    BY <1>2, <1>4, <1>5 DEF DeleteVersion
  <2>2. Kept
    BY <1>0, <1>1, SameKept
  <2> QED
    BY <1>1, <2>1, <2>2, ErrorShown
<1>6. CASE found # {}
  <2>1. /\ \E n \in found :
               /\ bucket' = [bucket EXCEPT ![at] = RemoveAt(old, n)]
               /\ Changed(i, IF RemoveAt(old, n) = <<>> THEN None
                             ELSE Last(RemoveAt(old, n)).value)
        /\ Goto(i, "reply") /\ UNCHANGED <<tries, handle, got>>
    BY <1>2, <1>4, <1>6 DEF DeleteVersion
  <2>2. PICK n \in DOMAIN old :
            /\ bucket' = [bucket EXCEPT ![at] = RemoveAt(old, n)]
            /\ Changed(i, IF RemoveAt(old, n) = <<>> THEN None
                          ELSE Last(RemoveAt(old, n)).value)
    BY <2>1
  <2>3. PICK s \in Seq(Version) : s = RemoveAt(old, n)
    BY Removed
  <2>4. bucket' = [bucket EXCEPT ![at] = s]
        /\ Changed(i, IF s = <<>> THEN None ELSE Last(s).value)
        /\ tries' \in [Calls -> 1 .. Retries]
    BY <1>0, <2>1, <2>2, <2>3 DEF TypeInv
  <2>5. /\ StoreInv' /\ Store!Noticed(at, {i}) /\ Store!Becomes(at, Objects(s))
        /\ stored[at] = Objects(old)
    BY <1>1, <1>2, <1>3, <1>4, <2>1, <2>4, BucketChange
  <2>6. Objects(s) = RemoveAt(stored[at], n) /\ n \in DOMAIN stored[at]
    BY <2>3, <2>5, ObjectsRemoved DEF Objects
  <2>7. Store!Changing(i, at)
    BY <1>0, <1>1, <1>2, StoreChanging DEF Changing, Busy
  <2>8. Store!Becomes(at, Store!RemoveAt(stored[at], n))
    BY <2>5, <2>6, StoreSequences
  <2>9. Store!Delete(i)
    BY <1>1, <1>2, <1>3, <2>5, <2>6, <2>7, <2>8 DEF Store!Delete, Path
  <2> QED
    BY <2>5, <2>9 DEF Shown, Store!Next
<1> QED
  BY <1>5, <1>6

LEMMA RemoveFileShown ==
    ASSUME StoreInv, NEW i \in Calls, RemoveFile(i)
    PROVE  Shown
<1>0. TypeInv /\ Called
  BY DEF StoreInv
<1>1. /\ pc[i] = "remove" /\ calls[i].op = "delete" /\ Kind[Path(i)] = "local" /\ Busy(i)
      /\ disk' = [disk EXCEPT ![Path(i)] = None] /\ Changed(i, None) /\ Goto(i, "reply")
      /\ UNCHANGED <<bucket, tries, handle, got>> /\ Closed
  BY DEF RemoveFile, At, Busy
<1>2. PICK at \in Paths : at = Path(i)
  BY <1>0, <1>1 DEF Called
<1>3. at \in Local /\ at \notin On("backblaze") /\ Kept
  BY <1>0, <1>1, <1>2, Kinds, ClosedKeeps
<1>4. /\ pc' \in [Calls -> Stages] /\ pc'[i] = "reply"
      /\ \A j \in Calls : j # i => pc'[j] = pc[j]
  BY <1>0, <1>1 DEF TypeInv, Goto, Stages
<1>5. /\ disk' \in [Local -> Ids \cup {None}] /\ disk'[at] = None
      /\ \A x \in Local : x # at => disk'[x] = disk[x]
  BY <1>0, <1>1, <1>2, <1>3 DEF TypeInv
<1>6. TypeInv'
  BY <1>0, <1>1, <1>3, <1>4, <1>5, ChangedFields DEF TypeInv, Kept, Local, Remote, On
<1>7. \A x \in Local : disk'[x] # None => data'[disk'[x]] = data[disk'[x]]
  BY <1>3, <1>6, KeptFiles DEF TypeInv
<1>8. \A x \in Paths : x # at => Held(x)' = Held(x) /\ stored'[x] = stored[x]
  BY <1>0, <1>1, <1>5, <1>7, SameHeld
<1>9. Held(at)' = None /\ stored'[at] = <<>>
  BY <1>3, <1>5 DEF Held, stored
<1>10. StoreInv'
  <2>1. \A x \in Local : disk'[x] = disk[x] \/ (x = at /\ disk'[x] = None)
    BY <1>5
  <2> QED
    BY <1>1, <1>2, <1>3, <1>4, <1>6, <1>8, <1>9, <2>1, ChangeStep
<1>11. Store!Noticed(at, {i})
  <2>1. Store!Noticed(at, IF None = Torn THEN {} ELSE {i})
    BY <1>0, <1>1, <1>2, <1>6, <1>9, Noticing
  <2> QED
    BY <2>1, DistinctAssumption
<1>12. Store!Becomes(at, <<>>)
  BY <1>8, <1>9, Becoming
<1>13. Store!Changing(i, at)
  BY <1>0, <1>1, <1>2, StoreChanging DEF Changing, Busy
<1>14. Store!Delete(i)
  BY <1>1, <1>2, <1>3, <1>11, <1>12, <1>13 DEF Store!Delete, Path
<1> QED
  BY <1>10, <1>14 DEF Shown, Store!Next

(* The store of an upload of a local file: torn, or complete. *)
LEMMA WrittenShown ==
    ASSUME StoreInv, StoreInv', NEW i \in Calls, NEW at \in Local, Path(i) = at, Busy(i),
           calls[i].op = "upload", NEW v \in {Value(i), Torn}, Changed(i, v),
           disk'[at] # None, Contents(data[disk[at]])' = v,
           v = Torn => ~(calls[i].alone /\ calls[i].did),
           \A x \in Paths : x # at => Held(x)' = Held(x) /\ stored'[x] = stored[x]
    PROVE  Shown
<1>0. TypeInv /\ TypeInv' /\ Called /\ at \in Paths /\ at \notin On("backblaze")
  BY Kinds DEF StoreInv, Local, On
<1>1. v \in Marks \cup {None} /\ Value(i) \in Values
  BY <1>0, Apart DEF Called
<1>2. Held(at)' = v
  BY DEF Held
<1>8. stored'[at] = <<v>>
  BY <1>0, <1>2 DEF stored
<1>3. Store!Noticed(at, IF v = Torn THEN {} ELSE {i})
  BY <1>0, <1>1, <1>2, Noticing
<1>4. Store!Becomes(at, <<v>>)
  BY <1>0, <1>8, Becoming
<1>5. Store!Changing(i, at)
  BY <1>0, StoreChanging DEF Changing, Busy
<1>6. v = Torn => Store!Tear(i)
  BY <1>3, <1>4, <1>5 DEF Store!Tear, Path
<1>7. v # Torn => Store!Put(i)
  BY <1>0, <1>3, <1>4, <1>5 DEF Store!Put, Path, Value
<1> QED
  BY <1>6, <1>7 DEF Shown, Store!Next

LEMMA OverwrittenIs ==
    ASSUME NEW blocks \in Seq(Marks), NEW n \in Nat \ {0}, NEW u \in Marks
    PROVE  /\ Overwritten(blocks, n, u) \in Seq(Marks)
           /\ n \in 1 .. Len(Overwritten(blocks, n, u))
           /\ Overwritten(blocks, n, u)[n] = u
           /\ n = Len(blocks) + 1 => Overwritten(blocks, n, u) = Append(blocks, u)
<1>1. PICK m \in Nat : m = Len(blocks)
  OBVIOUS
<1>2. DOMAIN blocks = 1 .. m /\ \A k \in 1 .. m : blocks[k] \in Marks
  BY <1>1
<1>3. PICK l \in Nat : l = IF m < n THEN n ELSE m
  OBVIOUS
<1>4. n \in 1 .. l /\ (n = m + 1 => l = m + 1)
  BY <1>3
<1> DEFINE over == [k \in 1 .. l |->
                       IF k = n THEN u ELSE IF k \in DOMAIN blocks THEN blocks[k] ELSE Torn]
<1>5. Overwritten(blocks, n, u) = over
  BY <1>1, <1>3 DEF Overwritten
<1>6. \A k \in 1 .. l : over[k] \in Marks
  BY <1>2, Apart
<1>7. over \in Seq(Marks) /\ Len(over) = l
  BY <1>6
<1>8. over[n] = u
  BY <1>4
<1>9. ASSUME n = m + 1 PROVE over = Append(blocks, u)
  <2>1. /\ Append(blocks, u) \in Seq(Marks) /\ Len(Append(blocks, u)) = m + 1
        /\ \A k \in 1 .. m : Append(blocks, u)[k] = blocks[k]
        /\ Append(blocks, u)[m + 1] = u
    BY <1>1, AppendProperties
  <2>2. \A k \in 1 .. m + 1 : k = m + 1 \/ k \in 1 .. m
    OBVIOUS
  <2>3. \A k \in 1 .. m : k # m + 1 /\ k \in 1 .. m + 1
    OBVIOUS
  <2>4. \A k \in 1 .. l : over[k] = Append(blocks, u)[k]
    BY <1>2, <1>4, <1>9, <2>1, <2>2, <2>3
  <2> HIDE DEF over
  <2> QED
    BY <1>4, <1>7, <1>9, <2>1, <2>4, SeqEqual
<1> HIDE DEF over
<1> QED
  BY <1>1, <1>4, <1>5, <1>7, <1>8, <1>9

LEMMA OpenToWriteShown ==
    ASSUME StoreInv, Unfinished, NEW i \in Calls, OpenToWrite(i)
    PROVE  Shown
<1>0. TypeInv /\ Called /\ Staged /\ Owned
  BY DEF StoreInv
<1>1. /\ pc[i] = "open" /\ calls[i].op = "upload" /\ Kind[Path(i)] = "local" /\ Busy(i)
      /\ Changed(i, Torn) /\ Goto(i, "write") /\ UNCHANGED <<bucket, tries, got>>
  BY DEF OpenToWrite, At, Busy
<1>2. PICK at \in Paths : at = Path(i)
  BY <1>0, <1>1 DEF Called
<1>3. at \in Local /\ Value(i) \in Values /\ Torn \in Marks \cup {None}
  BY <1>0, <1>1, <1>2, Kinds, Apart DEF Called
<1>4. PICK f \in IF disk[at] = None THEN Free ELSE {disk[at]} :
          /\ disk' = [disk EXCEPT ![at] = f]
          /\ data' = [data EXCEPT ![f] = <<>>]
          /\ handle' = [handle EXCEPT ![i] = f]
  BY <1>2 DEF OpenToWrite
<1>5. f \in Ids /\ f # None /\ (disk[at] = None => f \notin Range(disk) /\ f \notin Range(handle))
  BY <1>0, <1>3, Apart DEF TypeInv, Free, InUse
<1>6. \A x \in Local : disk[x] = f => x = at
  BY <1>0, <1>3, <1>4, <1>5 DEF Owned, TypeInv, Range
<1>7. \A j \in Opened : handle[j] = f => Path(j) = at
  BY <1>0, <1>3, <1>4, <1>5 DEF Owned, TypeInv, Range, Opened
<1>8. <<>> \in Seq(Marks) /\ Len(<<>>) = 0
  OBVIOUS
<1>9. /\ disk' \in [Local -> Ids \cup {None}] /\ disk'[at] = f
      /\ \A x \in Local : x # at => disk'[x] = disk[x]
      /\ data' \in [Ids -> Seq(Marks)] /\ data'[f] = <<>>
      /\ \A g \in Ids : g # f => data'[g] = data[g]
      /\ handle' \in [Calls -> Ids \cup {None}] /\ handle'[i] = f
  BY <1>0, <1>3, <1>4, <1>5, <1>8 DEF TypeInv
<1>10. /\ pc' \in [Calls -> Stages] /\ pc'[i] = "write" /\ got' = got
       /\ \A j \in Calls : j # i => pc'[j] = pc[j] /\ handle'[j] = handle[j] /\ got'[j] = got[j]
  BY <1>0, <1>1, <1>4 DEF TypeInv, Goto, Stages
<1>11. TypeInv'
  BY <1>0, <1>1, <1>3, <1>9, <1>10, ChangedFields DEF TypeInv, Local, Remote, On
<1>12. \A j \in Calls : Meanwhile(j)
  BY <1>0, <1>1, <1>3, ChangedMeanwhile
<1>13. Contents(data[disk[at]])' = Torn
  <2>1. Contents(data'[disk'[at]]) = Torn
    BY <1>9, ContentsIs
  <2> QED
    BY <2>1 DEF Contents
<1>14. Held(at)' = Torn
  BY <1>3, <1>5, <1>9, <1>13 DEF Held
<1>15. \A j \in Calls : Downloading(j, at) => Torn \in calls'[j].seen
  <2>1. \A j \in Calls : Downloading(j, at) => j # i
    BY <1>1 DEF Downloading
  <2> QED
    BY <1>0, <1>1, <1>2, <1>3, <2>1, ChangedMeanwhile
<1>16. \A j \in Calls : Downloading(j, at) => ~Undisturbed(j)'
  BY <1>15 DEF Undisturbed
<1>17. got'[i] = <<>> /\ Len(got'[i]) < Blocks[Value(i)]
       /\ \A n \in 1 .. Len(got'[i]) : got'[i][n] = Value(i)
  <2>1. got'[i] = <<>>
    BY <1>0, <1>1 DEF Staged
  <2>2. Blocks[Value(i)] \in Nat \ {0}
    BY <1>3, BlocksAssumption
  <2> QED
    BY <1>8, <2>1, <2>2
<1>18. \A x \in Paths : x # at => Held(x)' = Held(x) /\ stored'[x] = stored[x]
  <2>1. \A x \in Local : x # at => (disk[x] # None => data'[disk[x]] = data[disk[x]])
    BY <1>0, <1>6, <1>9 DEF TypeInv
  <2> QED
    BY <1>0, <1>1, <1>9, <2>1, SameHeld
<1>19. StoreInv'
  <2>1. Held(at)' = Held(at) \/ \A j \in Calls : Downloading(j, at) => Held(at)' \in calls'[j].seen
    BY <1>14, <1>15
  <2>2. calls[i].alone => disk'[at] = f /\ data'[f] = got'[i]
    BY <1>9, <1>17
  <2> QED
    BY <1>1, <1>2, <1>3, <1>5, <1>6, <1>7, <1>9, <1>10, <1>11, <1>12, <1>16, <1>17,
       <2>1, <2>2, WriteStep
<1>20. ~(calls[i].alone /\ calls[i].did)
  BY <1>1 DEF Unfinished
<1> QED
  BY <1>1, <1>2, <1>3, <1>5, <1>9, <1>13, <1>18, <1>19, <1>20, WrittenShown

LEMMA WriteBlockShown ==
    ASSUME StoreInv, Unfinished, NEW i \in Calls, WriteBlock(i)
    PROVE  /\ Shown
           /\ pc'[i] = "write" /\ calls[i].alone => calls'[i] = calls[i]
           /\ \A j \in Calls : j # i => pc'[j] = pc[j]
           /\ calls' = calls \/ \E v \in Marks \cup {None} : Changed(i, v)
<1>0. TypeInv /\ Called /\ Staged /\ Owned /\ Alone /\ Seen
  BY DEF StoreInv
<1>1. pc[i] = "write" /\ calls[i].op = "upload" /\ Busy(i)
      /\ UNCHANGED <<disk, bucket, tries, handle>>
  BY DEF WriteBlock, At, Busy
<1>2. PICK at \in Local : at = Path(i)
  BY <1>0, <1>1 DEF Staged
<1>3. PICK f \in Ids : f = handle[i]
  BY <1>0, <1>1 DEF Staged
<1>4. PICK u \in Values : u = Value(i)
  BY <1>0, <1>1 DEF Called
<1>5. at \in Paths /\ u \in Marks /\ f # None /\ Changing(i, at) /\ i \in Opened
  BY <1>1, <1>2, Apart DEF Changing, Opened, Local, On
<1>6. PICK done \in Seq(Marks) : done = got[i]
  BY <1>0 DEF TypeInv
<1>7. PICK n \in Nat \ {0} : n = Len(done) + 1
  OBVIOUS
<1>8. Blocks[u] \in Nat /\ n <= Blocks[u] /\ \A k \in 1 .. Len(done) : done[k] = u
  <2>1. Blocks[u] \in Nat /\ Len(done) \in Nat
    BY BlocksAssumption
  <2>2. Len(done) < Blocks[u] /\ \A k \in 1 .. Len(done) : done[k] = u
    BY <1>0, <1>1, <1>4, <1>6 DEF Staged
  <2> QED
    BY <1>7, <2>1, <2>2
<1>9. PICK more \in Seq(Marks) : more = Append(done, u)
  BY <1>5, AppendProperties
<1>10. Len(more) = n /\ \A k \in 1 .. n : more[k] = u
  <2>1. Len(more) = Len(done) + 1 /\ more[Len(done) + 1] = u
        /\ \A k \in 1 .. Len(done) : more[k] = done[k]
    BY <1>5, <1>9, AppendProperties
  <2>2. \A k \in 1 .. n : k \in 1 .. Len(done) \/ k = Len(done) + 1
    BY <1>7
  <2> QED
    BY <1>7, <1>8, <2>1, <2>2
<1>11. PICK blocks \in Seq(Marks) : blocks = data[f]
  BY <1>0 DEF TypeInv
<1>12. PICK over \in Seq(Marks) : over = Overwritten(blocks, n, u)
  BY <1>5, OverwrittenIs
<1>13. n \in 1 .. Len(over) /\ over[n] = u /\ (n = Len(blocks) + 1 => over = Append(blocks, u))
  BY <1>5, <1>12, OverwrittenIs
<1>14. /\ data' = [data EXCEPT ![f] = over]
       /\ got' = [got EXCEPT ![i] = more]
       /\ IF disk[at] = f THEN Changed(i, Contents(data'[f])) ELSE UNCHANGED calls
       /\ Goto(i, IF n = Blocks[u] THEN "reply" ELSE "write")
  BY <1>2, <1>3, <1>4, <1>6, <1>7, <1>9, <1>11, <1>12 DEF WriteBlock
<1>15. /\ data' \in [Ids -> Seq(Marks)] /\ data'[f] = over
       /\ \A g \in Ids : g # f => data'[g] = data[g]
       /\ got' \in [Calls -> Seq(Marks)] /\ got'[i] = more
       /\ \A j \in Calls : j # i => got'[j] = got[j]
  BY <1>0, <1>14 DEF TypeInv
<1>16. /\ pc' \in [Calls -> Stages] /\ pc'[i] = IF n = Blocks[u] THEN "reply" ELSE "write"
       /\ \A j \in Calls : j # i => pc'[j] = pc[j]
  BY <1>0, <1>14 DEF TypeInv, Goto, Stages
<1>17. PICK v \in {u, Torn} : v = Contents(over)
  BY <1>13, ContentsIs
<1>18. v \in Marks \cup {None} /\ (disk[at] = f => Changed(i, v)) /\ (disk[at] # f => UNCHANGED calls)
  BY <1>5, <1>14, <1>15, <1>17, Apart
<1>19. calls' \in [Calls -> CallStates]
  BY <1>0, <1>18, ChangedFields DEF TypeInv
<1>20. TypeInv'
  BY <1>0, <1>1, <1>15, <1>16, <1>19 DEF TypeInv, Local, Remote, On
<1>21. \A j \in Calls : Meanwhile(j)
  <2>1. CASE disk[at] = f
    BY <1>0, <1>18, <2>1, ChangedMeanwhile
  <2>2. CASE disk[at] # f
    BY <1>18, <2>2 DEF Meanwhile
  <2> QED
    BY <2>1, <2>2
<1>22. Contents(data[f])' = v
  <2>1. Contents(data'[f]) = v
    BY <1>15, <1>17
  <2> QED
    BY <2>1 DEF Contents
<1>23. /\ \A x \in Local : disk[x] = f => x = at
       /\ \A j \in Opened : handle[j] = f => Path(j) = at
  BY <1>0, <1>2, <1>3, <1>5 DEF Owned
<1>24. \A x \in Paths : x # at \/ disk[at] # f => Held(x)' = Held(x) /\ stored'[x] = stored[x]
  <2>1. \A x \in Local : x # at \/ disk[at] # f =>
            (disk[x] # None => data'[disk[x]] = data[disk[x]])
    BY <1>0, <1>15, <1>23 DEF TypeInv
  <2> QED
    BY <1>0, <1>1, <2>1, SameHeld
<1>25. disk[at] = f => Held(at)' = v
  BY <1>1, <1>5, <1>22 DEF Held
<1>26. \A j \in Calls : Downloading(j, at) => ~Undisturbed(j)'
  <2> SUFFICES ASSUME NEW j \in Calls, Downloading(j, at), Undisturbed(j)' PROVE FALSE
    OBVIOUS
  <2>1. Undisturbed(j)
    BY <1>21 DEF Undisturbed, Meanwhile
  <2> QED
    BY <1>0, <1>1, <1>5, <2>1 DEF Seen
<1>27. Held(at)' = Held(at) \/ \A j \in Calls : Downloading(j, at) => Held(at)' \in calls'[j].seen
  <2>1. CASE disk[at] = f
    <3>1. \A j \in Calls : Downloading(j, at) => j # i
      BY <1>1 DEF Downloading
    <3> QED
      BY <1>0, <1>2, <1>18, <1>25, <2>1, <3>1, ChangedMeanwhile
  <2>2. CASE disk[at] # f
    BY <1>5, <1>24, <2>2
  <2> QED
    BY <2>1, <2>2
<1>28. ASSUME calls[i].alone PROVE disk[at] = f /\ over = more
  <2>1. disk[at] = f /\ blocks = done
    BY <1>0, <1>1, <1>3, <1>5, <1>6, <1>11, <1>28 DEF Alone
  <2> QED
    BY <1>7, <1>9, <1>13, <2>1
<1>29. pc'[i] = "write" =>
           /\ Len(got'[i]) < Blocks[Value(i)]
           /\ \A k \in 1 .. Len(got'[i]) : got'[i][k] = Value(i)
           /\ calls[i].alone => disk'[at] = f /\ data'[f] = got'[i]
  <2>1. n # Blocks[u] => n < Blocks[u]
    BY <1>8
  <2> QED
    BY <1>1, <1>4, <1>10, <1>15, <1>16, <1>28, <2>1
<1>30. ASSUME pc'[i] = "reply" PROVE calls'[i].did \/ ~calls[i].alone
  <2> SUFFICES ASSUME calls[i].alone PROVE calls'[i].did
    OBVIOUS
  <2>1. n = Blocks[u] /\ Changed(i, v) /\ over = more
    BY <1>16, <1>18, <1>28, <1>30
  <2>2. v = u /\ v # Torn
    BY <1>10, <1>17, <2>1, ContentsIs, Apart
  <2> QED
    BY <1>0, <1>18, <2>1, <2>2, ChangedFields
<1>31. StoreInv'
  <2>1. handle'[i] = f /\ disk'[at] \in {disk[at], f} /\ pc'[i] \in {"write", "reply"}
        /\ \A x \in Local : x # at => disk'[x] = disk[x]
    BY <1>1, <1>3, <1>16
  <2>2. \A j \in Calls : j # i => pc'[j] = pc[j] /\ handle'[j] = handle[j] /\ got'[j] = got[j]
    BY <1>1, <1>15, <1>16
  <2> QED
    BY <1>1, <1>2, <1>15, <1>20, <1>21, <1>23, <1>26, <1>27, <1>29, <1>30, <2>1, <2>2, WriteStep
<1>32. ASSUME disk[at] = f PROVE Shown
  <2>1. Contents(data[disk[at]])' = v /\ disk'[at] # None
    BY <1>1, <1>5, <1>22, <1>32
  <2>2. ~(calls[i].alone /\ calls[i].did)
    BY <1>1 DEF Unfinished
  <2> QED
    BY <1>1, <1>2, <1>4, <1>17, <1>18, <1>24, <1>31, <1>32, <2>1, <2>2, WrittenShown
<1>33. ASSUME disk[at] # f PROVE Shown
  <2>1. stored = [x \in Paths |-> stored[x]] /\ stored' = [x \in Paths |-> stored'[x]]
    BY DEF stored
  <2> HIDE DEF stored
  <2>2. UNCHANGED stored
    BY <1>24, <1>33, <2>1
  <2> QED
    BY <1>18, <1>31, <1>33, <2>2 DEF Shown
<1>34. ASSUME pc'[i] = "write", calls[i].alone PROVE calls'[i] = calls[i]
  <2>1. n # Blocks[u] /\ Changed(i, v) /\ over = more
    BY <1>16, <1>18, <1>28, <1>34
  <2>2. v = Torn
    BY <1>10, <1>17, <2>1, ContentsIs
  <2> QED
    BY <1>0, <1>18, <2>1, <2>2, ChangedFields
<1> QED
  BY <1>16, <1>18, <1>32, <1>33, <1>34

-----------------------------------------------------------------------------
LEMMA Initially == Init => StoreInv
<1> SUFFICES ASSUME Init PROVE StoreInv
  OBVIOUS
<1>1. Idle \in CallStates
  BY DEF Idle, CallStates, Replies
<1>2. TypeInv
  BY <1>1, RetriesAssumption DEF Init, TypeInv, Stages
<1>3. \A i \in Calls : pc[i] = "idle" /\ calls[i] = Idle /\ got[i] = <<>>
  BY DEF Init
<1>4. Called /\ Staged /\ Opened = {}
  BY <1>3 DEF Called, Staged, Opened, Busy, Idle
<1>5. Owned
  BY <1>4 DEF Init, Owned
<1>6. Alone /\ Seen
  BY <1>3 DEF Alone, Seen, Changing, Downloading, Busy
<1> QED
  BY <1>2, <1>4, <1>5, <1>6 DEF StoreInv

LEMMA Always == StoreInv /\ Unfinished /\ [Next]_vars => Shown
<1> SUFFICES ASSUME StoreInv, Unfinished, [Next]_vars PROVE Shown
  OBVIOUS
<1>1. CASE UNCHANGED vars
  <2>1. StoreInv'
    <3>1. TypeInv' /\ Called' /\ Staged'
      BY <1>1 DEF vars, StoreInv, TypeInv, Called, Staged, Busy, Path, Value, Local, Remote, On
    <3>2. Owned'
      BY <1>1 DEF vars, StoreInv, Owned, Opened, Path
    <3>3. Alone'
      BY <1>1 DEF vars, StoreInv, Alone, Changing, Path
    <3>4. Seen'
      <4>1. \A j \in Calls, x \in Paths :
                /\ Changing(j, x)' <=> Changing(j, x)
                /\ Downloading(j, x)' <=> Downloading(j, x)
                /\ Undisturbed(j)' <=> Undisturbed(j)
        BY <1>1 DEF vars, Changing, Downloading, Undisturbed, Busy, Path
      <4>2. \A j \in Calls, x \in Paths :
                Held(x)' = Held(x) /\ Contents(data[handle[j]])' = Contents(data[handle[j]])
        BY <1>1 DEF vars, Held, Contents
      <4> QED
        BY <1>1, <4>1, <4>2 DEF vars, StoreInv, Seen
    <3> QED
      BY <3>1, <3>2, <3>3, <3>4 DEF StoreInv
  <2>2. UNCHANGED <<stored, calls>>
    BY <1>1 DEF vars, stored, Held, Contents
  <2> QED
    BY <2>1, <2>2 DEF Shown
<1>2. ASSUME NEW i \in Calls, Start(i) \/ Step(i) \/ Fails(i) PROVE Shown
  <2>1. CASE Start(i)
    BY <2>1, StartShown
  <2>2. CASE Fails(i) \/ CopyFails(i)
    BY <2>2, FailsShown
  <2>3. CASE OpenToWrite(i)
    BY <2>3, OpenToWriteShown
  <2>4. CASE WriteBlock(i)
    BY <2>4, WriteBlockShown
  <2>5. CASE OpenToRead(i)
    BY <2>5, OpenToReadShown
  <2>6. CASE ReadBlock(i)
    BY <2>6, ReadBlockShown
  <2>7. CASE RemoveFile(i)
    BY <2>7, RemoveFileShown
  <2>8. CASE Upload(i) \/ UploadUnanswered(i)
    BY <2>8, UploadShown
  <2>9. CASE GetObject(i)
    BY <2>9, GetObjectShown
  <2>10. CASE Download(i)
    BY <2>10, DownloadShown
  <2>11. CASE AttemptFails(i)
    BY <2>11, AttemptFailsShown
  <2>12. CASE DeleteObject(i)
    BY <2>12, DeleteObjectShown
  <2>13. CASE FindVersion(i)
    BY <2>13, FindVersionShown
  <2>14. CASE DeleteVersion(i)
    BY <2>14, DeleteVersionShown
  <2>15. CASE Stored(i)
    BY <2>15, StoredShown
  <2> QED
    BY <1>2, <2>1, <2>2, <2>3, <2>4, <2>5, <2>6, <2>7, <2>8, <2>9, <2>10, <2>11, <2>12,
       <2>13, <2>14, <2>15 DEF Step
<1> QED
  BY <1>1, <1>2 DEF Next

LEMMA OthersUnfinished ==
    ASSUME TypeInv, Unfinished, NEW i \in Calls, \A j \in Calls : j # i => pc'[j] = pc[j],
           calls' = calls \/ \E v \in Marks \cup {None} : Changed(i, v)
    PROVE  \A j \in Calls : j # i /\ pc'[j] \in {"open", "write"} /\ calls'[j].alone => ~calls'[j].did
<1> SUFFICES ASSUME NEW j \in Calls, j # i, pc'[j] \in {"open", "write"}, calls'[j].alone
             PROVE  ~calls'[j].did
  OBVIOUS
<1>1. calls[j] \in CallStates
  BY DEF TypeInv
<1>2. ASSUME NEW v \in Marks \cup {None}, Changed(i, v)
      PROVE  calls'[j].did = calls[j].did /\ calls'[j].alone = calls[j].alone
  <2> DEFINE c == [calls[j] EXCEPT !.seen = @ \cup {v}]
  <2>1. c.did = calls[j].did /\ c.alone = calls[j].alone
    BY <1>1 DEF CallStates
  <2> HIDE DEF c
  <2>2. calls'[j] = c \/ calls'[j] = calls[j]
    BY <1>2, ChangedFields DEF c
  <2> QED
    BY <2>1, <2>2
<1>3. calls'[j].did = calls[j].did /\ calls'[j].alone = calls[j].alone
  BY <1>2
<1> QED
  BY <1>3 DEF Unfinished

LEMMA StaysUnfinished == StoreInv /\ Unfinished /\ [Next]_vars => Unfinished'
<1> SUFFICES ASSUME StoreInv, Unfinished, [Next]_vars PROVE Unfinished'
  OBVIOUS
<1>0. TypeInv
  BY DEF StoreInv
<1>1. CASE UNCHANGED vars
  BY <1>1 DEF vars, Unfinished
<1>2. ASSUME NEW i \in Calls, Start(i) PROVE Unfinished'
  <2> SUFFICES ASSUME NEW j \in Calls, pc'[j] \in {"open", "write"}, calls'[j].alone
               PROVE  ~calls'[j].did
    BY DEF Unfinished
  <2>1. CASE j = i
    BY <1>0, <1>2, <2>1, Started
  <2>2. CASE j # i
    <3>1. calls[j] \in CallStates
      BY <1>0 DEF TypeInv
    <3> DEFINE c == [calls[j] EXCEPT !.alone = FALSE]
    <3>2. ~c.alone
      BY <3>1 DEF CallStates
    <3> HIDE DEF c
    <3>3. pc'[j] = pc[j] /\ (calls'[j] = c \/ calls'[j] = calls[j])
      BY <1>0, <1>2, <2>2, Started DEF c
    <3> QED
      BY <3>2, <3>3 DEF Unfinished
  <2> QED
    BY <2>1, <2>2
<1>3. ASSUME NEW i \in Calls, NEW res, NEW v, Reply(i, res, v) PROVE Unfinished'
  <2>1. pc'[i] = "idle" /\ \A j \in Calls : j # i => pc'[j] = pc[j] /\ calls'[j] = calls[j]
    BY <1>0, <1>3 DEF Reply, Goto, TypeInv
  <2> SUFFICES ASSUME NEW j \in Calls, pc'[j] \in {"open", "write"}, calls'[j].alone
               PROVE  ~calls'[j].did
    BY DEF Unfinished
  <2>2. j # i
    BY <2>1
  <2>3. pc[j] \in {"open", "write"} /\ calls'[j] = calls[j]
    BY <2>1, <2>2
  <2>4. calls[j].alone => ~calls[j].did
    BY <2>3 DEF Unfinished
  <2> QED
    BY <2>3, <2>4, Zenon
<1>4. ASSUME NEW i \in Calls, pc' = [pc EXCEPT ![i] = pc'[i]], pc'[i] \notin {"open", "write"},
             calls' = calls \/ \E v \in Marks \cup {None} : Changed(i, v)
      PROVE  Unfinished'
  <2>1. \A j \in Calls : j # i => pc'[j] = pc[j]
    BY <1>0, <1>4 DEF TypeInv
  <2>2. \A j \in Calls : j # i /\ pc'[j] \in {"open", "write"} /\ calls'[j].alone => ~calls'[j].did
    BY <1>0, <1>4, <2>1, OthersUnfinished
  <2> QED
    BY <1>4, <2>2 DEF Unfinished
<1>5. ASSUME NEW i \in Calls, OpenToWrite(i) PROVE Unfinished'
  <2>1. pc[i] = "open" /\ Changed(i, Torn) /\ Torn \in Marks \cup {None}
        /\ \A j \in Calls : j # i => pc'[j] = pc[j]
    BY <1>0, <1>5, Apart DEF OpenToWrite, At, Goto, TypeInv
  <2>2. calls'[i] = calls[i]
    BY <1>0, <2>1, ChangedFields
  <2>3. \A j \in Calls : j # i /\ pc'[j] \in {"open", "write"} /\ calls'[j].alone => ~calls'[j].did
    BY <1>0, <2>1, OthersUnfinished
  <2> QED
    BY <2>1, <2>2, <2>3 DEF Unfinished
<1>6. ASSUME NEW i \in Calls, WriteBlock(i) PROVE Unfinished'
  <2>1. /\ pc'[i] = "write" /\ calls[i].alone => calls'[i] = calls[i]
        /\ \A j \in Calls : j # i => pc'[j] = pc[j]
        /\ calls' = calls \/ \E v \in Marks \cup {None} : Changed(i, v)
    BY <1>6, WriteBlockShown
  <2>2. pc[i] = "write" /\ pc'[i] \in {"write", "reply"} /\ calls'[i].alone = calls[i].alone
    <3>1. pc[i] = "write" /\ pc'[i] \in {"write", "reply"}
      BY <1>0, <1>6 DEF WriteBlock, At, Goto, TypeInv
    <3> QED
      BY <1>0, <2>1, <3>1, ChangedFields
  <2>3. \A j \in Calls : j # i /\ pc'[j] \in {"open", "write"} /\ calls'[j].alone => ~calls'[j].did
    BY <1>0, <2>1, OthersUnfinished
  <2> QED
    BY <2>1, <2>2, <2>3 DEF Unfinished
<1>7. ASSUME NEW i \in Calls, pc[i] # "idle", UNCHANGED pc, pc[i] \notin {"open", "write"},
             calls' = calls \/ \E v \in Marks \cup {None} : Changed(i, v)
      PROVE  Unfinished'
  BY <1>0, <1>7, OthersUnfinished DEF Unfinished
<1>8. ASSUME NEW i \in Calls, Step(i) \/ Fails(i) PROVE Unfinished'
  <2>1. None \in Marks \cup {None} /\ Busy(i) => TRUE
    OBVIOUS
  <2>2. CASE Fails(i) \/ CopyFails(i) \/ Stored(i)
    BY <1>3, <2>2 DEF Fails, CopyFails, Stored
  <2>3. CASE OpenToWrite(i) \/ WriteBlock(i)
    BY <1>5, <1>6, <2>3
  <2>4. CASE OpenToRead(i) \/ ReadBlock(i) \/ FindVersion(i) \/ Download(i)
    BY <1>0, <1>3, <1>4, <1>7, <2>4
       DEF OpenToRead, ReadBlock, FindVersion, Download, At, Goto, TypeInv
  <2>5. CASE GetObject(i) \/ AttemptFails(i)
    BY <1>0, <1>3, <1>7, <2>5 DEF GetObject, AttemptFails, Attempt, At
  <2>6. CASE RemoveFile(i) \/ DeleteObject(i)
    BY <1>0, <1>4, <2>6 DEF RemoveFile, DeleteObject, At, Goto, TypeInv
  <2>7. ASSUME NEW v \in Marks \cup {None}, Changed(i, v), Goto(i, "reply") PROVE Unfinished'
    BY <1>0, <1>4, <2>7 DEF Goto, TypeInv
  <2>8. CASE Upload(i) \/ UploadUnanswered(i)
    <3>1. Value(i) \in Marks \cup {None}
      BY <1>0 DEF TypeInv, CallStates, Value, Marks
    <3> QED
      BY <1>7, <2>7, <2>8, <3>1 DEF Upload, UploadUnanswered, At
  <2>9. CASE DeleteVersion(i)
    <3>1. PICK x : x = Path(i)
      OBVIOUS
    <3>2. x \in Remote
      BY <1>0, <2>9, <3>1, Kinds DEF DeleteVersion, At, StoreInv, Called, Busy
    <3>3. ASSUME NEW n \in DOMAIN bucket[x], RemoveAt(bucket[x], n) # <<>>
          PROVE  Last(RemoveAt(bucket[x], n)).value \in Marks
      <4>1. RemoveAt(bucket[x], n) \in Seq(Version)
        BY <1>0, <3>2, Removed DEF TypeInv
      <4> QED
        BY <3>3, <4>1, VersionSequences, Apart
    <3>4. CASE Reply(i, "error", None)
      BY <1>3, <3>4
    <3>5. CASE ~Reply(i, "error", None)
      <4>1. PICK n \in DOMAIN bucket[x] :
                LET rest == RemoveAt(bucket[x], n) IN
                Changed(i, IF rest = <<>> THEN None ELSE Last(rest).value)
        BY <2>9, <3>1, <3>5 DEF DeleteVersion
      <4>2. Goto(i, "reply")
        BY <2>9, <3>5 DEF DeleteVersion
      <4>3. \E v \in Marks \cup {None} : Changed(i, v)
        BY <3>3, <4>1
      <4> QED
        BY <2>7, <4>2, <4>3
    <3> QED
      BY <3>4, <3>5
  <2> QED
    BY <1>8, <2>2, <2>3, <2>4, <2>5, <2>6, <2>8, <2>9 DEF Step
<1> QED
  BY <1>1, <1>2, <1>8 DEF Next

LEMMA Invariant == Spec => [](StoreInv /\ Unfinished)
<1>1. StoreInv /\ Unfinished /\ [Next]_vars => StoreInv'
  BY Always DEF Shown
<1>2. Init => Unfinished
  BY DEF Init, Unfinished
<1> QED
  BY <1>1, <1>2, Initially, StaysUnfinished, PTL DEF Spec

(***************************************************************************)
(* Files hold what uploads wrote, versions have the values of uploads, and *)
(* no loop makes more than Retries attempts (BlobStores.TypeOK).           *)
(***************************************************************************)
THEOREM TypeCorrect == Spec => []TypeOK
<1>1. TypeInv => TypeOK
  <2> SUFFICES ASSUME TypeInv PROVE TypeOK
    OBVIOUS
  <2>1. \A f \in Ids : Range(data[f]) \subseteq Values \cup {Torn}
    <3> SUFFICES ASSUME NEW f \in Ids, NEW n \in DOMAIN data[f] PROVE data[f][n] \in Values \cup {Torn}
      BY DEF Range
    <3>1. data[f] \in Seq(Marks)
      BY DEF TypeInv
    <3> QED
      BY <3>1 DEF Marks
  <2>2. \A x \in Remote : \A n \in DOMAIN bucket[x] :
            bucket[x][n].id \in Ids \cup {None} /\ bucket[x][n].value \in Values
    <3> SUFFICES ASSUME NEW x \in Remote, NEW n \in DOMAIN bucket[x]
                 PROVE  bucket[x][n].id \in Ids \cup {None} /\ bucket[x][n].value \in Values
      OBVIOUS
    <3>1. bucket[x] \in Seq(Version)
      BY DEF TypeInv
    <3>2. bucket[x][n] \in Version
      BY <3>1
    <3> QED
      BY <3>2 DEF Version
  <2>3. \A i \in Calls :
            calls[i].path \in Paths \cup {None} /\ calls[i].value \in Values \cup {None, Torn}
    BY DEF TypeInv, CallStates
  <2> QED
    BY <2>1, <2>2, <2>3 DEF TypeInv, TypeOK, Stages
<1> QED
  BY <1>1, Invariant, PTL DEF StoreInv

(***************************************************************************)
(* The plugins are the store that the commands take them for               *)
(* (BlobStores.ImplementsStore): with any number of handlers on a path,    *)
(* blocks, retries, lost answers and versions look like objects put,       *)
(* removed or torn while the call runs, and what a call answers is true.   *)
(***************************************************************************)
THEOREM StoreImplemented == Spec => ImplementsStore
<1>1. Init => Store!Init
  <2> SUFFICES ASSUME Init PROVE Store!Init
    OBVIOUS
  <2>1. stored = [x \in Paths |-> <<>>]
    <3>1. \A x \in Local : disk[x] = None
      BY DEF Init
    <3>2. \A x \in Paths \ Local : [n \in DOMAIN bucket[x] |-> bucket[x][n].value] = <<>>
      <4>1. \A x \in Paths \ Local : bucket[x] = <<>>
        BY DEF Init, Remote
      <4>2. Objects(<<>>) = <<>>
        BY EmptySeq, VersionSequences
      <4> QED
        BY <4>1, <4>2 DEF Objects
    <3> QED
      BY <3>1, <3>2 DEF stored
  <2> QED
    BY <2>1 DEF Init, Store!Init, Idle, Store!Idle
<1>2. StoreInv /\ Unfinished /\ [Next]_vars => [Store!Next]_<<stored, calls>>
  BY Always DEF Shown
<1> QED
  BY <1>1, <1>2, Invariant, PTL DEF Spec, ImplementsStore, Store!Spec

-----------------------------------------------------------------------------
(* An effect lasts as long as the call that brought it runs, if no other    *)
(* call changes its path.                                                   *)
Lasting ==
    \A i \in Calls :
        /\ calls[i].res = "running" /\ calls[i].op # "download"
        /\ calls[i].alone /\ calls[i].did
        => Store!InEffect(i)

LEMMA StoredTyped == TypeInv => stored \in [Paths -> Seq(Marks)]
<1> SUFFICES ASSUME TypeInv, NEW x \in Paths PROVE stored[x] \in Seq(Marks)
  BY DEF stored
<1>1. CASE x \in Local
  <2>1. stored[x] = IF disk[x] = None THEN <<>> ELSE <<Held(x)>>
    BY <1>1 DEF stored
  <2>2. disk[x] # None => Held(x) \in Marks
    BY <1>1, HeldIs
  <2>3. <<>> \in Seq(Marks) /\ \A m \in Marks : <<m>> \in Seq(Marks)
    OBVIOUS
  <2> HIDE DEF stored
  <2> QED
    BY <2>1, <2>2, <2>3
<1>2. CASE x \notin Local
  <2>1. x \in Remote /\ bucket[x] \in Seq(Version) /\ stored[x] = Objects(bucket[x])
    BY <1>2, HeldIs DEF TypeInv, Remote
  <2>2. stored[x] \in Seq(Values)
    BY <2>1, VersionSequences
  <2> QED
    BY <2>2, Apart
<1> QED
  BY <1>1, <1>2

(* A change of path x leaves alone what other calls have brought about.     *)
LEMMA ChangeLasting ==
    ASSUME StoreInv, Lasting, NEW i \in Calls, NEW x, Store!Changing(i, x), x = calls[i].path,
           NEW s, Store!Becomes(x, s), NEW done \in SUBSET {i}, Store!Noticed(x, done),
           calls[i].alone /\ (i \in done \/ calls[i].did) => Store!InEffect(i)'
    PROVE  /\ Lasting'
           /\ \A j \in Calls : calls'[j].res = calls[j].res
<1>0. TypeInv /\ Called /\ Alone /\ stored \in [Paths -> Seq(Marks)]
  BY StoredTyped DEF StoreInv
<1>1. \A j \in Calls : calls[j] \in CallStates
  BY <1>0 DEF TypeInv
<1>2. x \in Paths /\ Changing(i, x)
  <2>1. x \in Paths
    BY <1>0 DEF Store!Changing, Called, Path
  <2> QED
    BY <1>0, <2>1, StoreChanging
<1>3. calls[i].op # "download"
  BY DEF Store!Changing
<1>4. ASSUME NEW j \in Calls
      PROVE  /\ calls'[j].op = calls[j].op /\ calls'[j].path = calls[j].path
             /\ calls'[j].value = calls[j].value /\ calls'[j].alone = calls[j].alone
             /\ calls'[j].res = calls[j].res
             /\ j \notin done => calls'[j].did = calls[j].did
  <2> DEFINE e(v) == IF v = <<>> THEN None ELSE Store!Last(v)
             c == [calls[j] EXCEPT !.did = TRUE]
             d == [calls[j] EXCEPT !.seen = @ \cup {e(stored'[x])}]
  <2>1. /\ c.op = calls[j].op /\ c.path = calls[j].path /\ c.value = calls[j].value
        /\ c.alone = calls[j].alone /\ c.res = calls[j].res
    BY <1>1 DEF CallStates
  <2>2. /\ d.op = calls[j].op /\ d.path = calls[j].path /\ d.value = calls[j].value
        /\ d.alone = calls[j].alone /\ d.res = calls[j].res /\ d.did = calls[j].did
    BY <1>1 DEF CallStates
  <2>3. (j \in done /\ calls'[j] = c) \/ (j \notin done /\ calls'[j] \in {d, calls[j]})
    BY DEF Store!Noticed
  <2> HIDE DEF c, d
  <2>4. CASE j \in done /\ calls'[j] = c
    BY <2>1, <2>4
  <2>5. CASE j \notin done /\ calls'[j] \in {d, calls[j]}
    BY <2>2, <2>5
  <2> QED
    BY <2>3, <2>4, <2>5
<1>5. ASSUME NEW j \in Calls, calls'[j].res = "running", calls'[j].op # "download",
             calls'[j].alone, calls'[j].did
      PROVE  Store!InEffect(j)'
  <2>1. CASE j = i
    <3>1. calls[i].alone /\ (i \in done \/ calls[i].did)
      BY <1>4, <1>5, <2>1
    <3> QED
      BY <2>1, <3>1
  <2>2. CASE j # i
    <3>1. PICK y : y = calls[j].path
      OBVIOUS
    <3>2. /\ calls[j].res = "running" /\ calls[j].op # "download" /\ calls[j].alone
          /\ calls[j].did
      BY <1>4, <1>5, <2>2
    <3>3. Store!InEffect(j)
      BY <3>2 DEF Lasting
    <3>4. y \in Paths /\ Changing(j, y)
      BY <1>0, <3>1, <3>2 DEF Called, Changing, Path, Busy
    <3>5. y # x
      BY <1>0, <1>2, <2>2, <3>2, <3>4 DEF Alone
    <3>6. stored'[y] = stored[y]
      BY <1>0, <1>2, <3>4, <3>5 DEF Store!Becomes
    <3>7. Store!Current(y)' = Store!Current(y)
      BY <3>6 DEF Store!Current
    <3>8. calls'[j].op = calls[j].op /\ calls'[j].path = y /\ calls'[j].value = calls[j].value
      BY <1>4, <3>1
    <3> QED
      BY <3>1, <3>3, <3>7, <3>8 DEF Store!InEffect, Store!Current
  <2> QED
    BY <2>1, <2>2
<1> QED
  BY <1>4, <1>5 DEF Lasting

(* What a step of the store does to effects that last, and when a call may  *)
(* report success.                                                          *)
EffectsLast ==
    /\ Lasting'
    /\ \A j \in Calls :
          /\ calls[j].res = "running" /\ calls'[j].res = "ok" /\ calls[j].alone
          => Store!InEffect(j)

LEMMA BegunLasting ==
    ASSUME StoreInv, Lasting, NEW i \in Calls, Store!Start(i)
    PROVE  EffectsLast
<1>0. \A j \in Calls : calls[j] \in CallStates
  BY DEF StoreInv, TypeInv
<1>1. PICK op \in {"upload", "download", "delete"}, x \in Paths :
      \E v \in IF op = "upload" THEN Values ELSE {None} :
          calls' = [j \in Calls |->
             IF j = i
             THEN [op |-> op, path |-> x, value |-> v, did |-> FALSE,
                   alone |-> \A k \in Calls :
                       Store!Changing(k, x) => op = "download" /\ calls[k].alone,
                   seen |-> IF op = "download" THEN {Store!Current(x)} ELSE {},
                   res |-> "running"]
             ELSE IF /\ op # "download" /\ \E k \in Calls : Store!Changing(k, x)
                     /\ calls[j].res = "running" /\ calls[j].path = x
             THEN [calls[j] EXCEPT !.alone = FALSE]
             ELSE calls[j]]
  BY DEF Store!Start
<1>2. calls'[i].did = FALSE
  <2> DEFINE alone == \A k \in Calls :
                          Store!Changing(k, x) => op = "download" /\ calls[k].alone
             seen == IF op = "download" THEN {Store!Current(x)} ELSE {}
  <2>1. PICK v : calls'[i] = [op |-> op, path |-> x, value |-> v, did |-> FALSE,
                              alone |-> alone, seen |-> seen, res |-> "running"]
    BY <1>1
  <2> HIDE DEF alone, seen
  <2> QED
    BY <2>1
<1>3. ASSUME NEW j \in Calls, j # i
      PROVE  calls'[j] = calls[j] \/ (~calls'[j].alone /\ calls'[j].res = calls[j].res)
  <2> DEFINE c == [calls[j] EXCEPT !.alone = FALSE]
  <2>1. ~c.alone /\ c.res = calls[j].res
    BY <1>0 DEF CallStates
  <2>2. calls'[j] = c \/ calls'[j] = calls[j]
    BY <1>1, <1>3
  <2> HIDE DEF c
  <2> QED
    BY <2>1, <2>2
<1>4. stored' = stored /\ calls[i].res # "running"
  BY DEF Store!Start
<1>5. Lasting'
  <2> SUFFICES ASSUME NEW j \in Calls, calls'[j].res = "running", calls'[j].op # "download",
                      calls'[j].alone, calls'[j].did
               PROVE  Store!InEffect(j)'
    BY DEF Lasting
  <2>1. j # i /\ calls'[j] = calls[j]
    BY <1>2, <1>3
  <2> QED
    BY <1>4, <2>1 DEF Lasting, Store!InEffect, Store!Current
<1>6. \A j \in Calls : calls[j].res = "running" => calls'[j].res # "ok"
  BY <1>3, <1>4
<1> QED
  BY <1>5, <1>6 DEF EffectsLast

LEMMA EndedLasting ==
    ASSUME StoreInv, Lasting, NEW i \in Calls, Store!Return(i)
    PROVE  EffectsLast
<1>1. PICK res \in {"ok", "notfound", "error"}, v \in Values \cup {Torn, None} :
          /\ calls[i].op # "download" /\ res = "ok" => calls[i].did \/ Store!Disturbed(i)
          /\ calls' = [calls EXCEPT ![i] = [Store!Idle EXCEPT !.res = res, !.value = v]]
  BY Zenon DEF Store!Return
<1>2. /\ stored' = stored /\ calls[i].res = "running"
      /\ calls'[i].res = res
      /\ \A j \in Calls : j # i => calls'[j] = calls[j]
  BY <1>1 DEF Store!Return, Store!Idle, StoreInv, TypeInv
<1>3. Lasting'
  <2> SUFFICES ASSUME NEW j \in Calls, calls'[j].res = "running", calls'[j].op # "download",
                      calls'[j].alone, calls'[j].did
               PROVE  Store!InEffect(j)'
    BY DEF Lasting
  <2>1. j # i /\ calls'[j] = calls[j]
    BY <1>2
  <2> QED
    BY <1>2, <2>1 DEF Lasting, Store!InEffect, Store!Current
<1>4. ASSUME NEW j \in Calls, calls[j].res = "running", calls'[j].res = "ok", calls[j].alone
      PROVE  Store!InEffect(j)
  <2>1. j = i /\ res = "ok"
    BY <1>2, <1>4
  <2>2. CASE calls[i].op = "download"
    BY <2>1, <2>2 DEF Store!InEffect
  <2>3. CASE calls[i].op # "download"
    <3>1. calls[i].did
      BY <1>1, <1>4, <2>1, <2>3 DEF Store!Disturbed
    <3> QED
      BY <1>2, <1>4, <2>1, <2>3, <3>1 DEF Lasting
  <2> QED
    BY <2>2, <2>3
<1> QED
  BY <1>3, <1>4 DEF EffectsLast

LEMMA ChangedLasting ==
    ASSUME StoreInv, Lasting, NEW i \in Calls, Store!Put(i) \/ Store!Tear(i) \/ Store!Delete(i)
    PROVE  EffectsLast
<1>0. TypeInv /\ Called /\ stored \in [Paths -> Seq(Marks)]
  BY StoredTyped DEF StoreInv
<1>1. PICK x : x = calls[i].path
  OBVIOUS
<1>2. Store!Changing(i, x) /\ calls[i].op \in {"upload", "delete"}
  BY <1>1 DEF Store!Put, Store!Tear, Store!Delete, Store!Changing
<1>3. x \in Paths
  BY <1>0, <1>1, <1>2 DEF Store!Changing, Called, Path
<1>4. calls'[i].op = calls[i].op /\ calls'[i].path = x /\ calls'[i].value = calls[i].value
  <2>1. PICK done \in {{}, {i}} : Store!Noticed(x, done)
    BY <1>1 DEF Store!Put, Store!Tear, Store!Delete
  <2> DEFINE c == [calls[i] EXCEPT !.did = TRUE]
  <2>2. c.op = calls[i].op /\ c.path = calls[i].path /\ c.value = calls[i].value
    BY <1>0 DEF TypeInv, CallStates
  <2>3. calls'[i] = c \/ calls'[i] = calls[i]
    BY <1>2, <2>1 DEF Store!Noticed
  <2> HIDE DEF c
  <2> QED
    BY <1>1, <2>2, <2>3
<1>5. ASSUME NEW s, NEW done \in SUBSET {i}, Store!Becomes(x, s), Store!Noticed(x, done),
             calls[i].alone /\ (i \in done \/ calls[i].did) => Store!InEffect(i)'
      PROVE  EffectsLast
  <2>1. Lasting' /\ \A j \in Calls : calls'[j].res = calls[j].res
    BY <1>1, <1>2, <1>5, ChangeLasting
  <2> QED
    BY <2>1 DEF EffectsLast
<1>6. ASSUME NEW s, Store!Becomes(x, s)
      PROVE  Store!Current(x)' = IF s = <<>> THEN None ELSE Last(s)
  BY <1>0, <1>3, <1>6, StoreSequences DEF Store!Becomes, Store!Current
<1>7. CASE Store!Put(i)
  <2>1. PICK v \in Values : v = calls[i].value
    BY <1>0, <1>7 DEF Called, Store!Put, Store!Changing, Value
  <2>2. PICK s : /\ s = IF x \in On("backblaze") THEN Append(stored[x], v) ELSE <<v>>
                 /\ Store!Becomes(x, s)
    BY <1>1, <1>7, <2>1 DEF Store!Put
  <2>3. s # <<>> /\ Last(s) = v
    <3>1. stored[x] \in Seq(Marks) /\ v \in Marks
      BY <1>0, <1>3, Apart
    <3>2. Append(stored[x], v) # <<>> /\ Last(Append(stored[x], v)) = v
      BY <3>1, AppendProperties DEF Last
    <3> QED
      BY <2>2, <3>2 DEF Last
  <2>4. Store!InEffect(i)'
    BY <1>2, <1>4, <1>6, <1>7, <2>1, <2>2, <2>3 DEF Store!InEffect, Store!Current, Store!Put
  <2> QED
    BY <1>1, <1>5, <1>7, <2>2, <2>4 DEF Store!Put
<1>8. CASE Store!Tear(i)
  <2>1. Store!Becomes(x, <<Torn>>) /\ Store!Noticed(x, {}) /\ ~(calls[i].alone /\ calls[i].did)
    BY <1>1, <1>8 DEF Store!Tear
  <2> QED
    BY <1>5, <2>1
<1>9. CASE Store!Delete(i)
  <2>1. PICK s : Store!Becomes(x, s) /\ (x \notin On("backblaze") => s = <<>>)
    BY <1>1, <1>9 DEF Store!Delete
  <2>2. Store!InEffect(i)'
    BY <1>4, <1>6, <1>9, <2>1 DEF Store!InEffect, Store!Current, Store!Delete
  <2> QED
    BY <1>1, <1>5, <1>9, <2>1, <2>2 DEF Store!Delete
<1> QED
  BY <1>7, <1>8, <1>9

LEMMA StepLasting == StoreInv /\ Lasting /\ [Store!Next]_<<stored, calls>> => EffectsLast
<1> SUFFICES ASSUME StoreInv, Lasting, [Store!Next]_<<stored, calls>> PROVE EffectsLast
  OBVIOUS
<1>1. CASE UNCHANGED <<stored, calls>>
  BY <1>1 DEF EffectsLast, Lasting, Store!InEffect, Store!Current
<1>2. CASE Store!Next
  BY <1>2, BegunLasting, ChangedLasting, EndedLasting DEF Store!Next
<1> QED
  BY <1>1, <1>2

(***************************************************************************)
(* When an upload or a deletion reports success and no other change of its *)
(* path overlapped it, its object is in the store, or gone from it         *)
(* (BlobStores.SuccessLasts): whatever was retried, half written, or found *)
(* torn by others, and on which kind of store it is.                       *)
(***************************************************************************)
THEOREM SuccessAlwaysLasts == Spec => SuccessLasts
<1>1. Init => Lasting
  BY DEF Init, Lasting, Idle
<1>2. StoreInv /\ Unfinished /\ Lasting /\ [Next]_vars => EffectsLast
  BY Always, StepLasting DEF Shown
<1>3. EffectsLast => Lasting'
  BY DEF EffectsLast
<1>4. EffectsLast =>
         [\A i \in Calls :
             calls[i].res = "running" /\ calls'[i].res = "ok" /\ calls[i].alone => Store!InEffect(i)
         ]_<<stored, calls>>
  BY DEF EffectsLast
<1> QED
  BY <1>1, <1>2, <1>3, <1>4, Invariant, PTL DEF Spec, SuccessLasts, Store!SuccessLasts

===============================================================================
