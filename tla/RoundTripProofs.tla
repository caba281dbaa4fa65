-------------------------- MODULE RoundTripProofs --------------------------
(***************************************************************************)
(* What the archiver leaves behind, and what a restore makes of it, for    *)
(* any number of paths, versions, chunks and edits, any limit, and any     *)
(* names, arguments and destinations.  In this order: the archiver keeps   *)
(* what it records, and a chunk that is cut short was cut by a file that   *)
(* shrank; the archiver has the outcomes SecureBackup gives it; a chunk is *)
(* left when its files reach the limit, and not before; a restore touches  *)
(* only what it was asked for, and brings it back or reports its chunk;    *)
(* the restore has the outcomes SecureBackup gives it.                     *)
(***************************************************************************)
EXTENDS RoundTrip, SequenceTheorems, FiniteSetTheorems, WellFoundedInduction, TLAPS

-----------------------------------------------------------------------------
(* Types of the archiver *)

ArcStates ==
    [tw : {"nil", "open", "closed"}, file : BOOLEAN, pending : BOOLEAN,
     currentUUID : ChunkIds \cup {None}, currentSize : Nat,
     chunks : SUBSET ChunkIds, files : [Paths -> Meta \cup {None}]]

Marks == Versions \cup {None, Torn, Other}

TypeInv ==
    /\ disk \in FileMap
    /\ seen \in FileMap
    /\ edited \subseteq Paths
    /\ todo \subseteq Paths
    /\ a \in ArcStates
    /\ tar \in [ChunkIds -> [Paths -> Marks]]
    /\ phase \in {"adding", "finalized", "failed"}

(* What is left to add was seen by the walk, and an open tar writer writes  *)
(* to some chunk.                                                           *)
Working ==
    /\ \A x \in todo : seen[x] # None
    /\ a.tw # "nil" => a.currentUUID # None
    /\ phase = "finalized" => a.tw = "nil"

ArcInv == TypeInv /\ Working

(* What a file that did not change is recorded to be is in its chunk. *)
Kept ==
    /\ \A x \in Paths \ edited : disk[x] = seen[x]
    /\ \A x \in Recorded :
          /\ x \notin todo \cup Special /\ seen[x] # None
          /\ x \notin edited => tar[a.files[x].chunk][x] = seen[x]

(* A member that is cut short was recorded of a file that shrank; or it is  *)
(* pending in a chunk that is not full, and Finalize is going to fail.      *)
Cut ==
    \A c \in ChunkIds, x \in Paths : tar[c][x] = Torn =>
        /\ x \notin todo
        /\ \/ x \in edited /\ x \in Recorded /\ a.files[x].chunk = c
           \/ a.tw = "open" /\ a.pending /\ ~Full(a)
           \/ phase = "failed"

LEMMA RollStates ==
    ASSUME ArcInv, NEW r \in RollOutcomes(a)
    PROVE  /\ r.b \in ArcStates /\ r.ok \in BOOLEAN
           /\ r.b.files = a.files
           /\ r.b.tw # "nil" => r.b.currentUUID # None
<1> USE DEF ArcInv, TypeInv, Working
<1>1. ASSUME r = [ok |-> FALSE, b |-> Refused(a)]
      PROVE  /\ r.b \in ArcStates /\ r.ok \in BOOLEAN
             /\ r.b.files = a.files
             /\ r.b.tw # "nil" => r.b.currentUUID # None
  BY <1>1 DEF Refused, ArcStates
<1>2. ASSUME r = [ok |-> FALSE, b |-> NotCreated(a)]
      PROVE  /\ r.b \in ArcStates /\ r.ok \in BOOLEAN
             /\ r.b.files = a.files
             /\ r.b.tw # "nil" => r.b.currentUUID # None
  BY <1>2 DEF NotCreated, ArcStates
<1>3. ASSUME NEW c \in ChunkIds, r = [ok |-> TRUE, b |-> Opened(a, c)]
      PROVE  /\ r.b \in ArcStates /\ r.ok \in BOOLEAN
             /\ r.b.files = a.files
             /\ r.b.tw # "nil" => r.b.currentUUID # None
  BY <1>3, MarkersAssumption DEF Opened, ArcStates
<1> QED
  BY <1>1, <1>2, <1>3 DEF RollOutcomes

LEMMA ReadyStates ==
    ASSUME ArcInv, NEW x \in Paths, NEW r \in Ready(x)
    PROVE  /\ r.b \in ArcStates /\ r.ok \in BOOLEAN
           /\ r.b.files = a.files
           /\ r.b.tw # "nil" => r.b.currentUUID # None
           /\ MustRoll(a, x) \/ r = [ok |-> TRUE, b |-> a]
<1>1. CASE MustRoll(a, x)
  BY <1>1, RollStates DEF Ready
<1>2. CASE ~MustRoll(a, x)
  <2>1. r = [ok |-> TRUE, b |-> a]
    BY <1>2 DEF Ready
  <2> QED
    BY <2>1 DEF ArcInv, TypeInv, Working
<1> QED
  BY <1>1, <1>2

(* A chunk that takes a regular file is not full. *)
LEMMA ReadyRoom ==
    ASSUME ArcInv, NEW x \in Paths \ Links, NEW r \in Ready(x), r.ok
    PROVE  ~Full(r.b)
<1>1. CASE MustRoll(a, x)
  <2>1. PICK c \in ChunkIds : r.b = Opened(a, c)
    BY <1>1 DEF Ready, RollOutcomes
  <2>2. r.b.currentSize = 0
    BY <2>1 DEF Opened, ArcInv, TypeInv, ArcStates
  <2> QED
    BY <2>2, LimitAssumption DEF Full
<1>2. CASE ~MustRoll(a, x)
  BY <1>2, ReadyStates DEF MustRoll
<1> QED
  BY <1>1, <1>2

(* What a call of AddFile leaves: it wrote nothing, or not what it should   *)
(* and recorded nothing, or it recorded the file.                           *)
Unwritten(b, m) == m = None /\ b.files = a.files

Broken(b, m) ==
    /\ b.tw = "open" /\ m # None
    /\ b.files = a.files
    /\ m = Torn => b.pending /\ ~Full(b)

Added(x, b, m) ==
    /\ x \notin Special /\ b.tw = "open" /\ m # None
    /\ b.files = [a.files EXCEPT ![x] = MetaFor(x, b.currentUUID)]
    /\ disk[x] = seen[x] => m = seen[x]

LEMMA SizesOf ==
    ASSUME ArcInv, NEW x \in todo
    PROVE  seen[x] \in Versions /\ Size[seen[x]] \in Nat
BY SortsAssumption DEF ArcInv, TypeInv, Working, FileMap

LEMMA MetaTypes ==
    ASSUME ArcInv, NEW x \in todo, NEW c \in ChunkIds
    PROVE  MetaFor(x, c) \in Meta
BY SizesOf, SortsAssumption DEF MetaFor, Meta

LEMMA AnnouncedStates ==
    ASSUME ArcInv, NEW x \in todo, NEW b \in ArcStates
    PROVE  /\ Announced(b, x) \in ArcStates
           /\ Announced(b, x).files = b.files /\ Announced(b, x).tw = b.tw
           /\ Announced(b, x).currentUUID = b.currentUUID
           /\ Announced(b, x).currentSize = b.currentSize
           /\ Announced(b, x).file = b.file /\ Announced(b, x).chunks = b.chunks
           /\ Announced(b, x).pending <=> Size[seen[x]] > 0
<1>1. CASE Size[seen[x]] > 0
  <2>1. Announced(b, x) = [b EXCEPT !.pending = TRUE]
    BY <1>1 DEF Announced
  <2> QED
    BY <1>1, <2>1 DEF ArcStates
<1>2. CASE ~(Size[seen[x]] > 0)
  <2>0. (Size[seen[x]] > 0) = FALSE
    BY <1>2
  <2>1. Announced(b, x) = [b EXCEPT !.pending = FALSE]
    BY <2>0, Zenon DEF Announced
  <2> QED
    BY <1>2, <2>1 DEF ArcStates
<1> QED
  BY <1>1, <1>2

LEMMA TrackedStates ==
    ASSUME ArcInv, NEW x \in todo, NEW b \in ArcStates, b.currentUUID # None
    PROVE  /\ Tracked(b, x) \in ArcStates
           /\ Tracked(b, x).files = [b.files EXCEPT ![x] = MetaFor(x, b.currentUUID)]
           /\ Tracked(b, x).tw = b.tw /\ Tracked(b, x).currentUUID = b.currentUUID
           /\ Tracked(b, x).chunks = b.chunks /\ Tracked(b, x).file = b.file
           /\ Tracked(b, x).pending = b.pending /\ Tracked(b, x).currentSize = b.currentSize
<1>1. MetaFor(x, b.currentUUID) \in Meta
  BY MetaTypes DEF ArcStates
<1>2. [b.files EXCEPT ![x] = MetaFor(x, b.currentUUID)] \in [Paths -> Meta \cup {None}]
  BY <1>1 DEF ArcStates
<1>3. Tracked(b, x) = [b EXCEPT !.files = [b.files EXCEPT ![x] = MetaFor(x, b.currentUUID)]]
  BY DEF Tracked
<1> QED
  BY <1>2, <1>3 DEF ArcStates

LEMMA CopiedStates ==
    ASSUME ArcInv, NEW x \in todo, NEW b \in ArcStates, b.currentUUID # None,
           NEW v \in Versions
    PROVE  LET d == Copied(b, x, v) IN
           /\ d \in ArcStates
           /\ d.tw = b.tw /\ d.currentUUID = b.currentUUID
           /\ d.chunks = b.chunks /\ d.file = b.file
           /\ d.pending <=> b.pending \/ Size[v] < Size[seen[x]]
           /\ Size[v] > Size[seen[x]] => d = b
           /\ d.files = IF Size[v] > Size[seen[x]] THEN b.files
                        ELSE [b.files EXCEPT ![x] = MetaFor(x, b.currentUUID)]
<1>1. Size[v] \in Nat /\ Size[seen[x]] \in Nat
  BY SizesOf, SortsAssumption
<1>2. CASE Size[v] = Size[seen[x]]
  <2> DEFINE e == [b EXCEPT !.currentSize = @ + Size[v]]
  <2>1. /\ e \in ArcStates /\ e.files = b.files /\ e.tw = b.tw /\ e.currentUUID = b.currentUUID
        /\ e.chunks = b.chunks /\ e.file = b.file /\ e.pending = b.pending
    BY <1>1 DEF ArcStates
  <2>2. Copied(b, x, v) = Tracked(e, x)
    BY <1>1, <1>2 DEF Copied
  <2> HIDE DEF e
  <2> QED
    BY <1>1, <1>2, <2>1, <2>2, TrackedStates
<1>3. CASE Size[v] < Size[seen[x]]
  <2> DEFINE e == [b EXCEPT !.currentSize = b.currentSize + Size[v], !.pending = TRUE]
  <2>0. b.currentSize + Size[v] \in Nat
    BY <1>1 DEF ArcStates
  <2>1. /\ e \in ArcStates /\ e.files = b.files /\ e.tw = b.tw /\ e.currentUUID = b.currentUUID
        /\ e.chunks = b.chunks /\ e.file = b.file /\ e.pending = TRUE
    BY <2>0 DEF ArcStates
  <2>2. Copied(b, x, v) = Tracked(e, x)
    BY <1>1, <1>3 DEF Copied
  <2> HIDE DEF e
  <2> QED
    BY <1>1, <1>3, <2>1, <2>2, TrackedStates
<1>4. CASE Size[v] > Size[seen[x]]
  BY <1>1, <1>4 DEF Copied
<1> QED
  BY <1>1, <1>2, <1>3, <1>4

LEMMA AddOutcomes ==
    ASSUME ArcInv, NEW x \in Paths, AddFile(x)
    PROVE  \E b \in ArcStates, m \in Marks :
               /\ Returned(x, b, m)
               /\ b.tw # "nil" => b.currentUUID # None
               /\ Unwritten(b, m) \/ Broken(b, m) \/ Added(x, b, m)
<1>0. x \in todo
  BY DEF AddFile, AddSpecial, AddRefused, AddUnreadable, AddRegular, AddLink, Adding
<1>s. seen[x] \in Versions /\ Size[seen[x]] \in Nat
  BY <1>0, SizesOf
<1>m. None \in Marks /\ Torn \in Marks /\ Other \in Marks /\ Versions \subseteq Marks
  BY DEF Marks
<1>1. CASE AddSpecial(x)
  <2>1. Returned(x, a, None)
    BY <1>1 DEF AddSpecial
  <2> QED
    BY <2>1, <1>m DEF Unwritten, ArcInv, TypeInv, Working
<1>2. CASE AddRefused(x)
  <2>1. PICK r \in Ready(x) : Returned(x, r.b, None)
    BY <1>2 DEF AddRefused
  <2> QED
    BY <2>1, <1>m, ReadyStates DEF Unwritten
<1>3. CASE AddUnreadable(x)
  <2>1. PICK r \in Ready(x) :
            /\ r.ok /\ HeaderAccepted(r.b)
            /\ Returned(x, Announced(r.b, x), IF Size[seen[x]] > 0 THEN Torn ELSE Other)
    BY <1>3 DEF AddUnreadable
  <2> DEFINE b == Announced(r.b, x)
             m == IF Size[seen[x]] > 0 THEN Torn ELSE Other
  <2>2. r.b \in ArcStates /\ r.b.files = a.files /\ r.b.tw = "open" /\ r.b.currentUUID # None
    BY <2>1, ReadyStates DEF HeaderAccepted
  <2>3. /\ b \in ArcStates /\ b.files = a.files /\ b.tw = "open" /\ b.currentUUID # None
        /\ b.currentSize = r.b.currentSize
        /\ b.pending <=> Size[seen[x]] > 0
    BY <1>0, <2>2, AnnouncedStates
  <2>4. ~Full(r.b)
    BY <1>3, <2>1, ReadyRoom DEF AddUnreadable
  <2>5. m # None /\ m \in Marks /\ (m = Torn => Size[seen[x]] > 0)
    BY <1>m, MarkersAssumption
  <2> HIDE DEF b, m
  <2>6. Broken(b, m)
    BY <2>3, <2>4, <2>5 DEF Broken, Full
  <2> QED
    BY <2>1, <2>3, <2>5, <2>6 DEF b, m
<1>4. CASE AddRegular(x)
  <2>1. PICK r \in Ready(x) :
            /\ r.ok /\ HeaderAccepted(r.b)
            /\ Returned(x, Copied(r.b, x, disk[x]), MemberOf(x, disk[x]))
    BY <1>4 DEF AddRegular
  <2> DEFINE b == Copied(r.b, x, disk[x])
             m == MemberOf(x, disk[x])
  <2>2. r.b \in ArcStates /\ r.b.files = a.files /\ r.b.tw = "open" /\ r.b.currentUUID # None
    BY <2>1, ReadyStates DEF HeaderAccepted
  <2>3. disk[x] \in Versions /\ Size[disk[x]] \in Nat
    BY <1>4, SortsAssumption DEF AddRegular, ArcInv, TypeInv, FileMap
  <2>4. /\ b \in ArcStates /\ b.tw = "open" /\ b.currentUUID = r.b.currentUUID
        /\ b.files = IF Size[disk[x]] > Size[seen[x]] THEN a.files
                     ELSE [a.files EXCEPT ![x] = MetaFor(x, r.b.currentUUID)]
    BY <1>0, <2>2, <2>3, CopiedStates
  <2>5. /\ m \in Marks /\ m # None
        /\ Size[disk[x]] > Size[seen[x]] => m = Other
        /\ disk[x] = seen[x] => m = seen[x]
    BY <1>s, <2>3, <1>m, MarkersAssumption DEF MemberOf
  <2>6. Broken(b, m) \/ Added(x, b, m)
    <3>1. x \notin Special
      BY <1>4 DEF AddRegular
    <3> HIDE DEF b, m
    <3> QED
      BY <2>2, <2>4, <2>5, <3>1, MarkersAssumption DEF Broken, Added
  <2> QED
    <3> HIDE DEF b, m
    <3>1. Returned(x, b, m)
      BY <2>1 DEF b, m
    <3> QED
      BY <2>2, <2>4, <2>5, <2>6, <3>1
<1>5. CASE AddLink(x)
  <2>1. PICK r \in Ready(x) :
            /\ r.ok /\ HeaderAccepted(r.b)
            /\ Returned(x, Tracked(r.b, x), IF disk[x] = None THEN Other ELSE disk[x])
    BY <1>5 DEF AddLink
  <2> DEFINE b == Tracked(r.b, x)
             m == IF disk[x] = None THEN Other ELSE disk[x]
  <2>2. r.b \in ArcStates /\ r.b.files = a.files /\ r.b.tw = "open" /\ r.b.currentUUID # None
    BY <2>1, ReadyStates DEF HeaderAccepted
  <2>3. /\ b \in ArcStates /\ b.tw = "open" /\ b.currentUUID = r.b.currentUUID
        /\ b.files = [a.files EXCEPT ![x] = MetaFor(x, r.b.currentUUID)]
    BY <1>0, <2>2, TrackedStates
  <2>4. /\ m \in Marks /\ m # None
        /\ disk[x] = seen[x] => m = seen[x]
    BY <1>s, <1>m, MarkersAssumption DEF ArcInv, TypeInv, FileMap, Marks
  <2>5. x \notin Special
    BY <1>5, SortsAssumption DEF AddLink
  <2> HIDE DEF b, m
  <2>a. Added(x, b, m)
    BY <2>2, <2>3, <2>4, <2>5 DEF Added
  <2>6. Returned(x, b, m)
    BY <2>1 DEF b, m
  <2> QED
    BY <2>2, <2>3, <2>4, <2>6, <2>a
<1> QED
  BY <1>1, <1>2, <1>3, <1>4, <1>5 DEF AddFile

-----------------------------------------------------------------------------
(* The invariants of the archiver *)

LEMMA ArcInit == Init => ArcInv /\ Kept /\ Cut
<1> SUFFICES ASSUME Init
             PROVE  ArcInv /\ Kept /\ Cut
  OBVIOUS
<1>1. a \in ArcStates /\ a.tw = "nil" /\ \A x \in Paths : a.files[x] = None
  BY DEF Init, NewArchiver, NoMembers, ArcStates
<1>2. tar \in [ChunkIds -> [Paths -> Marks]] /\ \A c \in ChunkIds, x \in Paths : tar[c][x] = None
  BY DEF Init, NoMembers, Marks
<1>3. ArcInv
  BY <1>1, <1>2 DEF Init, ArcInv, TypeInv, Working
<1>4. Kept
  BY <1>1 DEF Init, Kept, Recorded
<1>5. Cut
  BY <1>2, MarkersAssumption DEF Cut
<1> QED
  BY <1>3, <1>4, <1>5

LEMMA FinalizeStates ==
    ASSUME ArcInv, Finalize
    PROVE  /\ phase = "adding" /\ todo = {}
           /\ a' \in ArcStates /\ a'.files = a.files /\ a'.currentUUID = a.currentUUID
           /\ \/ phase' = "failed" /\ a'.tw # "nil" /\ a.tw # "nil"
              \/ phase' = "finalized" /\ a'.tw = "nil" /\ ~(a.tw = "open" /\ a.pending)
<1> USE DEF ArcInv, TypeInv
<1>1. CASE a.tw # "nil" /\ CloseRefused(a)
  BY <1>1 DEF Finalize, Refused, ArcStates
<1>2. CASE ~(a.tw # "nil" /\ CloseRefused(a))
  <2>1. a' = [a EXCEPT !.tw = "nil", !.file = FALSE] /\ phase' = "finalized"
    BY <1>2 DEF Finalize
  <2> QED
    BY <1>2, <2>1 DEF Finalize, CloseRefused, ArcStates
<1> QED
  BY <1>1, <1>2

LEMMA ArcStep == ArcInv /\ [Next]_vars => ArcInv'
<1> SUFFICES ASSUME ArcInv, [Next]_vars
             PROVE  ArcInv'
  OBVIOUS
<1>1. CASE Finalize
  <2>1. UNCHANGED <<disk, seen, edited, todo, tar>>
    BY <1>1 DEF Finalize
  <2> QED
    BY <1>1, <2>1, FinalizeStates DEF ArcInv, TypeInv, Working
<1>2. ASSUME NEW x \in Paths, AddFile(x)
      PROVE  ArcInv'
  <2>1. PICK b \in ArcStates, m \in Marks :
            /\ Returned(x, b, m)
            /\ b.tw # "nil" => b.currentUUID # None
            /\ Unwritten(b, m) \/ Broken(b, m) \/ Added(x, b, m)
    BY <1>2, AddOutcomes
  <2>2. phase = "adding"
    BY <1>2 DEF AddFile, AddSpecial, AddRefused, AddUnreadable, AddRegular, AddLink, Adding
  <2>3. tar' \in [ChunkIds -> [Paths -> Marks]]
    BY <2>1 DEF Returned, ArcInv, TypeInv
  <2> QED
    BY <2>1, <2>2, <2>3 DEF Returned, ArcInv, TypeInv, Working
<1>3. ASSUME NEW x \in Paths, Edit(x)
      PROVE  ArcInv'
  BY <1>3 DEF Edit, ArcInv, TypeInv, Working, FileMap
<1>4. CASE UNCHANGED vars
  BY <1>4 DEF vars, ArcInv, TypeInv, Working
<1> QED
  BY <1>1, <1>2, <1>3, <1>4 DEF Next

LEMMA KeptStep == ArcInv /\ Kept /\ [Next]_vars => Kept'
<1> SUFFICES ASSUME ArcInv, Kept, [Next]_vars
             PROVE  Kept'
  OBVIOUS
<1>1. CASE Finalize
  <2>1. UNCHANGED <<disk, seen, edited, todo, tar>>
    BY <1>1 DEF Finalize
  <2> QED
    BY <1>1, <2>1, FinalizeStates DEF Kept, Recorded
<1>2. ASSUME NEW x \in Paths, AddFile(x)
      PROVE  Kept'
  <2>1. PICK b \in ArcStates, m \in Marks :
            /\ Returned(x, b, m)
            /\ b.tw # "nil" => b.currentUUID # None
            /\ Unwritten(b, m) \/ Broken(b, m) \/ Added(x, b, m)
    BY <1>2, AddOutcomes
  <2>0. x \in todo
    BY <1>2 DEF AddFile, AddSpecial, AddRefused, AddUnreadable, AddRegular, AddLink, Adding
  <2>2. UNCHANGED <<disk, seen, edited>> /\ todo' = todo \ {x} /\ a' = b
    BY <2>1 DEF Returned
  <2>3. ASSUME NEW y \in Paths, y # x, NEW c \in ChunkIds
        PROVE  tar'[c][y] = tar[c][y]
    BY <2>1, <2>3 DEF Returned, ArcInv, TypeInv
  <2>4. a.files \in [Paths -> Meta \cup {None}]
    BY DEF ArcInv, TypeInv, ArcStates
  <2>5. ASSUME NEW y \in Paths, y # x, a'.files[y] # None
        PROVE  /\ y \notin todo' \cup Special /\ seen'[y] # None
               /\ y \notin edited' => tar'[a'.files[y].chunk][y] = seen'[y]
    <3>1. a'.files[y] = a.files[y]
      BY <2>1, <2>2, <2>4, <2>5 DEF Unwritten, Broken, Added
    <3>2. a.files[y].chunk \in ChunkIds
      BY <2>4, <2>5, <3>1 DEF Meta
    <3> QED
      BY <2>2, <2>3, <2>5, <3>1, <3>2 DEF Kept, Recorded
  <2>7. a'.files[x] # None => x \notin Special /\ seen'[x] # None
    BY <2>0, <2>1, <2>2, MarkersAssumption, SizesOf DEF Unwritten, Broken, Added, Kept, Recorded
  <2>6. ASSUME a'.files[x] # None, x \notin edited'
        PROVE  tar'[a'.files[x].chunk][x] = seen'[x]
    <3>1. CASE Added(x, b, m)
      <4>1. a'.files[x] = MetaFor(x, b.currentUUID) /\ b.currentUUID \in ChunkIds /\ m # None
        BY <2>1, <2>2, <2>4, <3>1 DEF Added, ArcStates
      <4>2. tar' = [tar EXCEPT ![b.currentUUID][x] = m]
        BY <2>1, <4>1 DEF Returned
      <4>3. m = seen[x]
        BY <2>2, <2>6, <3>1 DEF Added, Kept
      <4> QED
        BY <2>2, <4>1, <4>2, <4>3 DEF MetaFor, ArcInv, TypeInv
    <3>2. CASE ~Added(x, b, m)
      BY <2>0, <2>1, <2>2, <2>6, <3>2 DEF Unwritten, Broken, Kept, Recorded
    <3> QED
      BY <3>1, <3>2
  <2> QED
    BY <2>2, <2>5, <2>6, <2>7 DEF Kept, Recorded
<1>3. ASSUME NEW x \in Paths, Edit(x)
      PROVE  Kept'
  <2>1. /\ x \in todo /\ UNCHANGED <<seen, todo, a, tar>> /\ edited' = edited \cup {x}
        /\ \A y \in Paths \ {x} : disk'[y] = disk[y]
    BY <1>3 DEF Edit, Adding, ArcInv, TypeInv, FileMap
  <2> QED
    BY <2>1 DEF Kept, Recorded
<1>4. CASE UNCHANGED vars
  BY <1>4 DEF vars, Kept, Recorded
<1> QED
  BY <1>1, <1>2, <1>3, <1>4 DEF Next

(* Once a member is pending in a chunk that is not full, nothing is added.  *)
LEMMA Stuck ==
    ASSUME ArcInv, NEW x \in Paths, AddFile(x), a.tw = "open", a.pending, ~Full(a)
    PROVE  a' = a /\ tar' = tar
<1>1. \A r \in Ready(x) : r.ok /\ r.b = a /\ ~HeaderAccepted(r.b)
  BY DEF Ready, MustRoll, HeaderAccepted
<1> QED
  BY <1>1 DEF AddFile, AddSpecial, AddRefused, AddUnreadable, AddRegular, AddLink, Returned

LEMMA CutStep == ArcInv /\ Kept /\ Cut /\ [Next]_vars => Cut'
<1> SUFFICES ASSUME ArcInv, Kept, Cut, [Next]_vars,
                    NEW c \in ChunkIds, NEW y \in Paths, tar'[c][y] = Torn
             PROVE  /\ y \notin todo'
                    /\ \/ y \in edited' /\ y \in Recorded' /\ a'.files[y].chunk = c
                       \/ a'.tw = "open" /\ a'.pending /\ ~Full(a')
                       \/ phase' = "failed"
  BY DEF Cut, Full
<1>1. CASE Finalize
  <2>1. UNCHANGED <<disk, seen, edited, todo, tar>>
    BY <1>1 DEF Finalize
  <2> QED
    BY <1>1, <2>1, FinalizeStates DEF Cut, Recorded
<1>2. ASSUME NEW x \in Paths, AddFile(x)
      PROVE  /\ y \notin todo'
             /\ \/ y \in edited' /\ y \in Recorded' /\ a'.files[y].chunk = c
                \/ a'.tw = "open" /\ a'.pending /\ ~Full(a')
                \/ phase' = "failed"
  <2>1. PICK b \in ArcStates, m \in Marks :
            /\ Returned(x, b, m)
            /\ b.tw # "nil" => b.currentUUID # None
            /\ Unwritten(b, m) \/ Broken(b, m) \/ Added(x, b, m)
    BY <1>2, AddOutcomes
  <2>0. x \in todo /\ phase = "adding"
    BY <1>2 DEF AddFile, AddSpecial, AddRefused, AddUnreadable, AddRegular, AddLink, Adding
  <2>2. UNCHANGED <<disk, seen, edited, phase>> /\ todo' = todo \ {x} /\ a' = b
    BY <2>1 DEF Returned
  <2>3. a.files \in [Paths -> Meta \cup {None}]
    BY DEF ArcInv, TypeInv, ArcStates
  <2>4. CASE tar[c][y] = Torn
    <3>1. y \notin todo /\ y # x
      BY <2>0, <2>4 DEF Cut
    <3>2. CASE y \in edited /\ y \in Recorded /\ a.files[y].chunk = c
      <4>1. a'.files[y] = a.files[y]
        BY <2>1, <2>2, <2>3, <3>1 DEF Unwritten, Broken, Added
      <4> QED
        BY <2>2, <3>1, <3>2, <4>1 DEF Recorded
    <3>3. CASE a.tw = "open" /\ a.pending /\ ~Full(a)
      BY <1>2, <2>2, <3>1, <3>3, Stuck
    <3> QED
      BY <2>0, <2>4, <3>2, <3>3 DEF Cut
  <2>5. CASE tar[c][y] # Torn
    <3>1. tar' = [tar EXCEPT ![b.currentUUID][x] = m]
      BY <2>1, <2>5 DEF Returned
    <3>2. b.currentUUID = c /\ y = x /\ m = Torn
      BY <2>5, <3>1 DEF ArcInv, TypeInv
    <3>3. CASE Broken(b, m)
      BY <2>2, <3>2, <3>3 DEF Broken, Full
    <3>4. CASE Added(x, b, m)
      <4>1. a'.files[x] = MetaFor(x, c) /\ MetaFor(x, c) \in Meta
        BY <2>0, <2>2, <2>3, <3>2, <3>4, MetaTypes DEF Added
      <4>2. a'.files[x] # None /\ a'.files[x].chunk = c
        BY <4>1, MetaAssumption DEF MetaFor
      <4>3. disk[x] # seen[x]
        BY <2>0, <3>2, <3>4, SizesOf, MarkersAssumption DEF Added
      <4> QED
        BY <2>2, <3>2, <4>2, <4>3 DEF Kept, Recorded
    <3> QED
      BY <2>1, <3>2, <3>3, <3>4, MarkersAssumption DEF Unwritten
  <2> QED
    BY <2>4, <2>5
<1>3. ASSUME NEW x \in Paths, Edit(x)
      PROVE  /\ y \notin todo'
             /\ \/ y \in edited' /\ y \in Recorded' /\ a'.files[y].chunk = c
                \/ a'.tw = "open" /\ a'.pending /\ ~Full(a')
                \/ phase' = "failed"
  <2>1. UNCHANGED <<todo, a, tar, phase>> /\ edited' = edited \cup {x}
    BY <1>3 DEF Edit
  <2> QED
    BY <2>1 DEF Cut, Recorded, Full
<1>4. CASE UNCHANGED vars
  BY <1>4 DEF vars, Cut, Recorded, Full
<1> QED
  BY <1>1, <1>2, <1>3, <1>4 DEF Next

-----------------------------------------------------------------------------
(* The tar writer and the chunk it writes to *)

(* The outcomes of rollChunk, when it is called and when it is not. *)
LEMMA ReadyKinds ==
    ASSUME NEW x \in Paths, NEW r \in Ready(x)
    PROVE  \/ r.ok /\ r.b = a /\ ~MustRoll(a, x)
           \/ /\ r.ok /\ MustRoll(a, x) /\ ~CloseRefused(a)
              /\ \E c \in ChunkIds \ a.chunks : r.b = Opened(a, c)
           \/ ~r.ok /\ MustRoll(a, x) /\ CloseRefused(a) /\ r.b = Refused(a)
           \/ ~r.ok /\ MustRoll(a, x) /\ ~CloseRefused(a) /\ r.b = NotCreated(a)
BY DEF Ready, RollOutcomes

TornIn(b, t) == \E y \in Paths : b.files[y] # None /\ t[b.currentUUID][y] = Torn

(* Only a chunk with a file recorded in it can be full, and one that is     *)
(* full and cannot be closed has a file recorded that is cut short.         *)
Sound(b, t) ==
    /\ b.tw = "nil" => b.currentUUID = None /\ ~b.pending
    /\ b.tw = "open" => b.file
    /\ b.currentUUID \in b.chunks \cup {None}
    /\ b.currentSize > 0 =>
          \E y \in Paths : b.files[y] # None /\ b.files[y].chunk = b.currentUUID
    /\ (b.tw = "open" /\ b.pending /\ Full(b)) \/ (b.tw = "closed" /\ b.file) => TornIn(b, t)

ChunkInv ==
    /\ phase = "adding" => Sound(a, tar)
    /\ \A x \in todo, c \in ChunkIds : tar[c][x] = None

LEMMA ReadySound ==
    ASSUME ArcInv, Sound(a, tar), NEW x \in Paths, NEW r \in Ready(x)
    PROVE  Sound(r.b, tar)
<1> USE DEF ArcInv, TypeInv
<1>1. CASE r.b = a
  BY <1>1
<1>2. ASSUME NEW c \in ChunkIds, r.b = Opened(a, c)
      PROVE  Sound(r.b, tar)
  <2>1. /\ r.b.tw = "open" /\ r.b.file /\ r.b.pending = FALSE /\ r.b.currentUUID = c
        /\ r.b.currentSize = 0 /\ c \in r.b.chunks
    BY <1>2 DEF Opened, ArcStates
  <2> QED
    BY <2>1 DEF Sound
<1>3. CASE MustRoll(a, x) /\ CloseRefused(a) /\ r.b = Refused(a)
  <2>1. /\ r.b.file = a.file /\ r.b.pending = a.pending /\ r.b.currentUUID = a.currentUUID
        /\ r.b.currentSize = a.currentSize /\ r.b.chunks = a.chunks /\ r.b.files = a.files
        /\ r.b.tw = IF a.tw = "open" THEN "closed" ELSE a.tw
    BY <1>3 DEF Refused, ArcStates
  <2>2. r.b.tw = "closed" /\ r.b.file => TornIn(a, tar)
    BY <1>3, <2>1 DEF Sound, CloseRefused, MustRoll
  <2> QED
    BY <2>1, <2>2 DEF Sound, TornIn, Full, CloseRefused
<1>4. CASE ~CloseRefused(a) /\ r.b = NotCreated(a)
  <2>1. CASE a.tw = "nil"
    BY <1>1, <1>4, <2>1 DEF NotCreated
  <2>2. CASE a.tw # "nil"
    <3>1. /\ r.b.file = FALSE /\ r.b.tw = "closed" /\ r.b.currentUUID = a.currentUUID
          /\ r.b.currentSize = a.currentSize /\ r.b.chunks = a.chunks /\ r.b.files = a.files
      BY <1>4, <2>2 DEF NotCreated, ArcStates
    <3> QED
      BY <3>1 DEF Sound
  <2> QED
    BY <2>1, <2>2
<1> QED
  BY <1>1, <1>2, <1>3, <1>4, ReadyKinds

(* What is written of a file that is still to be added makes no other file  *)
(* look whole.                                                              *)
LEMMA TornStays ==
    ASSUME ArcInv, ChunkInv, NEW x \in todo, NEW b \in ArcStates, NEW m,
           m # None => b.currentUUID # None, Returned(x, b, m), TornIn(b, tar)
    PROVE  TornIn(b, tar')
<1>1. CASE m = None
  BY <1>1 DEF Returned
<1>2. CASE m # None
  <2>1. b.currentUUID \in ChunkIds /\ tar' = [tar EXCEPT ![b.currentUUID][x] = m]
    BY <1>2 DEF Returned, ArcStates
  <2>2. PICK y \in Paths : b.files[y] # None /\ tar[b.currentUUID][y] = Torn
    BY DEF TornIn
  <2>3. y # x
    BY <2>1, <2>2, MarkersAssumption DEF ChunkInv
  <2>4. tar'[b.currentUUID][y] = Torn
    BY <2>1, <2>2, <2>3 DEF ArcInv, TypeInv
  <2> QED
    BY <2>2, <2>4 DEF TornIn
<1> QED
  BY <1>1, <1>2

LEMMA SoundStays ==
    ASSUME ArcInv, ChunkInv, NEW x \in todo, NEW b \in ArcStates, NEW m,
           m # None => b.currentUUID # None, Returned(x, b, m), Sound(b, tar)
    PROVE  Sound(b, tar')
BY TornStays DEF Sound

LEMMA ChunkAdd ==
    ASSUME ArcInv, ChunkInv, NEW x \in Paths, AddFile(x)
    PROVE  Sound(a, tar)' /\ x \in todo /\ phase = "adding"
<1>0. x \in todo /\ phase = "adding" /\ Sound(a, tar)
  BY DEF AddFile, AddSpecial, AddRefused, AddUnreadable, AddRegular, AddLink, Adding, ChunkInv
<1>k. ASSUME NEW b \in ArcStates, NEW m, Returned(x, b, m), Sound(b, tar')
      PROVE  Sound(a, tar)'
  BY <1>k DEF Returned, Sound, TornIn, Full
<1>1. CASE AddSpecial(x)
  <2>1. Returned(x, a, None) /\ a \in ArcStates
    BY <1>1 DEF AddSpecial, ArcInv, TypeInv
  <2> QED
    BY <1>0, <1>k, <2>1, SoundStays
<1>2. CASE AddRefused(x)
  <2>1. PICK r \in Ready(x) : Returned(x, r.b, None)
    BY <1>2 DEF AddRefused
  <2>2. r.b \in ArcStates /\ Sound(r.b, tar)
    BY <1>0, ReadyStates, ReadySound
  <2> QED
    BY <1>0, <1>k, <2>1, <2>2, SoundStays
<1>3. CASE AddUnreadable(x)
  <2>1. PICK r \in Ready(x) :
            /\ r.ok /\ HeaderAccepted(r.b)
            /\ Returned(x, Announced(r.b, x), IF Size[seen[x]] > 0 THEN Torn ELSE Other)
    BY <1>3 DEF AddUnreadable
  <2> DEFINE b == Announced(r.b, x)
             m == IF Size[seen[x]] > 0 THEN Torn ELSE Other
  <2>2. /\ r.b \in ArcStates /\ r.b.tw = "open" /\ r.b.currentUUID # None
        /\ Sound(r.b, tar) /\ ~Full(r.b)
    BY <1>0, <1>3, <2>1, ReadyStates, ReadySound, ReadyRoom DEF HeaderAccepted, AddUnreadable
  <2>3. /\ b \in ArcStates /\ b.files = r.b.files /\ b.tw = "open"
        /\ b.currentUUID = r.b.currentUUID
        /\ b.currentSize = r.b.currentSize /\ b.file = r.b.file /\ b.chunks = r.b.chunks
    BY <1>0, <2>2, AnnouncedStates
  <2>4. Returned(x, b, m)
    BY <2>1
  <2> HIDE DEF b, m
  <2>5. Sound(b, tar)
    BY <2>2, <2>3 DEF Sound, Full
  <2> QED
    BY <1>0, <1>k, <2>2, <2>3, <2>4, <2>5, SoundStays
<1>4. CASE AddRegular(x)
  <2>1. PICK r \in Ready(x) :
            /\ r.ok /\ HeaderAccepted(r.b)
            /\ Returned(x, Copied(r.b, x, disk[x]), MemberOf(x, disk[x]))
    BY <1>4 DEF AddRegular
  <2> DEFINE b == Copied(r.b, x, disk[x])
             m == MemberOf(x, disk[x])
  <2>2. /\ r.b \in ArcStates /\ r.b.tw = "open" /\ ~r.b.pending /\ r.b.currentUUID \in ChunkIds
        /\ Sound(r.b, tar)
    BY <1>0, <2>1, ReadyStates, ReadySound DEF HeaderAccepted, ArcStates
  <2>3. disk[x] \in Versions /\ Size[disk[x]] \in Nat /\ Size[seen[x]] \in Nat
    BY <1>0, <1>4, SizesOf, SortsAssumption DEF AddRegular, ArcInv, TypeInv, FileMap
  <2>n. r.b.currentUUID # None
    BY <2>2, MarkersAssumption
  <2>4. /\ b \in ArcStates /\ b.tw = "open" /\ b.currentUUID = r.b.currentUUID
        /\ b.chunks = r.b.chunks /\ b.file = r.b.file
        /\ b.pending <=> Size[disk[x]] < Size[seen[x]]
        /\ Size[disk[x]] > Size[seen[x]] => b = r.b
        /\ Size[disk[x]] <= Size[seen[x]] =>
               b.files = [r.b.files EXCEPT ![x] = MetaFor(x, r.b.currentUUID)]
    BY <1>0, <2>2, <2>n, <2>3, CopiedStates
  <2>5. Size[disk[x]] < Size[seen[x]] => m = Torn
    BY <2>3 DEF MemberOf
  <2>6. Returned(x, b, m)
    BY <2>1
  <2>7. CASE Size[disk[x]] > Size[seen[x]]
    BY <1>0, <1>k, <2>2, <2>n, <2>4, <2>6, <2>7, SoundStays
  <2>8. CASE Size[disk[x]] <= Size[seen[x]]
    <3> HIDE DEF b, m
    <3>1. b.files[x] # None /\ b.files[x].chunk = b.currentUUID
      <4>1. MetaFor(x, r.b.currentUUID) # None
        BY <1>0, <2>2, MetaTypes, MetaAssumption
      <4>2. b.files[x] = MetaFor(x, r.b.currentUUID)
        BY <2>2, <2>4, <2>8 DEF ArcStates
      <4> QED
        BY <2>4, <4>1, <4>2 DEF MetaFor
    <3>2. b.pending => TornIn(b, tar')
      <4> SUFFICES ASSUME b.pending
                   PROVE  tar'[b.currentUUID][x] = Torn
        BY <3>1 DEF TornIn
      <4>1. m = Torn
        BY <2>4, <2>5
      <4> QED
        BY <2>2, <2>4, <2>6, <4>1, MarkersAssumption DEF Returned, ArcInv, TypeInv
    <3>3. Sound(b, tar')
      BY <2>2, <2>4, <3>1, <3>2 DEF Sound
    <3> QED
      BY <1>0, <1>k, <2>4, <2>6, <3>3
  <2> QED
    BY <2>3, <2>7, <2>8
<1>5. CASE AddLink(x)
  <2>1. PICK r \in Ready(x) :
            /\ r.ok /\ HeaderAccepted(r.b)
            /\ Returned(x, Tracked(r.b, x), IF disk[x] = None THEN Other ELSE disk[x])
    BY <1>5 DEF AddLink
  <2> DEFINE b == Tracked(r.b, x)
             m == IF disk[x] = None THEN Other ELSE disk[x]
  <2>2. /\ r.b \in ArcStates /\ r.b.tw = "open" /\ ~r.b.pending /\ r.b.currentUUID # None
        /\ Sound(r.b, tar)
    BY <1>0, <2>1, ReadyStates, ReadySound DEF HeaderAccepted
  <2>3. /\ b \in ArcStates /\ b.tw = "open" /\ b.currentUUID = r.b.currentUUID
        /\ b.chunks = r.b.chunks /\ b.file = r.b.file /\ b.pending = r.b.pending
        /\ b.files = [r.b.files EXCEPT ![x] = MetaFor(x, r.b.currentUUID)]
    BY <1>0, <2>2, TrackedStates
  <2>4. Returned(x, b, m)
    BY <2>1
  <2> HIDE DEF b, m
  <2>5. b.files[x] # None /\ b.files[x].chunk = b.currentUUID
    <3>1. MetaFor(x, r.b.currentUUID) # None
      BY <1>0, <2>2, MetaTypes, MetaAssumption DEF ArcStates
    <3>2. b.files[x] = MetaFor(x, r.b.currentUUID)
      BY <2>2, <2>3 DEF ArcStates
    <3> QED
      BY <2>3, <3>1, <3>2 DEF MetaFor
  <2>6. Sound(b, tar')
    BY <2>2, <2>3, <2>5 DEF Sound
  <2> QED
    BY <1>0, <1>k, <2>3, <2>4, <2>6
<1> QED
  BY <1>0, <1>1, <1>2, <1>3, <1>4, <1>5 DEF AddFile

LEMMA ChunkStep == ArcInv /\ ChunkInv /\ [Next]_vars => ChunkInv'
<1> SUFFICES ASSUME ArcInv, ChunkInv, [Next]_vars
             PROVE  ChunkInv'
  OBVIOUS
<1>1. CASE Finalize
  BY <1>1, FinalizeStates DEF Finalize, ChunkInv
<1>2. ASSUME NEW x \in Paths, AddFile(x)
      PROVE  ChunkInv'
  <2>1. PICK b \in ArcStates, m \in Marks : Returned(x, b, m)
    BY <1>2, AddOutcomes
  <2>2. \A y \in Paths \ {x}, c \in ChunkIds : tar'[c][y] = tar[c][y]
    BY <2>1 DEF Returned, ArcInv, TypeInv
  <2> QED
    BY <1>2, <2>1, <2>2, ChunkAdd DEF ChunkInv, Returned, ArcInv, TypeInv
<1>3. ASSUME NEW x \in Paths, Edit(x)
      PROVE  ChunkInv'
  BY <1>3 DEF Edit, ChunkInv, Sound, TornIn, Full
<1>4. CASE UNCHANGED vars
  BY <1>4 DEF vars, ChunkInv, Sound, TornIn, Full
<1> QED
  BY <1>1, <1>2, <1>3, <1>4 DEF Next

LEMMA ChunkInit == Init => ChunkInv
<1> SUFFICES ASSUME Init
             PROVE  ChunkInv
  OBVIOUS
<1>1. \A c \in ChunkIds, x \in Paths : tar[c][x] = None
  BY DEF Init, NoMembers
<1>2. /\ a.tw = "nil" /\ a.currentUUID = None /\ a.pending = FALSE /\ a.currentSize = 0
      /\ a.file = FALSE /\ todo \subseteq Paths
  BY DEF Init, NewArchiver
<1> QED
  BY <1>1, <1>2 DEF ChunkInv, Sound

-----------------------------------------------------------------------------
(* The archiver implements what SecureBackup says of it *)

LEMMA StuckIs ==
    stuck <=> \/ a.tw = "closed" /\ ~a.file
              \/ a.pending /\ ~TornIn(a, tar)
BY DEF stuck, TornIn, Recorded

(* Once it is stuck, rollChunk changes nothing and no header is accepted.   *)
LEMMA StuckCalls ==
    ASSUME ArcInv, Sound(a, tar), stuck, NEW x \in Paths, NEW r \in Ready(x)
    PROVE  r.b = a /\ ~(r.ok /\ HeaderAccepted(r.b))
<1>1. a.tw # "nil"
  BY StuckIs DEF Sound
<1>2. CASE ~MustRoll(a, x)
  <2>1. r.b = a
    BY <1>2, ReadyKinds
  <2> QED
    BY <2>1, StuckIs DEF HeaderAccepted
<1>3. CASE MustRoll(a, x)
  <2>1. Full(a)
    BY <1>1, <1>3 DEF MustRoll
  <2>2. a.tw \in {"open", "closed"}
    BY <1>1 DEF ArcInv, TypeInv, ArcStates
  <2>3. a.tw = "closed" /\ ~a.file
    BY <2>1, <2>2, StuckIs DEF Sound
  <2> QED
    BY <1>3, <2>3, ReadyKinds DEF CloseRefused, Refused
<1> QED
  BY <1>2, <1>3

(* The chunk a member is written to is one that SecureBackup allows: a      *)
(* chunk that is full has a file recorded in it.                            *)
LEMMA ChunkChosen ==
    ASSUME ArcInv, ChunkInv, phase = "adding", NEW x \in Paths, NEW r \in Ready(x),
           r.ok, HeaderAccepted(r.b)
    PROVE  /\ ~stuck
           /\ r.b.currentUUID \in ChunkIds
           /\ r.b.currentUUID \in Command!ChunkFor(proc, x)
           /\ r.b.chunks = a.chunks \cup {r.b.currentUUID}
<1>0. Sound(a, tar)
  BY DEF ChunkInv
<1>1. ~stuck
  BY <1>0, StuckCalls
<1>2. archiver.cur = a.currentUUID /\ archiver.files = a.files
  BY DEF archiver
<1>3. CASE ~MustRoll(a, x)
  <2>1. r.b = a
    BY <1>3, ReadyKinds
  <2>2. a.currentUUID # None /\ a.currentUUID \in ChunkIds /\ a.currentUUID \in a.chunks
    BY <1>0, <2>1 DEF HeaderAccepted, Sound, ArcInv, TypeInv, Working, ArcStates
  <2>3. a.currentUUID \in Command!ChunkFor(proc, x)
    BY <1>2, <2>2 DEF Command!ChunkFor
  <2> QED
    BY <1>1, <2>1, <2>2, <2>3
<1>4. CASE MustRoll(a, x)
  <2>1. PICK c \in ChunkIds \ a.chunks : r.b = Opened(a, c)
    BY <1>4, ReadyKinds
  <2>2. r.b.currentUUID = c /\ r.b.chunks = a.chunks \cup {c}
    BY <2>1 DEF Opened, ArcInv, TypeInv, ArcStates
  <2>3. c \in Command!Fresh
    BY DEF Command!Fresh
  <2>4. CASE a.currentUUID = None
    BY <1>1, <1>2, <2>2, <2>3, <2>4 DEF Command!ChunkFor
  <2>5. CASE a.currentUUID # None
    <3>1. x \notin Links /\ Full(a)
      BY <1>0, <1>4, <2>5 DEF MustRoll, Sound
    <3>2. a.currentSize > 0
      BY <3>1, LimitAssumption DEF Full, ArcInv, TypeInv, ArcStates
    <3>3. a.currentUUID \in Command!Active(a.files)
      BY <1>0, <3>2 DEF Sound, Command!Active, Command!Listed
    <3>4. ~Command!Unfilled(proc, a.currentUUID)
      BY <1>2, <3>3 DEF Command!Unfilled
    <3> QED
      BY <1>1, <1>2, <2>2, <2>3, <2>5, <3>1, <3>4 DEF Command!ChunkFor
  <2> QED
    BY <2>4, <2>5
<1> QED
  BY <1>3, <1>4

LEMMA PassedOverIs ==
    ASSUME NEW t, NEW k, NEW ids, NEW f, NEW s, NEW x, NEW c, NEW s1
    PROVE  Command!PassedOver([todo |-> t, cur |-> k, chunks |-> ids, files |-> f, stuck |-> s],
                              x, c, s1)
           = [todo |-> t \ {x}, cur |-> c, chunks |-> ids \cup ({c} \ {None}),
              files |-> f, stuck |-> s1]
<1> DEFINE r0 == [todo |-> t, cur |-> k, chunks |-> ids, files |-> f, stuck |-> s]
           r1 == [r0 EXCEPT !.todo = r0.todo \ {x}]
           r2 == [r1 EXCEPT !.cur = c]
           r3 == [r2 EXCEPT !.chunks = r2.chunks \cup ({c} \ {None})]
           r4 == [r3 EXCEPT !.stuck = s1]
<1>1. r1 = [todo |-> t \ {x}, cur |-> k, chunks |-> ids, files |-> f, stuck |-> s]
  OBVIOUS
<1> HIDE DEF r1
<1>2. r2 = [todo |-> t \ {x}, cur |-> c, chunks |-> ids, files |-> f, stuck |-> s]
  BY <1>1
<1> HIDE DEF r2
<1>3. r3 = [todo |-> t \ {x}, cur |-> c, chunks |-> ids \cup ({c} \ {None}), files |-> f,
            stuck |-> s]
  BY <1>2
<1> HIDE DEF r3
<1>4. r4 = [todo |-> t \ {x}, cur |-> c, chunks |-> ids \cup ({c} \ {None}), files |-> f,
            stuck |-> s1]
  BY <1>3
<1> QED
  BY <1>4 DEF Command!PassedOver, r3, r2, r1

(* A call that records nothing. *)
LEMMA FailsStep ==
    ASSUME NEW x \in Paths, x \in todo, phase = "adding", todo' = todo \ {x},
           UNCHANGED <<disk, seen, phase, content>>,
           a'.files = a.files,
           a'.chunks = a.chunks \cup ({a'.currentUUID} \ {None}),
           stuck => stuck' /\ a'.currentUUID = a.currentUUID,
           stuck' => a'.currentUUID # None,
           \/ a'.currentUUID = a.currentUUID
           \/ a'.currentUUID \in Command!ChunkFor(proc, x)
    PROVE  Command!AddFileFails(proc, x)
<1> DEFINE c == a'.currentUUID
           pc == [p \in {proc} |->
                    CASE phase = "adding" -> "archive"
                      [] phase = "finalized" -> "upload"
                      [] OTHER -> "idle"]
<1>1. /\ archiver.todo = todo /\ archiver.cur = a.currentUUID /\ archiver.chunks = a.chunks
      /\ archiver.files = a.files /\ (archiver.stuck <=> stuck)
  BY DEF archiver
<1>2. PICK broken \in BOOLEAN : broken = stuck'
  <2>1. stuck' \in BOOLEAN
    BY DEF stuck
  <2> QED
    BY <2>1
<1>3. archiver' = [todo |-> todo \ {x}, cur |-> c, chunks |-> a.chunks \cup ({c} \ {None}),
                   files |-> a.files, stuck |-> broken]
  BY <1>2, Zenon DEF archiver
<1>4. archiver' = Command!PassedOver(archiver, x, c, broken)
  <2> HIDE DEF c
  <2>1. PICK old \in BOOLEAN : old = stuck
    <3>1. stuck \in BOOLEAN
      BY DEF stuck
    <3> QED
      BY <3>1
  <2>2. archiver = [todo |-> todo, cur |-> a.currentUUID, chunks |-> a.chunks,
                    files |-> a.files, stuck |-> old]
    BY <2>1, Zenon DEF archiver
  <2> QED
    BY <1>3, <2>2, PassedOverIs
<1>5. pc[proc] = "archive" /\ pc' = pc
  OBVIOUS
<1>6. /\ c \in IF archiver.stuck THEN {archiver.cur}
                ELSE Command!ChunkFor(proc, x) \cup {archiver.cur}
      /\ archiver.stuck => broken
      /\ broken => c # None
  BY <1>1, <1>2
<1> QED
  BY <1>1, <1>4, <1>5, <1>6
     DEF Command!AddFileFails, command, empty, NoMembers

LEMMA RecordedIs ==
    ASSUME NEW t, NEW k, NEW ids, NEW f, NEW s, NEW x, NEW e
    PROVE  Command!Recorded([todo |-> t, cur |-> k, chunks |-> ids, files |-> f, stuck |-> s],
                            x, e)
           = [todo |-> t \ {x}, cur |-> e.chunk, chunks |-> ids \cup {e.chunk},
              files |-> [f EXCEPT ![x] = e], stuck |-> s]
<1> DEFINE r0 == [todo |-> t, cur |-> k, chunks |-> ids, files |-> f, stuck |-> s]
           r1 == [r0 EXCEPT !.todo = r0.todo \ {x}]
           r2 == [r1 EXCEPT !.cur = e.chunk]
           r3 == [r2 EXCEPT !.chunks = r2.chunks \cup {e.chunk}]
           r4 == [r3 EXCEPT !.files[x] = e]
<1>1. r1 = [todo |-> t \ {x}, cur |-> k, chunks |-> ids, files |-> f, stuck |-> s]
  OBVIOUS
<1> HIDE DEF r1
<1>2. r2 = [todo |-> t \ {x}, cur |-> e.chunk, chunks |-> ids, files |-> f, stuck |-> s]
  BY <1>1
<1> HIDE DEF r2
<1>3. r3 = [todo |-> t \ {x}, cur |-> e.chunk, chunks |-> ids \cup {e.chunk}, files |-> f,
            stuck |-> s]
  BY <1>2
<1> HIDE DEF r3
<1>4. r4 = [todo |-> t \ {x}, cur |-> e.chunk, chunks |-> ids \cup {e.chunk},
            files |-> [f EXCEPT ![x] = e], stuck |-> s]
  BY <1>3
<1> QED
  BY <1>4 DEF Command!Recorded, r3, r2, r1

(* A call that records the file: whole, or short. *)
LEMMA RecordsStep ==
    ASSUME NEW x \in Paths, x \in todo, phase = "adding", todo' = todo \ {x},
           UNCHANGED <<disk, seen, phase>>,
           ~stuck, ~stuck',
           a'.currentUUID \in Command!ChunkFor(proc, x),
           a'.files = [a.files EXCEPT ![x] = MetaFor(x, a'.currentUUID)],
           a'.chunks = a.chunks \cup {a'.currentUUID},
           \/ /\ Command!Readable(proc, x)
              /\ content' = [content EXCEPT ![a'.currentUUID][x] = disk[x]]
           \/ /\ \/ x \in Links /\ disk[x] = None
                 \/ x \notin Links /\ disk[x] # None /\ Size[disk[x]] < Size[seen[x]]
              /\ content' = content
    PROVE  Command!AddFile(proc, x) \/ Command!AddFileShort(proc, x)
<1> DEFINE c == a'.currentUUID
           e == Command!EntryFor(x, seen[x], c)
           pc == [p \in {proc} |->
                    CASE phase = "adding" -> "archive"
                      [] phase = "finalized" -> "upload"
                      [] OTHER -> "idle"]
<1>1. e = MetaFor(x, c) /\ e.chunk = c
  BY DEF Command!EntryFor, MetaFor
<1>n. PICK no \in BOOLEAN : ~no /\ no = stuck /\ no = stuck'
  <2>1. stuck \in BOOLEAN /\ stuck' \in BOOLEAN
    BY DEF stuck
  <2>2. stuck = stuck'
    BY <2>1
  <2> QED
    BY <2>1, <2>2
<1>2. archiver = [todo |-> todo, cur |-> a.currentUUID, chunks |-> a.chunks,
                  files |-> a.files, stuck |-> no]
  BY <1>n, Zenon DEF archiver
<1>3. archiver' = [todo |-> todo \ {x}, cur |-> c, chunks |-> a.chunks \cup {c},
                   files |-> [a.files EXCEPT ![x] = e], stuck |-> no]
  BY <1>1, <1>n, Zenon DEF archiver
<1>4. archiver' = Command!Recorded(archiver, x, e)
  <2> HIDE DEF c, e
  <2> QED
    BY <1>1, <1>2, <1>3, RecordedIs
<1>5. pc[proc] = "archive" /\ pc' = pc
  OBVIOUS
<1>6. archiver.todo = todo /\ archiver.chunks = a.chunks /\ ~archiver.stuck
  BY <1>n, <1>2
<1>7. a'.chunks = a.chunks \cup {c} /\ c \in Command!ChunkFor(proc, x)
  OBVIOUS
<1>8. CASE /\ Command!Readable(proc, x)
           /\ content' = [content EXCEPT ![c][x] = disk[x]]
  BY <1>4, <1>5, <1>6, <1>7, <1>8 DEF Command!AddFile, command, empty, NoMembers
<1>9. CASE /\ \/ x \in Links /\ disk[x] = None
              \/ x \notin Links /\ disk[x] # None /\ Size[disk[x]] < Size[seen[x]]
           /\ content' = content
  BY <1>4, <1>5, <1>6, <1>7, <1>9 DEF Command!AddFileShort, command, empty, NoMembers
<1> QED
  BY <1>8, <1>9

LEMMA ContentSame ==
    ASSUME ArcInv, ChunkInv, NEW x \in todo, NEW b \in ArcStates, NEW m,
           m # None => b.currentUUID # None, Returned(x, b, m), m \notin Versions
    PROVE  content' = content
<1>1. CASE m = None
  BY <1>1 DEF Returned, content
<1>2. CASE m # None
  <2>1. b.currentUUID \in ChunkIds /\ tar' = [tar EXCEPT ![b.currentUUID][x] = m]
    BY <1>2 DEF Returned, ArcStates
  <2>2. x \in Paths /\ None \notin Versions
    BY MarkersAssumption DEF ArcInv, TypeInv
  <2>3. ASSUME NEW c \in ChunkIds, NEW y \in Paths
        PROVE  (IF tar'[c][y] \in Versions THEN tar'[c][y] ELSE None)
               = (IF tar[c][y] \in Versions THEN tar[c][y] ELSE None)
    <3>1. CASE c = b.currentUUID /\ y = x
      <4>1. tar'[c][y] = m /\ tar[c][y] = None
        BY <2>1, <3>1 DEF ArcInv, TypeInv, ChunkInv
      <4> QED
        BY <2>2, <4>1
    <3>2. CASE ~(c = b.currentUUID /\ y = x)
      <4>1. tar'[c][y] = tar[c][y]
        BY <2>1, <3>2 DEF ArcInv, TypeInv
      <4> QED
        BY <4>1
    <3> QED
      BY <3>1, <3>2
  <2> QED
    BY <2>3 DEF content
<1> QED
  BY <1>1, <1>2

LEMMA ContentPut ==
    ASSUME ArcInv, ChunkInv, NEW x \in todo, NEW b \in ArcStates,
           b.currentUUID # None, NEW m \in Versions, Returned(x, b, m)
    PROVE  content' = [content EXCEPT ![b.currentUUID][x] = m]
<1>1. b.currentUUID \in ChunkIds /\ tar' = [tar EXCEPT ![b.currentUUID][x] = m]
  BY MarkersAssumption DEF Returned, ArcStates
<1>2. x \in Paths
  BY DEF ArcInv, TypeInv
<1> DEFINE new == [content EXCEPT ![b.currentUUID][x] = m]
<1>3. content \in [ChunkIds -> [Paths -> Versions \cup {None}]]
  BY DEF content
<1>4. new \in [ChunkIds -> [Paths -> Versions \cup {None}]]
  BY <1>1, <1>2, <1>3
<1>5. content' \in [ChunkIds -> [Paths -> Versions \cup {None}]]
  BY DEF content
<1>6. ASSUME NEW c \in ChunkIds, NEW y \in Paths
      PROVE  content'[c][y] = new[c][y]
  <2>1. content'[c][y] = IF tar'[c][y] \in Versions THEN tar'[c][y] ELSE None
    BY DEF content
  <2>2. content[c][y] = IF tar[c][y] \in Versions THEN tar[c][y] ELSE None
    BY DEF content
  <2>3. tar'[c][y] = IF c = b.currentUUID /\ y = x THEN m ELSE tar[c][y]
    BY <1>1 DEF ArcInv, TypeInv
  <2>4. new[c][y] = IF c = b.currentUUID /\ y = x THEN m ELSE content[c][y]
    BY <1>1, <1>2, <1>3
  <2> HIDE DEF new
  <2> QED
    BY <2>1, <2>2, <2>3, <2>4
<1> HIDE DEF new
<1>7. \A c \in ChunkIds : content'[c] = new[c]
  BY <1>4, <1>5, <1>6
<1>8. content' = new
  BY <1>4, <1>5, <1>7
<1> QED
  BY <1>8 DEF new

LEMMA AddImplements ==
    ASSUME ArcInv, ChunkInv, NEW x \in Paths, AddFile(x)
    PROVE  Command!Archive(proc)
<1>0. x \in todo /\ phase = "adding" /\ Sound(a, tar)
  BY DEF AddFile, AddSpecial, AddRefused, AddUnreadable, AddRegular, AddLink, Adding, ChunkInv
<1>c. a.currentUUID \in a.chunks \cup {None}
  BY <1>0 DEF Sound
<1>f. SUFFICES \/ Command!AddFile(proc, x)
               \/ Command!AddFileShort(proc, x)
               \/ Command!AddFileFails(proc, x)
  BY DEF Command!Archive
<1>1. CASE AddSpecial(x)
  <2>1. Returned(x, a, None) /\ a \in ArcStates /\ None \notin Versions
    BY <1>1, MarkersAssumption DEF AddSpecial, ArcInv, TypeInv
  <2>2. content' = content
    BY <1>0, <2>1, ContentSame
  <2>3. /\ todo' = todo \ {x} /\ UNCHANGED <<disk, seen, phase, tar, a>>
    BY <2>1 DEF Returned
  <2>4. stuck' <=> stuck
    BY <2>3 DEF stuck, Recorded
  <2>5. stuck => a.currentUUID # None
    BY <1>0, StuckIs DEF Sound, ArcInv, Working
  <2> QED
    BY <1>0, <1>c, <2>2, <2>3, <2>4, <2>5, FailsStep
<1>2. CASE AddRefused(x)
  <2>1. PICK r \in Ready(x) : ~(r.ok /\ HeaderAccepted(r.b)) /\ Returned(x, r.b, None)
    BY <1>2 DEF AddRefused
  <2>2. r.b \in ArcStates /\ Sound(r.b, tar) /\ None \notin Versions
    BY <1>0, ReadyStates, ReadySound, MarkersAssumption
  <2>3. content' = content
    BY <1>0, <2>1, <2>2, ContentSame
  <2>4. todo' = todo \ {x} /\ UNCHANGED <<disk, seen, phase, tar>> /\ a' = r.b
    BY <2>1 DEF Returned
  <2>5. /\ r.b.currentUUID = a.currentUUID /\ r.b.chunks = a.chunks /\ r.b.files = a.files
        /\ r.b.tw # "nil" => r.b.currentUUID # None
    <3>1. ASSUME NEW c \in ChunkIds, r.b = Opened(a, c), r.ok
          PROVE  FALSE
      BY <2>1, <3>1 DEF HeaderAccepted, Opened, ArcInv, TypeInv, ArcStates
    <3>2. r.b = a \/ r.b = Refused(a) \/ r.b = NotCreated(a)
      BY <3>1, ReadyKinds
    <3>3. r.b.currentUUID = a.currentUUID /\ r.b.chunks = a.chunks
      BY <3>2 DEF Refused, NotCreated, ArcInv, TypeInv, ArcStates
    <3> QED
      BY <3>3, ReadyStates
  <2>6. stuck => stuck'
    <3> SUFFICES ASSUME stuck
                 PROVE  stuck'
      OBVIOUS
    <3>1. a' = a
      BY <1>0, <2>4, StuckCalls
    <3> QED
      BY <2>4, <3>1 DEF stuck, Recorded
  <2>7. stuck' => a'.currentUUID # None
    <3> SUFFICES ASSUME stuck'
                 PROVE  r.b.currentUUID # None
      BY <2>4
    <3>1. r.b.tw = "closed" \/ r.b.pending
      BY <2>4 DEF stuck
    <3> QED
      BY <2>2, <2>5, <3>1 DEF Sound
  <2> QED
    BY <1>0, <1>c, <2>3, <2>4, <2>5, <2>6, <2>7, FailsStep
<1>3. CASE AddUnreadable(x)
  <2>1. PICK r \in Ready(x) :
            /\ r.ok /\ HeaderAccepted(r.b)
            /\ Returned(x, Announced(r.b, x), IF Size[seen[x]] > 0 THEN Torn ELSE Other)
    BY <1>3 DEF AddUnreadable
  <2> DEFINE b == Announced(r.b, x)
             m == IF Size[seen[x]] > 0 THEN Torn ELSE Other
  <2>2. r.b \in ArcStates /\ r.b.files = a.files
    BY <1>0, ReadyStates
  <2>3. /\ ~stuck /\ r.b.currentUUID \in ChunkIds
        /\ r.b.currentUUID \in Command!ChunkFor(proc, x)
        /\ r.b.chunks = a.chunks \cup {r.b.currentUUID}
    BY <1>0, <2>1, ChunkChosen
  <2>4. /\ b \in ArcStates /\ b.files = r.b.files /\ b.chunks = r.b.chunks
        /\ b.currentUUID = r.b.currentUUID
    BY <1>0, <2>2, AnnouncedStates
  <2>5. r.b.currentUUID # None /\ m \notin Versions
    BY <2>3, MarkersAssumption
  <2>6. Returned(x, b, m)
    BY <2>1
  <2> HIDE DEF b, m
  <2>7. content' = content
    BY <1>0, <2>4, <2>5, <2>6, ContentSame
  <2>8. todo' = todo \ {x} /\ UNCHANGED <<disk, seen, phase>> /\ a' = b
    BY <2>6 DEF Returned
  <2> QED
    BY <1>0, <2>2, <2>3, <2>4, <2>5, <2>7, <2>8, FailsStep
<1>4. CASE AddRegular(x)
  <2>1. PICK r \in Ready(x) :
            /\ r.ok /\ HeaderAccepted(r.b)
            /\ Returned(x, Copied(r.b, x, disk[x]), MemberOf(x, disk[x]))
    BY <1>4 DEF AddRegular
  <2> DEFINE b == Copied(r.b, x, disk[x])
             m == MemberOf(x, disk[x])
  <2>2. /\ r.b \in ArcStates /\ r.b.files = a.files /\ r.b.tw = "open" /\ ~r.b.pending
    BY <1>0, <2>1, ReadyStates DEF HeaderAccepted
  <2>3. /\ ~stuck /\ r.b.currentUUID \in ChunkIds
        /\ r.b.currentUUID \in Command!ChunkFor(proc, x)
        /\ r.b.chunks = a.chunks \cup {r.b.currentUUID}
    BY <1>0, <2>1, ChunkChosen
  <2>4. r.b.currentUUID # None /\ disk[x] # None /\ x \notin Links
    BY <1>4, <2>3, MarkersAssumption DEF AddRegular
  <2>5. disk[x] \in Versions /\ Size[disk[x]] \in Nat /\ Size[seen[x]] \in Nat
    BY <1>0, <2>4, SizesOf, SortsAssumption DEF ArcInv, TypeInv, FileMap
  <2>6. /\ b \in ArcStates /\ b.tw = "open" /\ b.currentUUID = r.b.currentUUID
        /\ b.chunks = r.b.chunks
        /\ b.pending <=> Size[disk[x]] < Size[seen[x]]
        /\ b.files = IF Size[disk[x]] > Size[seen[x]] THEN a.files
                     ELSE [a.files EXCEPT ![x] = MetaFor(x, r.b.currentUUID)]
    BY <1>0, <2>2, <2>4, <2>5, CopiedStates
  <2>7. /\ Size[disk[x]] = Size[seen[x]] => m = disk[x]
        /\ Size[disk[x]] < Size[seen[x]] => m = Torn
        /\ Size[disk[x]] > Size[seen[x]] => m = Other
    BY <2>5 DEF MemberOf
  <2>8. Returned(x, b, m)
    BY <2>1
  <2> HIDE DEF b, m
  <2>9. todo' = todo \ {x} /\ UNCHANGED <<disk, seen, phase>> /\ a' = b
    BY <2>8 DEF Returned
  <2>10. CASE Size[disk[x]] > Size[seen[x]]
    <3>1. content' = content
      BY <1>0, <2>4, <2>6, <2>7, <2>8, <2>10, ContentSame, MarkersAssumption
    <3>2. b.files = a.files
      BY <2>6, <2>10
    <3> QED
      BY <1>0, <2>3, <2>4, <2>6, <2>9, <3>1, <3>2, FailsStep
  <2>11. CASE Size[disk[x]] = Size[seen[x]]
    <3>1. content' = [content EXCEPT ![b.currentUUID][x] = disk[x]]
      BY <1>0, <2>4, <2>5, <2>6, <2>7, <2>8, <2>11, ContentPut
    <3>2. ~stuck'
      BY <2>5, <2>6, <2>9, <2>11 DEF stuck
    <3>3. Command!Readable(proc, x)
      BY <1>0, <2>4, <2>11 DEF Command!Readable
    <3>4. b.files = [a.files EXCEPT ![x] = MetaFor(x, b.currentUUID)]
      BY <2>5, <2>6, <2>11
    <3> QED
      BY <1>0, <2>3, <2>6, <2>9, <3>1, <3>2, <3>3, <3>4, RecordsStep
  <2>12. CASE Size[disk[x]] < Size[seen[x]]
    <3>1. content' = content
      BY <1>0, <2>4, <2>6, <2>7, <2>8, <2>12, ContentSame, MarkersAssumption
    <3>2. b.files = [a.files EXCEPT ![x] = MetaFor(x, b.currentUUID)]
      BY <2>5, <2>6, <2>12
    <3>3. x \in Recorded'
      <4>1. MetaFor(x, b.currentUUID) # None
        BY <1>0, <2>3, <2>6, MetaTypes, MetaAssumption
      <4> QED
        BY <2>9, <3>2, <4>1 DEF Recorded, ArcInv, TypeInv, ArcStates
    <3>4. tar'[b.currentUUID][x] = Torn
      BY <2>3, <2>6, <2>7, <2>8, <2>12, MarkersAssumption DEF Returned, ArcInv, TypeInv
    <3>5. ~stuck'
      BY <2>6, <2>9, <3>3, <3>4 DEF stuck
    <3> QED
      BY <1>0, <2>3, <2>4, <2>6, <2>9, <2>12, <3>1, <3>2, <3>5, RecordsStep
  <2> QED
    BY <2>5, <2>10, <2>11, <2>12
<1>5. CASE AddLink(x)
  <2>1. PICK r \in Ready(x) :
            /\ r.ok /\ HeaderAccepted(r.b)
            /\ Returned(x, Tracked(r.b, x), IF disk[x] = None THEN Other ELSE disk[x])
    BY <1>5 DEF AddLink
  <2> DEFINE b == Tracked(r.b, x)
             m == IF disk[x] = None THEN Other ELSE disk[x]
  <2>2. /\ r.b \in ArcStates /\ r.b.files = a.files /\ r.b.tw = "open" /\ ~r.b.pending
    BY <1>0, <2>1, ReadyStates DEF HeaderAccepted
  <2>3. /\ ~stuck /\ r.b.currentUUID \in ChunkIds
        /\ r.b.currentUUID \in Command!ChunkFor(proc, x)
        /\ r.b.chunks = a.chunks \cup {r.b.currentUUID}
    BY <1>0, <2>1, ChunkChosen
  <2>4. r.b.currentUUID # None /\ x \in Links
    BY <1>5, <2>3, MarkersAssumption DEF AddLink
  <2>5. /\ b \in ArcStates /\ b.tw = "open" /\ b.currentUUID = r.b.currentUUID
        /\ b.chunks = r.b.chunks /\ b.pending = r.b.pending
        /\ b.files = [a.files EXCEPT ![x] = MetaFor(x, r.b.currentUUID)]
    BY <1>0, <2>2, <2>4, TrackedStates
  <2>6. Returned(x, b, m)
    BY <2>1
  <2>7. /\ disk[x] = None => m = Other
        /\ disk[x] # None => m = disk[x] /\ m \in Versions
    BY <1>0 DEF ArcInv, TypeInv, FileMap
  <2> HIDE DEF b, m
  <2>8. todo' = todo \ {x} /\ UNCHANGED <<disk, seen, phase>> /\ a' = b
    BY <2>6 DEF Returned
  <2>9. ~stuck'
    BY <2>2, <2>5, <2>8 DEF stuck
  <2>10. CASE disk[x] = None
    <3>1. content' = content
      BY <1>0, <2>4, <2>5, <2>6, <2>7, <2>10, ContentSame, MarkersAssumption
    <3> QED
      BY <1>0, <2>3, <2>4, <2>5, <2>8, <2>9, <2>10, <3>1, RecordsStep
  <2>11. CASE disk[x] # None
    <3>1. content' = [content EXCEPT ![b.currentUUID][x] = disk[x]]
      BY <1>0, <2>4, <2>5, <2>6, <2>7, <2>11, ContentPut
    <3>2. Command!Readable(proc, x)
      BY <2>4, <2>11 DEF Command!Readable
    <3> QED
      BY <1>0, <2>3, <2>5, <2>8, <2>9, <3>1, <3>2, RecordsStep
  <2> QED
    BY <2>10, <2>11
<1> QED
  BY <1>1, <1>2, <1>3, <1>4, <1>5 DEF AddFile

LEMMA FinalizeImplements ==
    ASSUME ArcInv, ChunkInv, Finalize
    PROVE  Command!Archive(proc)
<1> DEFINE pc == [p \in {proc} |->
                    CASE phase = "adding" -> "archive"
                      [] phase = "finalized" -> "upload"
                      [] OTHER -> "idle"]
<1>0. /\ phase = "adding" /\ todo = {} /\ Sound(a, tar)
      /\ UNCHANGED <<disk, seen, edited, todo, tar>>
  BY DEF Finalize, ChunkInv
<1>1. pc[proc] = "archive"
  BY <1>0
<1>2. content' = content
  BY <1>0 DEF content
<1>3. CASE a.tw # "nil" /\ CloseRefused(a)
  <2>1. phase' = "failed" /\ a'.chunks = a.chunks
    BY <1>3 DEF Finalize, Refused, ArcInv, TypeInv, ArcStates
  <2>2. /\ archiver' = Command!NewArchiver
        /\ command' = [cmd |-> None, args |-> {}, prefix |-> prefix]
        /\ pc' = [p \in {proc} |-> "idle"]
    BY <2>1 DEF archiver, command, Command!NewArchiver, Command!NoFiles, NoMembers
  <2>3. Command!ArchiveAborts(proc)
    BY <1>0, <1>1, <1>2, <2>1, <2>2
       DEF Command!ArchiveAborts, Command!Exit, Command!NoJob, Command!NewManifest,
           Command!NoFiles, Command!remote, Command!chunkdata, empty, NoMembers, prefix
  <2> QED
    BY <2>3 DEF Command!Archive
<1>4. CASE ~(a.tw # "nil" /\ CloseRefused(a))
  <2>1. /\ phase' = "finalized" /\ a' = [a EXCEPT !.tw = "nil", !.file = FALSE]
    BY <1>4 DEF Finalize
  <2>2. /\ a'.tw = "nil" /\ a'.pending = a.pending /\ a'.currentUUID = a.currentUUID
        /\ a'.chunks = a.chunks /\ a'.files = a.files
    BY <2>1 DEF ArcInv, TypeInv, ArcStates
  <2>3. ~stuck
    BY <1>0, <1>4, StuckIs DEF CloseRefused, Sound, ArcInv, TypeInv, ArcStates
  <2>4. ~stuck'
    BY <1>0, <2>2, <2>3 DEF stuck, Recorded
  <2>5. /\ archiver' = archiver /\ archiver.todo = {} /\ ~archiver.stuck
        /\ archiver.chunks = a.chunks
    <3>1. PICK no \in BOOLEAN : ~no /\ no = stuck /\ no = stuck'
      <4>1. stuck \in BOOLEAN /\ stuck' \in BOOLEAN
        BY DEF stuck
      <4>2. stuck = stuck'
        BY <2>3, <2>4, <4>1
      <4> QED
        BY <2>3, <2>4, <4>1, <4>2
    <3>2. archiver = [todo |-> todo, cur |-> a.currentUUID, chunks |-> a.chunks,
                      files |-> a.files, stuck |-> no]
      BY <1>0, <3>1, Zenon DEF archiver
    <3>3. archiver' = [todo |-> todo', cur |-> a'.currentUUID, chunks |-> a'.chunks,
                       files |-> a'.files, stuck |-> no]
      BY <2>1, <3>1, Zenon DEF archiver
    <3> QED
      BY <1>0, <2>2, <3>1, <3>2, <3>3
  <2>6. /\ command' = command
        /\ pc' = [pc EXCEPT ![proc] = "upload"]
    BY <1>0, <2>1 DEF command
  <2>7. Command!Finalize(proc)
    BY <1>0, <1>1, <1>2, <2>1, <2>2, <2>5, <2>6
       DEF Command!Finalize, Command!Goto, Command!remote, Command!chunkdata, empty, NoMembers
  <2> QED
    BY <2>7 DEF Command!Archive
<1> QED
  BY <1>3, <1>4

LEMMA EditImplements ==
    ASSUME NEW x \in Paths, Edit(x)
    PROVE  Command!Edit(x)
<1>1. /\ UNCHANGED <<seen, todo, a, tar, phase>>
      /\ \E v \in (Versions \cup {None}) \ {disk[x]} : disk' = [disk EXCEPT ![x] = v]
  BY DEF Edit
<1>2. archiver' = archiver /\ content' = content /\ command' = command
  BY <1>1 DEF archiver, stuck, Recorded, content, command
<1> QED
  BY <1>1, <1>2
     DEF Command!Edit, Command!remote, Command!chunkdata, Command!local, empty, NoMembers

LEMMA ArchiveStep ==
    ArcInv /\ ChunkInv /\ [Next]_vars
        => [Command!Archive(proc) \/ \E x \in Paths : Command!Edit(x)]_vars
BY AddImplements, FinalizeImplements, EditImplements DEF Next

-----------------------------------------------------------------------------
(* Induction over the naturals, for a set of them. *)
LEMMA Induction ==
    ASSUME NEW N, 0 \in N, \A n \in Nat : n \in N => n + 1 \in N
    PROVE  Nat \subseteq N
<1> DEFINE T == Nat \ N
<1> SUFFICES ASSUME T # {} PROVE FALSE
  OBVIOUS
<1>1. PICK m \in T : \A k \in T : ~(<<k, m>> \in OpToRel(<, Nat))
  <2>1. T \subseteq Nat /\ T # {}
    OBVIOUS
  <2> HIDE DEF T
  <2> QED
    BY <2>1, NatLessThanWellFounded, WFMin
<1>2. m \in Nat \ {0} /\ m - 1 \in Nat
  OBVIOUS
<1>3. m - 1 \in T
  BY <1>2
<1>4. <<m - 1, m>> \in OpToRel(<, Nat)
  BY <1>2 DEF OpToRel
<1> QED
  BY <1>1, <1>3, <1>4

-----------------------------------------------------------------------------
(* Sums: the sizes that the walk saw of the files of a finite set.  The sum *)
(* is a fold, a function that takes the files out of the set one by one, in *)
(* an order of its own.                                                     *)

Bytes(sn, T) == MapThenSumSet(LAMBDA x : Size[sn[x]], T)

Pick(s) == CHOOSE x \in s : TRUE

SumStep(sn, g, s) == IF s = {} THEN 0 ELSE Size[sn[Pick(s)]] + g[s \ {Pick(s)}]

IsSum(sn, T, g) == g = [s \in SUBSET T |-> SumStep(sn, g, s)]

Sum(sn, T) == CHOOSE g : IsSum(sn, T, g)

Sized(sn, T) == IsFiniteSet(T) /\ \A x \in T : Size[sn[x]] \in Nat

LEMMA BytesIsSum ==
    ASSUME NEW sn, NEW T
    PROVE  Bytes(sn, T) = Sum(sn, T)[T]
BY DEF Bytes, MapThenSumSet, MapThenFoldSet, Sum, IsSum, SumStep, Pick

LEMMA Picked ==
    ASSUME NEW s, s # {}
    PROVE  Pick(s) \in s
BY DEF Pick

(* What is left when a file is taken out of a part of T. *)
LEMMA OneLess ==
    ASSUME NEW T, IsFiniteSet(T), NEW s \in SUBSET T, NEW x \in s
    PROVE  /\ s \ {x} \in SUBSET T
           /\ Cardinality(s) \in Nat /\ Cardinality(s \ {x}) \in Nat
           /\ Cardinality(s \ {x}) = Cardinality(s) - 1
<1>1. IsFiniteSet(s)
  BY FS_Subset
<1> QED
  BY <1>1, FS_CardinalityType, FS_RemoveElement

(* The parts of T with no more than n files. *)
Parts(T, n) == {s \in SUBSET T : Cardinality(s) <= n}

LEMMA SumExists ==
    ASSUME NEW sn, NEW T, IsFiniteSet(T)
    PROVE  \E g : IsSum(sn, T, g)
<1> DEFINE Upto(n, g) == g = [s \in Parts(T, n) |-> SumStep(sn, g, s)]
           N == {n \in Nat : \E g : Upto(n, g)}
<1>0. \A s \in SUBSET T : Cardinality(s) \in Nat /\ (Cardinality(s) = 0 => s = {})
  BY FS_Subset, FS_CardinalityType, FS_EmptySet
<1>1. 0 \in N
  <2> DEFINE g == [s \in Parts(T, 0) |-> 0]
  <2>1. \A s \in Parts(T, 0) : s = {}
    BY <1>0 DEF Parts
  <2>2. \A s \in Parts(T, 0) : SumStep(sn, g, s) = 0
    BY <2>1 DEF SumStep
  <2>3. Upto(0, g)
    BY <2>2
  <2> HIDE DEF g, Upto
  <2> QED
    BY <2>3
<1>2. ASSUME NEW n \in Nat, n \in N
      PROVE  n + 1 \in N
  <2>1. PICK g : Upto(n, g)
    BY <1>2
  <2> DEFINE h == [s \in Parts(T, n + 1) |-> SumStep(sn, g, s)]
  <2>2. ASSUME NEW s \in Parts(T, n)
        PROVE  h[s] = g[s]
    <3>1. s \in Parts(T, n + 1)
      BY <1>0 DEF Parts
    <3>2. g[s] = SumStep(sn, g, s)
      BY <2>1
    <3> QED
      BY <3>1, <3>2
  <2>3. ASSUME NEW s \in Parts(T, n + 1)
        PROVE  SumStep(sn, g, s) = SumStep(sn, h, s)
    <3>1. CASE s = {}
      BY <3>1 DEF SumStep
    <3>2. CASE s # {}
      <4>1. s \ {Pick(s)} \in Parts(T, n)
        BY <3>2, OneLess, Picked DEF Parts
      <4> HIDE DEF h
      <4> QED
        BY <2>2, <3>2, <4>1 DEF SumStep
    <3> QED
      BY <3>1, <3>2
  <2>4. h = [s \in Parts(T, n + 1) |-> SumStep(sn, h, s)]
    BY <2>3
  <2> HIDE DEF h
  <2>5. Upto(n + 1, h)
    BY <2>4
  <2> HIDE DEF Upto
  <2> QED
    BY <2>5
<1>3. Nat \subseteq N
  <2> HIDE DEF N
  <2> QED
    BY <1>1, <1>2, Induction
<1>4. PICK g : Upto(Cardinality(T), g)
  BY <1>3, FS_CardinalityType
<1>5. Parts(T, Cardinality(T)) = SUBSET T
  BY FS_Subset DEF Parts
<1> QED
  BY <1>4, <1>5 DEF IsSum

LEMMA SumIs ==
    ASSUME NEW sn, NEW T, IsFiniteSet(T), NEW s \in SUBSET T
    PROVE  Sum(sn, T)[s] = SumStep(sn, Sum(sn, T), s)
<1>1. IsSum(sn, T, Sum(sn, T))
  BY SumExists DEF Sum
<1> HIDE DEF Sum
<1> QED
  BY <1>1 DEF IsSum

(* The sum of a part is the same within the whole. *)
LEMMA SumWithin ==
    ASSUME NEW sn, NEW T, IsFiniteSet(T), NEW s \in SUBSET T
    PROVE  Bytes(sn, s) = Sum(sn, T)[s]
<1> DEFINE N == {n \in Nat : \A t \in SUBSET s :
                     Cardinality(t) = n => Sum(sn, s)[t] = Sum(sn, T)[t]}
<1>0. IsFiniteSet(s) /\ Cardinality(s) \in Nat
  BY FS_Subset, FS_CardinalityType
<1>1. 0 \in N
  <2> SUFFICES ASSUME NEW t \in SUBSET s, Cardinality(t) = 0
               PROVE  Sum(sn, s)[t] = Sum(sn, T)[t]
    OBVIOUS
  <2>1. t = {}
    BY <1>0, FS_Subset, FS_EmptySet
  <2> QED
    BY <1>0, <2>1, SumIs DEF SumStep
<1>2. ASSUME NEW n \in Nat, n \in N
      PROVE  n + 1 \in N
  <2> SUFFICES ASSUME NEW t \in SUBSET s, Cardinality(t) = n + 1
               PROVE  Sum(sn, s)[t] = Sum(sn, T)[t]
    OBVIOUS
  <2>1. t # {}
    BY FS_EmptySet
  <2> DEFINE u == t \ {Pick(t)}
  <2>2. u \in SUBSET s /\ Cardinality(u) = n
    BY <1>0, <2>1, OneLess, Picked
  <2>3. Sum(sn, s)[u] = Sum(sn, T)[u]
    BY <1>2, <2>2
  <2>4. /\ Sum(sn, s)[t] = Size[sn[Pick(t)]] + Sum(sn, s)[u]
        /\ Sum(sn, T)[t] = Size[sn[Pick(t)]] + Sum(sn, T)[u]
    BY <1>0, <2>1, SumIs DEF SumStep
  <2> QED
    BY <2>3, <2>4
<1>3. Cardinality(s) \in N
  <2> HIDE DEF N
  <2> QED
    BY <1>0, <1>1, <1>2, Induction
<1> QED
  BY <1>3, BytesIsSum

LEMMA NoBytes == ASSUME NEW sn PROVE Bytes(sn, {}) = 0
BY FS_EmptySet, SumIs, BytesIsSum DEF SumStep

LEMMA BytesPicked ==
    ASSUME NEW sn, NEW T, IsFiniteSet(T), T # {}
    PROVE  Bytes(sn, T) = Size[sn[Pick(T)]] + Bytes(sn, T \ {Pick(T)})
<1>0. Sum(sn, T)[T] = SumStep(sn, Sum(sn, T), T)
  BY SumIs
<1>1. Bytes(sn, T) = Size[sn[Pick(T)]] + Sum(sn, T)[T \ {Pick(T)}]
  BY <1>0, BytesIsSum DEF SumStep
<1>2. Bytes(sn, T \ {Pick(T)}) = Sum(sn, T)[T \ {Pick(T)}]
  BY SumWithin
<1> QED
  BY <1>1, <1>2

LEMMA BytesNat ==
    ASSUME NEW sn, NEW T, Sized(sn, T)
    PROVE  Bytes(sn, T) \in Nat
<1> DEFINE N == {n \in Nat : \A t \in SUBSET T : Cardinality(t) = n => Bytes(sn, t) \in Nat}
<1>0. IsFiniteSet(T) /\ Cardinality(T) \in Nat
  BY FS_CardinalityType DEF Sized
<1>1. 0 \in N
  BY <1>0, FS_Subset, FS_EmptySet, NoBytes
<1>2. ASSUME NEW n \in Nat, n \in N
      PROVE  n + 1 \in N
  <2> SUFFICES ASSUME NEW t \in SUBSET T, Cardinality(t) = n + 1
               PROVE  Bytes(sn, t) \in Nat
    OBVIOUS
  <2>1. t # {} /\ IsFiniteSet(t)
    BY <1>0, FS_EmptySet, FS_Subset
  <2> DEFINE u == t \ {Pick(t)}
  <2>2. u \in SUBSET T /\ Cardinality(u) = n /\ Pick(t) \in T
    BY <1>0, <2>1, OneLess, Picked
  <2>3. Bytes(sn, u) \in Nat
    BY <1>2, <2>2
  <2>4. Size[sn[Pick(t)]] \in Nat
    BY <2>2 DEF Sized
  <2> QED
    BY <2>1, <2>3, <2>4, BytesPicked
<1>3. Cardinality(T) \in N
  <2> HIDE DEF N
  <2> QED
    BY <1>0, <1>1, <1>2, Induction
<1> QED
  BY <1>3

(* The order does not matter: any file can be the first. *)
LEMMA BytesWithout ==
    ASSUME NEW sn, NEW T, Sized(sn, T), NEW x \in T
    PROVE  Bytes(sn, T) = Size[sn[x]] + Bytes(sn, T \ {x})
<1> DEFINE Splits(t) == \A y \in t : Bytes(sn, t) = Size[sn[y]] + Bytes(sn, t \ {y})
           N == {n \in Nat : \A t \in SUBSET T : Cardinality(t) = n => Splits(t)}
<1>0. IsFiniteSet(T) /\ Cardinality(T) \in Nat
  BY FS_CardinalityType DEF Sized
<1>1. 0 \in N
  BY <1>0, FS_Subset, FS_EmptySet
<1>2. ASSUME NEW n \in Nat, n \in N
      PROVE  n + 1 \in N
  <2> SUFFICES ASSUME NEW t \in SUBSET T, Cardinality(t) = n + 1, NEW y \in t
               PROVE  Bytes(sn, t) = Size[sn[y]] + Bytes(sn, t \ {y})
    OBVIOUS
  <2> DEFINE p == Pick(t)
  <2>1. IsFiniteSet(t) /\ p \in t
    BY <1>0, FS_Subset, Picked
  <2>2. Bytes(sn, t) = Size[sn[p]] + Bytes(sn, t \ {p})
    BY <2>1, BytesPicked
  <2>3. CASE y = p
    BY <2>2, <2>3
  <2>4. CASE y # p
    <3> HIDE DEF p
    <3>1. Splits(t \ {p}) /\ Splits(t \ {y})
      <4>1. \A z \in t : t \ {z} \in SUBSET T /\ Cardinality(t \ {z}) = n
        BY <1>0, OneLess
      <4> HIDE DEF Splits
      <4> QED
        BY <1>2, <2>1, <4>1
    <3>2. Bytes(sn, t \ {p}) = Size[sn[y]] + Bytes(sn, (t \ {p}) \ {y})
      BY <2>4, <3>1
    <3>3. Bytes(sn, t \ {y}) = Size[sn[p]] + Bytes(sn, (t \ {y}) \ {p})
      BY <2>1, <2>4, <3>1
    <3>4. (t \ {p}) \ {y} = (t \ {y}) \ {p}
      OBVIOUS
    <3>5. Bytes(sn, (t \ {y}) \ {p}) \in Nat
      <4>1. Sized(sn, (t \ {y}) \ {p})
        BY <2>1, FS_RemoveElement DEF Sized
      <4> QED
        BY <4>1, BytesNat
    <3>6. Size[sn[y]] \in Nat /\ Size[sn[p]] \in Nat
      BY <2>1 DEF Sized
    <3>7. ASSUME NEW i \in Nat, NEW j \in Nat, NEW k \in Nat
          PROVE  i + (j + k) = j + (i + k)
      OBVIOUS
    <3> HIDE DEF Splits, N
    <3>8. Bytes(sn, t \ {p}) = Size[sn[y]] + Bytes(sn, (t \ {y}) \ {p})
      BY <3>2, <3>4
    <3>9. Bytes(sn, t) = Size[sn[p]] + (Size[sn[y]] + Bytes(sn, (t \ {y}) \ {p}))
      BY <2>2, <3>8
    <3>10. Bytes(sn, t) = Size[sn[y]] + (Size[sn[p]] + Bytes(sn, (t \ {y}) \ {p}))
      BY <3>5, <3>6, <3>7, <3>9
    <3> QED
      BY <3>3, <3>10
  <2> QED
    BY <2>3, <2>4
<1>3. Cardinality(T) \in N
  <2> HIDE DEF N
  <2> QED
    BY <1>0, <1>1, <1>2, Induction
<1> QED
  BY <1>3

(* One more file. *)
LEMMA BytesWith ==
    ASSUME NEW sn, NEW T, Sized(sn, T), NEW x, x \notin T, Size[sn[x]] \in Nat
    PROVE  /\ Sized(sn, T \cup {x})
           /\ Bytes(sn, T \cup {x}) = Size[sn[x]] + Bytes(sn, T)
<1>1. Sized(sn, T \cup {x})
  BY FS_AddElement DEF Sized
<1>2. (T \cup {x}) \ {x} = T
  OBVIOUS
<1> QED
  BY <1>1, <1>2, BytesWithout

-----------------------------------------------------------------------------
(* What a chunk weighs *)

Counted(t, c) == {x \in Paths \ Links : t[c][x] \notin {None, Other}}

WeightIn(t, c) == Bytes(seen, Counted(t, c))

(* Only the current chunk can be short of the limit, and none had reached   *)
(* it before its last file.                                                 *)
Filling(b, t) ==
    /\ b.currentUUID \in b.chunks \cup {None}
    /\ \A c \in ChunkIds \ b.chunks, x \in Paths : t[c][x] = None
    /\ \A c \in b.chunks \ {b.currentUUID} : WeightIn(t, c) >= ChunkLimit
    /\ \A c \in b.chunks : WeightIn(t, c) >= ChunkLimit =>
          \E x \in Paths \ Links : t[c][x] # None /\ WeightIn(t, c) - Size[seen[x]] < ChunkLimit

(* The running size is what the chunk weighs, until a member is cut short.  *)
Counting(b, t) ==
    b.currentUUID # None =>
        /\ b.currentSize <= WeightIn(t, b.currentUUID)
        /\ ~b.pending => b.currentSize = WeightIn(t, b.currentUUID)

FillInv ==
    /\ Filling(a, tar)
    /\ phase = "adding" => Counting(a, tar)
    /\ \A c \in ChunkIds : Sized(seen, Counted(tar, c))

LEMMA WeightIs ==
    /\ \A c : Weight(c) = WeightIn(tar, c)
    /\ (\A c : Weight(c) = WeightIn(tar, c))'
<1>1. \A c : Weight(c) = WeightIn(tar, c)
  <2> SUFFICES ASSUME NEW c PROVE Weight(c) = WeightIn(tar, c)
    OBVIOUS
  <2>1. Counted(tar, c) = {x \in Members(c) \ Links : tar[c][x] # Other}
    BY DEF Counted, Members
  <2> QED
    BY <2>1 DEF Weight, WeightIn, Bytes
<1> QED
  BY <1>1, PTL

LEMMA EmptyChunk ==
    ASSUME NEW t, NEW c, \A x \in Paths : t[c][x] = None
    PROVE  WeightIn(t, c) = 0
<1>1. Counted(t, c) = {}
  BY DEF Counted
<1> QED
  BY <1>1, NoBytes DEF WeightIn

Put(d, x, m) == [tar EXCEPT ![d][x] = m]

(* What one more member adds to the weight of its chunk. *)
LEMMA WeightPut ==
    ASSUME ArcInv, FillInv, NEW x \in todo, NEW d \in ChunkIds, NEW m \in Marks, m # None,
           tar[d][x] = None, NEW t, t = Put(d, x, m)
    PROVE  /\ \A c \in ChunkIds : Sized(seen, Counted(t, c))
           /\ \A c \in ChunkIds \ {d} : WeightIn(t, c) = WeightIn(tar, c)
           /\ x \in Links \/ m = Other => WeightIn(t, d) = WeightIn(tar, d)
           /\ x \notin Links /\ m # Other => WeightIn(t, d) = Size[seen[x]] + WeightIn(tar, d)
           /\ WeightIn(tar, d) \in Nat
<1>0. /\ x \in Paths /\ Size[seen[x]] \in Nat
      /\ \A c \in ChunkIds, y \in Paths : t[c][y] = IF c = d /\ y = x THEN m ELSE tar[c][y]
  BY SizesOf DEF ArcInv, TypeInv, Put
<1>1. ASSUME NEW c \in ChunkIds, c # d \/ x \in Links \/ m = Other
      PROVE  Counted(t, c) = Counted(tar, c)
  BY <1>0, <1>1 DEF Counted
<1>2. ASSUME x \notin Links, m # Other
      PROVE  Counted(t, d) = Counted(tar, d) \cup {x}
  BY <1>0, <1>2 DEF Counted
<1>3. Sized(seen, Counted(tar, d)) /\ x \notin Counted(tar, d)
  BY DEF FillInv, Counted
<1>4. WeightIn(tar, d) \in Nat
  BY <1>3, BytesNat DEF WeightIn
<1>5. ASSUME x \notin Links, m # Other
      PROVE  /\ Sized(seen, Counted(t, d))
             /\ WeightIn(t, d) = Size[seen[x]] + WeightIn(tar, d)
  <2>1. /\ Sized(seen, Counted(tar, d) \cup {x})
        /\ Bytes(seen, Counted(tar, d) \cup {x}) = Size[seen[x]] + Bytes(seen, Counted(tar, d))
    BY <1>0, <1>3, BytesWith
  <2>2. Counted(t, d) = Counted(tar, d) \cup {x}
    BY <1>2, <1>5
  <2> QED
    BY <2>1, <2>2 DEF WeightIn
<1>6. ASSUME NEW c \in ChunkIds PROVE Sized(seen, Counted(t, c))
  BY <1>1, <1>5 DEF FillInv
<1> QED
  BY <1>1, <1>4, <1>5, <1>6 DEF WeightIn

(* rollChunk leaves a chunk only when it is full. *)
LEMMA ReadyFilling ==
    ASSUME ArcInv, ChunkInv, FillInv, phase = "adding", NEW x \in Paths, NEW r \in Ready(x)
    PROVE  Filling(r.b, tar) /\ Counting(r.b, tar)
<1>0. Filling(a, tar) /\ Counting(a, tar) /\ a \in ArcStates
  BY DEF FillInv, ArcInv, TypeInv
<1>1. CASE r.b = a
  BY <1>0, <1>1
<1>2. ASSUME NEW c \in ChunkIds \ a.chunks, r.b = Opened(a, c), MustRoll(a, x)
      PROVE  Filling(r.b, tar) /\ Counting(r.b, tar)
  <2>1. /\ r.b.currentUUID = c /\ r.b.currentSize = 0 /\ r.b.chunks = a.chunks \cup {c}
    BY <1>0, <1>2 DEF Opened, ArcStates
  <2>2. WeightIn(tar, c) = 0
    BY <1>0, EmptyChunk DEF Filling
  <2>3. ASSUME NEW d \in a.chunks, d = a.currentUUID
        PROVE  WeightIn(tar, d) >= ChunkLimit
    <3>1. a.currentUUID # None /\ d \in ChunkIds
      BY <1>0, <2>3, MarkersAssumption DEF ArcStates
    <3>2. Full(a)
      BY <1>2, <3>1 DEF MustRoll, ChunkInv, Sound
    <3>3. a.currentSize <= WeightIn(tar, d)
      BY <1>0, <2>3, <3>1 DEF Counting
    <3>4. WeightIn(tar, d) \in Nat
      BY <3>1, BytesNat DEF FillInv, WeightIn
    <3> QED
      BY <1>0, <3>2, <3>3, <3>4, LimitAssumption DEF Full, ArcStates
  <2>4. Filling(r.b, tar)
    BY <1>0, <2>1, <2>2, <2>3, LimitAssumption DEF Filling
  <2>5. Counting(r.b, tar)
    BY <2>1, <2>2 DEF Counting
  <2> QED
    BY <2>4, <2>5
<1>3. CASE r.b = Refused(a)
  <2>1. /\ r.b.currentUUID = a.currentUUID /\ r.b.currentSize = a.currentSize
        /\ r.b.chunks = a.chunks /\ r.b.pending = a.pending
    BY <1>0, <1>3 DEF Refused, ArcStates
  <2> QED
    BY <1>0, <2>1 DEF Filling, Counting
<1>4. CASE r.b = NotCreated(a)
  <2>1. /\ r.b.currentUUID = a.currentUUID /\ r.b.currentSize = a.currentSize
        /\ r.b.chunks = a.chunks /\ r.b.pending = a.pending
    BY <1>0, <1>4 DEF NotCreated, ArcStates
  <2> QED
    BY <1>0, <2>1 DEF Filling, Counting
<1> QED
  BY <1>1, <1>2, <1>3, <1>4, ReadyKinds

(* A member is written to a chunk that takes it: a regular file, to one     *)
(* that is not full.                                                        *)
LEMMA PutFilling ==
    ASSUME ArcInv, ChunkInv, FillInv, NEW x \in todo,
           NEW e \in ArcStates, Filling(e, tar), Counting(e, tar),
           e.currentUUID # None, ~e.pending, x \notin Links => ~Full(e),
           NEW b \in ArcStates, b.currentUUID = e.currentUUID, b.chunks = e.chunks,
           NEW m \in Marks, m # None, NEW t, t = Put(b.currentUUID, x, m),
           x \in Links \/ m = Other => b.currentSize = e.currentSize,
           x \notin Links /\ m # Other =>
               /\ b.currentSize <= Size[seen[x]] + e.currentSize
               /\ ~b.pending => b.currentSize = Size[seen[x]] + e.currentSize
    PROVE  Filling(b, t) /\ Counting(b, t)
<1> DEFINE d == e.currentUUID
           w == WeightIn(tar, d)
           v == WeightIn(t, d)
<1>1. /\ d \in ChunkIds /\ d \in e.chunks /\ x \in Paths /\ Size[seen[x]] \in Nat
      /\ e.currentSize \in Nat /\ b.currentSize \in Nat
  BY SizesOf DEF ArcStates, Filling, ArcInv, TypeInv
<1>2. tar[d][x] = None /\ t = Put(d, x, m)
  BY <1>1 DEF ChunkInv
<1>3. /\ \A c \in ChunkIds \ {d} : WeightIn(t, c) = WeightIn(tar, c)
      /\ x \in Links \/ m = Other => v = w
      /\ x \notin Links /\ m # Other => v = Size[seen[x]] + w
      /\ w \in Nat
  <2> HIDE DEF d
  <2>1. x \in todo /\ m \in Marks /\ m # None /\ d \in ChunkIds
    BY <1>1
  <2> QED
    BY <2>1, <1>2, WeightPut
<1>4. e.currentSize = w
  BY DEF Counting
<1>5. /\ \A c \in ChunkIds \ {d}, y \in Paths : t[c][y] = tar[c][y]
      /\ \A y \in Paths : t[d][y] = IF y = x THEN m ELSE tar[d][y]
  BY <1>1 DEF ArcInv, TypeInv, Put
<1>6. b.chunks \subseteq ChunkIds
  BY DEF ArcStates
<1> HIDE DEF d, w, v
<1>7. Counting(b, t)
  <2>1. b.currentUUID = d /\ WeightIn(t, b.currentUUID) = v
    BY DEF d, v
  <2>2. v \in Nat
    BY <1>1, <1>3
  <2> QED
    BY <1>1, <1>3, <1>4, <2>1, <2>2 DEF Counting
<1>8. ASSUME v >= ChunkLimit
      PROVE  \E y \in Paths \ Links : t[d][y] # None /\ v - Size[seen[y]] < ChunkLimit
  <2>1. CASE x \in Links
    <3>1. PICK y \in Paths \ Links : tar[d][y] # None /\ w - Size[seen[y]] < ChunkLimit
      BY <1>1, <1>3, <1>8, <2>1 DEF Filling, w
    <3>2. t[d][y] # None /\ v = w
      BY <1>3, <1>5, <2>1, <3>1
    <3> QED
      BY <3>1, <3>2
  <2>2. CASE x \notin Links
    <3>1. w < ChunkLimit
      BY <1>1, <1>4, <2>2, LimitAssumption DEF Full
    <3>2. m # Other /\ v = Size[seen[x]] + w
      BY <1>3, <1>8, <2>2, <3>1, LimitAssumption
    <3>3. v - Size[seen[x]] < ChunkLimit
      BY <1>1, <1>3, <3>1, <3>2, LimitAssumption
    <3> QED
      BY <1>1, <1>5, <2>2, <3>3
  <2> QED
    BY <2>1, <2>2
<1>9. ASSUME NEW c \in b.chunks, WeightIn(t, c) >= ChunkLimit
      PROVE  \E y \in Paths \ Links : t[c][y] # None /\ WeightIn(t, c) - Size[seen[y]] < ChunkLimit
  <2>1. CASE c = d
    BY <1>8, <1>9, <2>1 DEF v
  <2>2. CASE c # d
    BY <1>3, <1>5, <1>6, <1>9, <2>2 DEF Filling
  <2> QED
    BY <2>1, <2>2
<1>10. b.currentUUID = d /\ b.chunks = e.chunks
  BY DEF d
<1>11. ASSUME NEW c \in ChunkIds \ b.chunks, NEW y \in Paths
       PROVE  t[c][y] = None
  <2>1. tar[c][y] = None /\ c # d
    BY <1>1, <1>10 DEF Filling
  <2> QED
    BY <1>5, <2>1
<1>12. ASSUME NEW c \in b.chunks \ {b.currentUUID}
       PROVE  WeightIn(t, c) >= ChunkLimit
  <2>1. WeightIn(tar, c) >= ChunkLimit
    BY <1>10 DEF Filling, d
  <2> QED
    BY <1>3, <1>6, <1>10, <2>1
<1> QED
  BY <1>1, <1>7, <1>9, <1>10, <1>11, <1>12 DEF Filling

LEMMA FillReturned ==
    ASSUME FillInv, NEW x, NEW b, NEW m, Returned(x, b, m),
           Filling(b, tar'), Counting(b, tar'), \A c \in ChunkIds : Sized(seen, Counted(tar', c))
    PROVE  FillInv'
<1>1. a' = b /\ seen' = seen
  BY DEF Returned
<1>2. Filling(a, tar)' /\ Counting(a, tar)'
  BY <1>1 DEF Filling, Counting, WeightIn
<1>3. (\A c \in ChunkIds : Sized(seen, Counted(tar, c)))'
  BY <1>1 DEF Sized, Counted
<1> QED
  BY <1>2, <1>3 DEF FillInv

LEMMA FillUnwritten ==
    ASSUME FillInv, NEW x, NEW b, Returned(x, b, None), Filling(b, tar), Counting(b, tar)
    PROVE  FillInv'
<1>1. tar' = tar
  BY DEF Returned
<1>2. Filling(b, tar') /\ Counting(b, tar') /\ \A c \in ChunkIds : Sized(seen, Counted(tar', c))
  BY <1>1 DEF FillInv
<1> QED
  BY <1>2, FillReturned

LEMMA FillWritten ==
    ASSUME ArcInv, ChunkInv, FillInv, phase = "adding", NEW x \in todo,
           NEW r \in Ready(x), HeaderAccepted(r.b), x \notin Links => ~Full(r.b),
           NEW b \in ArcStates, b.currentUUID = r.b.currentUUID, b.chunks = r.b.chunks,
           NEW m \in Marks, m # None, Returned(x, b, m),
           x \in Links \/ m = Other => b.currentSize = r.b.currentSize,
           x \notin Links /\ m # Other =>
               /\ b.currentSize <= Size[seen[x]] + r.b.currentSize
               /\ ~b.pending => b.currentSize = Size[seen[x]] + r.b.currentSize
    PROVE  FillInv'
<1>1. x \in Paths
  BY DEF ArcInv, TypeInv
<1>2. /\ r.b \in ArcStates /\ r.b.currentUUID # None /\ ~r.b.pending
      /\ Filling(r.b, tar) /\ Counting(r.b, tar)
  BY <1>1, ReadyStates, ReadyFilling DEF HeaderAccepted
<1>3. tar' = Put(b.currentUUID, x, m)
  BY DEF Returned, Put
<1>4. Filling(b, tar') /\ Counting(b, tar')
  <2> DEFINE e == r.b
  <2>1. /\ e \in ArcStates /\ e.currentUUID # None /\ ~e.pending
        /\ Filling(e, tar) /\ Counting(e, tar) /\ (x \notin Links => ~Full(e))
        /\ b.currentUUID = e.currentUUID /\ b.chunks = e.chunks
        /\ x \in Links \/ m = Other => b.currentSize = e.currentSize
        /\ x \notin Links /\ m # Other =>
               /\ b.currentSize <= Size[seen[x]] + e.currentSize
               /\ ~b.pending => b.currentSize = Size[seen[x]] + e.currentSize
    BY <1>2
  <2> HIDE DEF e
  <2> QED
    BY <1>3, <2>1, PutFilling
<1>5. b.currentUUID \in ChunkIds
  BY <1>2 DEF ArcStates
<1>6. tar[b.currentUUID][x] = None
  BY <1>5 DEF ChunkInv
<1>7. \A c \in ChunkIds : Sized(seen, Counted(tar', c))
  BY <1>3, <1>5, <1>6, WeightPut
<1> QED
  BY <1>4, <1>7, FillReturned

LEMMA CopiedSize ==
    ASSUME ArcInv, NEW x \in todo, NEW b \in ArcStates, b.currentUUID # None,
           NEW v \in Versions
    PROVE  Copied(b, x, v).currentSize =
               IF Size[v] > Size[seen[x]] THEN b.currentSize ELSE b.currentSize + Size[v]
<1>1. Size[v] \in Nat /\ Size[seen[x]] \in Nat
  BY SizesOf, SortsAssumption
<1>2. b.currentSize + Size[v] \in Nat
  BY <1>1 DEF ArcStates
<1>3. CASE Size[v] = Size[seen[x]]
  <2> DEFINE e == [b EXCEPT !.currentSize = b.currentSize + Size[v]]
  <2>1. e \in ArcStates /\ e.currentUUID # None /\ e.currentSize = b.currentSize + Size[v]
    BY <1>2 DEF ArcStates
  <2>2. Copied(b, x, v) = Tracked(e, x)
    BY <1>1, <1>3 DEF Copied
  <2> HIDE DEF e
  <2>3. Tracked(e, x).currentSize = e.currentSize
    BY <2>1, TrackedStates
  <2>4. ~(Size[v] > Size[seen[x]])
    BY <1>1, <1>3
  <2> QED
    BY <2>1, <2>2, <2>3, <2>4
<1>4. CASE Size[v] < Size[seen[x]]
  <2> DEFINE e == [b EXCEPT !.currentSize = b.currentSize + Size[v], !.pending = TRUE]
  <2>1. e \in ArcStates /\ e.currentUUID # None /\ e.currentSize = b.currentSize + Size[v]
    BY <1>2 DEF ArcStates
  <2>2. Copied(b, x, v) = Tracked(e, x)
    BY <1>1, <1>4 DEF Copied
  <2> HIDE DEF e
  <2>3. Tracked(e, x).currentSize = e.currentSize
    BY <2>1, TrackedStates
  <2>4. ~(Size[v] > Size[seen[x]])
    BY <1>1, <1>4
  <2> QED
    BY <2>1, <2>2, <2>3, <2>4
<1>5. CASE Size[v] > Size[seen[x]]
  BY <1>1, <1>5 DEF Copied
<1> QED
  BY <1>1, <1>3, <1>4, <1>5

LEMMA FillAdd ==
    ASSUME ArcInv, ChunkInv, FillInv, NEW x \in Paths, AddFile(x)
    PROVE  FillInv'
<1>0. x \in todo /\ phase = "adding"
  BY DEF AddFile, AddSpecial, AddRefused, AddUnreadable, AddRegular, AddLink, Adding
<1>s. seen[x] \in Versions /\ Size[seen[x]] \in Nat
  BY <1>0, SizesOf
<1>m. None \in Marks /\ Torn \in Marks /\ Other \in Marks /\ Versions \subseteq Marks
  BY DEF Marks
<1>1. CASE AddSpecial(x)
  <2>1. Returned(x, a, None)
    BY <1>1 DEF AddSpecial
  <2> QED
    BY <1>0, <2>1, FillUnwritten DEF FillInv
<1>2. CASE AddRefused(x)
  <2>1. PICK r \in Ready(x) : Returned(x, r.b, None)
    BY <1>2 DEF AddRefused
  <2>2. Filling(r.b, tar) /\ Counting(r.b, tar)
    BY <1>0, ReadyFilling
  <2> QED
    BY <2>1, <2>2, FillUnwritten
<1>3. CASE AddUnreadable(x)
  <2>1. PICK r \in Ready(x) :
            /\ r.ok /\ HeaderAccepted(r.b)
            /\ Returned(x, Announced(r.b, x), IF Size[seen[x]] > 0 THEN Torn ELSE Other)
    BY <1>3 DEF AddUnreadable
  <2> DEFINE b == Announced(r.b, x)
             m == IF Size[seen[x]] > 0 THEN Torn ELSE Other
  <2>2. r.b \in ArcStates /\ r.b.currentSize \in Nat /\ ~Full(r.b) /\ x \notin Links
    BY <1>3, <2>1, ReadyStates, ReadyRoom DEF AddUnreadable, ArcStates
  <2>3. /\ b \in ArcStates /\ b.currentUUID = r.b.currentUUID /\ b.chunks = r.b.chunks
        /\ b.currentSize = r.b.currentSize
        /\ b.pending <=> Size[seen[x]] > 0
    BY <1>0, <2>2, AnnouncedStates
  <2>4. m \in Marks /\ m # None /\ (m # Other => Size[seen[x]] > 0)
    BY <1>m, MarkersAssumption
  <2>5. Returned(x, b, m)
    BY <2>1
  <2> HIDE DEF b, m
  <2>6. /\ b.currentSize <= Size[seen[x]] + r.b.currentSize
        /\ m # Other => b.pending
    BY <1>s, <2>2, <2>3, <2>4
  <2> QED
    BY <1>0, <2>1, <2>2, <2>3, <2>4, <2>5, <2>6, FillWritten
<1>4. CASE AddRegular(x)
  <2>1. PICK r \in Ready(x) :
            /\ r.ok /\ HeaderAccepted(r.b)
            /\ Returned(x, Copied(r.b, x, disk[x]), MemberOf(x, disk[x]))
    BY <1>4 DEF AddRegular
  <2> DEFINE b == Copied(r.b, x, disk[x])
             m == MemberOf(x, disk[x])
  <2>2. /\ r.b \in ArcStates /\ r.b.currentSize \in Nat /\ ~Full(r.b) /\ x \notin Links
        /\ r.b.currentUUID # None /\ ~r.b.pending
    BY <1>4, <2>1, ReadyStates, ReadyRoom DEF AddRegular, ArcStates, HeaderAccepted
  <2>3. disk[x] \in Versions /\ Size[disk[x]] \in Nat
    BY <1>4, SortsAssumption DEF AddRegular, ArcInv, TypeInv, FileMap
  <2>4. /\ b \in ArcStates /\ b.currentUUID = r.b.currentUUID /\ b.chunks = r.b.chunks
        /\ b.pending <=> r.b.pending \/ Size[disk[x]] < Size[seen[x]]
    <3> DEFINE e == r.b
               v == disk[x]
    <3>1. e \in ArcStates /\ e.currentUUID # None /\ v \in Versions
      BY <2>2, <2>3
    <3> HIDE DEF e, v
    <3>2. /\ ArcInv /\ x \in todo /\ e \in ArcStates /\ e.currentUUID # None
          /\ v \in Versions
      BY <1>0, <3>1
    <3> DEFINE d == Copied(e, x, v)
    <3>3. /\ d \in ArcStates /\ d.tw = e.tw /\ d.currentUUID = e.currentUUID
          /\ d.chunks = e.chunks /\ d.file = e.file
          /\ d.pending <=> e.pending \/ Size[v] < Size[seen[x]]
          /\ Size[v] > Size[seen[x]] => d = e
          /\ d.files = IF Size[v] > Size[seen[x]] THEN e.files
                       ELSE [e.files EXCEPT ![x] = MetaFor(x, e.currentUUID)]
      BY ONLY <3>2, CopiedStates
    <3> QED
      BY <3>3 DEF e, v
  <2>5. b.currentSize = IF Size[disk[x]] > Size[seen[x]] THEN r.b.currentSize
                        ELSE r.b.currentSize + Size[disk[x]]
    BY <1>0, <2>2, <2>3, CopiedSize
  <2>6. /\ m \in Marks /\ m # None
        /\ m = Other <=> Size[disk[x]] > Size[seen[x]]
    BY <1>s, <1>m, <2>3, MarkersAssumption DEF MemberOf
  <2>7. Returned(x, b, m)
    BY <2>1
  <2> HIDE DEF b, m
  <2>8. /\ m = Other => b.currentSize = r.b.currentSize
        /\ m # Other => /\ b.currentSize <= Size[seen[x]] + r.b.currentSize
                        /\ ~b.pending => b.currentSize = Size[seen[x]] + r.b.currentSize
    BY <1>s, <2>2, <2>3, <2>4, <2>5, <2>6
  <2> QED
    BY <1>0, <2>1, <2>2, <2>4, <2>6, <2>7, <2>8, FillWritten
<1>5. CASE AddLink(x)
  <2>1. PICK r \in Ready(x) :
            /\ r.ok /\ HeaderAccepted(r.b)
            /\ Returned(x, Tracked(r.b, x), IF disk[x] = None THEN Other ELSE disk[x])
    BY <1>5 DEF AddLink
  <2> DEFINE b == Tracked(r.b, x)
             m == IF disk[x] = None THEN Other ELSE disk[x]
  <2>2. r.b \in ArcStates /\ x \in Links /\ r.b.currentUUID # None
    BY <1>5, <2>1, ReadyStates DEF AddLink, HeaderAccepted
  <2>3. /\ b \in ArcStates /\ b.currentUUID = r.b.currentUUID /\ b.chunks = r.b.chunks
        /\ b.currentSize = r.b.currentSize
    BY <1>0, <2>2, TrackedStates
  <2>4. m \in Marks /\ m # None
    BY <1>m, MarkersAssumption DEF ArcInv, TypeInv, FileMap, Marks
  <2>5. Returned(x, b, m)
    BY <2>1
  <2> HIDE DEF b, m
  <2> QED
    BY <1>0, <2>1, <2>2, <2>3, <2>4, <2>5, FillWritten
<1> QED
  BY <1>1, <1>2, <1>3, <1>4, <1>5 DEF AddFile

LEMMA FillInit == Init => FillInv
<1> SUFFICES ASSUME Init PROVE FillInv
  OBVIOUS
<1>1. a.currentUUID = None /\ a.chunks = {}
  BY DEF Init, NewArchiver
<1>2. \A c \in ChunkIds, x \in Paths : tar[c][x] = None
  BY DEF Init, NoMembers
<1>3. \A c \in ChunkIds : Counted(tar, c) = {}
  BY <1>2 DEF Counted
<1>4. Sized(seen, {})
  BY FS_EmptySet DEF Sized
<1> QED
  BY <1>1, <1>2, <1>3, <1>4 DEF FillInv, Filling, Counting

LEMMA FillStep == ArcInv /\ ChunkInv /\ FillInv /\ [Next]_vars => FillInv'
<1> SUFFICES ASSUME ArcInv, ChunkInv, FillInv, [Next]_vars
             PROVE  FillInv'
  OBVIOUS
<1>1. ASSUME /\ a'.currentUUID = a.currentUUID /\ a'.chunks = a.chunks
             /\ tar' = tar /\ seen' = seen
             /\ phase' = "adding" => a' = a /\ phase = "adding"
      PROVE  FillInv'
  <2>1. Filling(a, tar)'
    BY <1>1 DEF FillInv, Filling, WeightIn
  <2>2. phase' = "adding" => Counting(a, tar)'
    BY <1>1 DEF FillInv, Counting, WeightIn
  <2>3. (\A c \in ChunkIds : Sized(seen, Counted(tar, c)))'
    BY <1>1 DEF FillInv, Sized, Counted
  <2> QED
    BY <2>1, <2>2, <2>3 DEF FillInv
<1>2. CASE Finalize
  <2>1. a'.chunks = a.chunks
    BY <1>2 DEF Finalize, Refused, ArcInv, TypeInv, ArcStates
  <2>2. tar' = tar /\ seen' = seen
    BY <1>2 DEF Finalize
  <2> QED
    BY <1>1, <1>2, <2>1, <2>2, FinalizeStates
<1>3. ASSUME NEW x \in Paths, Edit(x)
      PROVE  FillInv'
  <2>1. UNCHANGED <<seen, a, tar, phase>>
    BY <1>3 DEF Edit
  <2> QED
    BY <1>1, <2>1
<1>4. CASE UNCHANGED vars
  BY <1>1, <1>4 DEF vars
<1> QED
  BY <1>2, <1>3, <1>4, FillAdd DEF Next

-----------------------------------------------------------------------------
(* Names *)

LEMMA Greatest ==
    ASSUME NEW n \in Nat, NEW S \in SUBSET (1 .. n), S # {}
    PROVE  \E i \in S : \A j \in S : j <= i
<1> DEFINE T == {n - i : i \in S}
<1>1. T \subseteq Nat /\ T # {}
  <2>1. \A i \in S : n - i \in Nat
    OBVIOUS
  <2> QED
    BY <2>1
<1>2. PICK m \in T : \A k \in T : ~(<<k, m>> \in OpToRel(<, Nat))
  <2> HIDE DEF T
  <2> QED
    BY <1>1, NatLessThanWellFounded, WFMin
<1>3. PICK i \in S : m = n - i
  OBVIOUS
<1>4. ASSUME NEW j \in S
      PROVE  j <= i
  <2>1. n - j \in T /\ n - j \in Nat /\ m \in Nat
    OBVIOUS
  <2>2. ~(<<n - j, m>> \in OpToRel(<, Nat))
    BY <1>2, <2>1
  <2>3. ~(n - j < m)
    BY <2>1, <2>2 DEF OpToRel
  <2> QED
    BY <1>3, <2>3
<1> QED
  BY <1>4

LEMMA TrimmedName ==
    ASSUME NEW n \in Name
    PROVE  Restoring!Trimmed(n) \in Name
BY HeadTailProperties DEF Restoring!Trimmed, Name

LEMMA StemName ==
    ASSUME NEW s \in Name
    PROVE  Restoring!Stem(s) \in Name
<1>1. Restoring!Cleaned(s) \in Name
  <2>1. ASSUME Len(s) > 1
        PROVE  SubSeq(s, 1, Len(s) - 1) \in Seq(STRING)
    <3>1. Len(s) \in Nat /\ \A i \in 1 .. Len(s) - 1 : s[i] \in STRING
      BY DEF Name
    <3> QED
      BY <3>1, SubSeqProperties
  <2> QED
    BY <2>1 DEF Restoring!Cleaned, Name, Restoring!Ext!Front
<1> QED
  BY <1>1, TrimmedName DEF Restoring!Stem

LEMMA StrippedName ==
    ASSUME NEW n \in Name, NEW s \in Name
    PROVE  Restoring!Stripped(n, s) \in Name
<1>1. Restoring!Stem(s) \in Name /\ Restoring!Trimmed(n) \in Name
  BY StemName, TrimmedName
<1>2. SubSeq(Restoring!Trimmed(n), Len(Restoring!Stem(s)) + 1, Len(Restoring!Trimmed(n))) \in Name
  BY <1>1 DEF Name
<1> QED
  BY <1>1, <1>2, TrimmedName DEF Restoring!Stripped

LEMMA DirnameName ==
    ASSUME NEW t \in Name
    PROVE  Restoring!Dirname(t) \in Name /\ Restoring!Basename(t) \in Name
<1> DEFINE slashes == {i \in 1..Len(t) : t[i] = "/"}
           n == IF slashes = {} THEN 0 ELSE CHOOSE i \in slashes : \A j \in slashes : j <= i
<1>1. n \in 0 .. Len(t)
  <2>1. Len(t) \in Nat /\ slashes \in SUBSET (1 .. Len(t))
    BY DEF Name
  <2>2. slashes # {} => \E i \in slashes : \A j \in slashes : j <= i
    <3> HIDE DEF slashes
    <3> QED
      BY <2>1, Greatest
  <2>3. CASE slashes # {}
    <3> HIDE DEF slashes
    <3>1. n \in slashes
      BY <2>2, <2>3
    <3> HIDE DEF n
    <3> QED
      BY <2>1, <3>1
  <2>4. CASE slashes = {}
    BY <2>1, <2>4
  <2> QED
    BY <2>3, <2>4
<1>2. Restoring!Dirname(t) = SubSeq(t, 1, n)
  BY DEF Restoring!Dirname
<1> HIDE DEF n
<1>3. Restoring!Dirname(t) \in Name
  BY <1>1, <1>2 DEF Name
<1> QED
  BY <1>3 DEF Name, Restoring!Basename

-----------------------------------------------------------------------------
(* A restore *)

Unopened == queue = {} /\ reading = None /\ unread = {} /\ got = {} /\ failed = {}

(* The restore begins when the archiver has finished, and reads members of  *)
(* one chunk at a time.                                                     *)
RestoreInv ==
    /\ names \in [Paths -> Name]
    /\ strip \in Name
    /\ wanted \subseteq Recorded
    /\ queue \subseteq ChunkIds
    /\ before \in [Places -> Restoring!Entry]
    /\ dest \in [Places -> Restoring!Entry]
    /\ reading \in ChunkIds \cup {None}
    /\ unread \subseteq Paths
    /\ got \subseteq wanted
    /\ failed \subseteq ChunkIds
    /\ at \in {"idle", "select", "restoring", "done"}
    /\ at # "idle" => phase = "finalized"
    /\ at = "idle" => wanted = {}
    /\ at \in {"idle", "select"} => dest = before /\ Unopened
    /\ at # "restoring" \/ reading = None => unread = {}
    /\ at # "restoring" => reading = None
    /\ reading # None => unread \subseteq Restoring!Members(reading)
    /\ at # "idle" => \A x \in Paths \ Special :
           Restoring!Relative(Restoring!Target(x)) => Restoring!Target(x) \in Places

LEMMA RestoreInit == Init /\ Restoring!Init => RestoreInv
BY DEF Restoring!Init, Init, RestoreInv, Unopened, Name, Restoring!Empty, Restoring!Nothing,
       Restoring!Entry

LEMMA ArchiverDone ==
    ASSUME [Next]_vars, phase = "finalized"
    PROVE  UNCHANGED vars
BY DEF Next, Finalize, AddFile, AddSpecial, AddRefused, AddUnreadable, AddRegular, AddLink,
       Adding, Edit, vars

LEMMA RestoredEntry ==
    ASSUME RestoreInv, NEW x \in Paths, NEW v \in Versions \cup {Other}
    PROVE  Restoring!Restored(x, v) \in Restoring!Entry
<1>1. CASE x \in Links
  <2>1. Restoring!Target(x) \in Name /\ names[x] \in Name
    BY StrippedName DEF RestoreInv, Restoring!Target
  <2>2. Restoring!Dirname(Restoring!Target(x)) \in Name /\ Restoring!Basename(names[x]) \in Name
    BY <2>1, DirnameName
  <2>3. Restoring!LinkName(x, v) \in Name
    BY <2>2, RestoresAssumption DEF Restoring!LinkName
  <2>4. Restoring!Dirname(Restoring!Target(x)) \o Restoring!LinkName(x, v) \in Name
    BY <2>2, <2>3 DEF Name
  <2> QED
    BY <1>1, <2>4 DEF Restoring!Restored, Restoring!Link, Restoring!Entry, Name
<1>2. CASE x \notin Links
  BY <1>2 DEF Restoring!Restored, Restoring!File, Restoring!Entry
<1> QED
  BY <1>1, <1>2

(* What a member does to the destination: its place and the directories     *)
(* above change, and nothing else.                                          *)
Onto(x, e) ==
    [q \in Places |->
        IF q = Restoring!Target(x) THEN e
        ELSE IF q \in Restoring!Parents(Restoring!Target(x)) /\ dest[q] = Restoring!Nothing
        THEN Restoring!Dir
        ELSE dest[q]]

LEMMA PutIs ==
    ASSUME NEW x \in Paths, Restoring!Accepted(x), NEW e
    PROVE  Restoring!Put(dest, x, e) = Onto(x, e)
<1>1. x \notin Links => Restoring!Followed(dest, Restoring!Target(x)) = Restoring!Target(x)
  BY DEF Restoring!Accepted, Restoring!FileBlocked, Restoring!ThroughLink, Restoring!Followed
<1> QED
  BY <1>1 DEF Restoring!Put, Restoring!WithParents, Onto

LEMMA TargetName ==
    ASSUME RestoreInv, NEW x \in Paths
    PROVE  Restoring!Target(x) \in Name
BY StrippedName DEF RestoreInv, Restoring!Target

LEMMA NotAbove ==
    ASSUME NEW t \in Name
    PROVE  t \notin Restoring!Parents(t)
<1> SUFFICES ASSUME NEW i \in 2 .. Len(t), t = SubSeq(t, 1, i - 1)
             PROVE  FALSE
  BY DEF Restoring!Parents
<1>1. Len(t) \in Nat /\ \A j \in 1 .. i - 1 : t[j] \in STRING
  BY DEF Name
<1>2. Len(SubSeq(t, 1, i - 1)) = i - 1
  BY <1>1, SubSeqProperties
<1> QED
  BY <1>1, <1>2

LEMMA WithParentsIs ==
    ASSUME RestoreInv, NEW x \in Paths, Restoring!Target(x) \in Places
    PROVE  Restoring!WithParents(dest, Restoring!Target(x)) =
               Onto(x, dest[Restoring!Target(x)])
BY TargetName, NotAbove DEF Restoring!WithParents, Onto

AllInv == ArcInv /\ Kept /\ Cut /\ RestoreInv

(* A member that is asked for, has a name and is accepted. *)
LEMMA Writable ==
    ASSUME AllInv, NEW x \in Paths, Restoring!Reads(x), ~Restoring!PassedBy(x)
    PROVE  /\ at = "restoring" /\ x \in wanted /\ x \in Recorded /\ x \notin Special
           /\ reading = a.files[x].chunk /\ reading \in ChunkIds
           /\ tar[reading][x] \in Marks \ {None}
           /\ Restoring!Target(x) # <<>>
           /\ Restoring!Accepted(x) => Restoring!Target(x) \in Places
<1>1. x \in wanted /\ a.files[x].chunk = reading /\ Restoring!Target(x) # <<>>
  BY DEF Restoring!PassedBy, Restoring!Asked
<1>2. x \in unread
  BY DEF Restoring!Reads
<1>3. at = "restoring" /\ reading # None /\ x \in Recorded /\ reading \in ChunkIds
      /\ x \in Restoring!Members(reading) /\ x \notin Special
  BY <1>1, <1>2 DEF AllInv, RestoreInv, Kept
<1>4. tar[reading][x] \in Marks \ {None}
  BY <1>3 DEF AllInv, ArcInv, TypeInv, Restoring!Members
<1>5. Restoring!Accepted(x) => Restoring!Target(x) \in Places
  BY <1>3 DEF AllInv, RestoreInv, Restoring!Accepted
<1> QED
  BY <1>1, <1>3, <1>4, <1>5

(* The steps that write to the destination. *)
Written(x, e) ==
    /\ at = "restoring" /\ UNCHANGED <<names, strip, wanted, before, a, tar>>
    /\ Restoring!Target(x) \in Places
    /\ dest' = Onto(x, e)
    /\ \/ /\ tar[a.files[x].chunk][x] # Torn /\ failed' = failed
          /\ e = Restoring!Restored(x, tar[a.files[x].chunk][x])
       \/ /\ failed' = failed \cup {a.files[x].chunk}
          /\ e \in {Restoring!File(Torn), Restoring!Nothing, dest[Restoring!Target(x)]}

LEMMA DestSteps ==
    ASSUME AllInv, Restoring!Next, UNCHANGED vars
    PROVE  \/ Restoring!Start
           \/ /\ dest' = dest /\ before' = before /\ failed \subseteq failed'
              /\ names' = names /\ strip' = strip
              /\ wanted' = wanted \/ dest = before
           \/ \E x \in wanted, e \in Restoring!Entry : Written(x, e)
<1>0. a' = a /\ tar' = tar
  BY DEF vars
<1>1. ASSUME NEW x \in Paths, Restoring!Write(x)
      PROVE  \E y \in wanted, e \in Restoring!Entry : Written(y, e)
  <2>1. Restoring!Reads(x) /\ ~Restoring!PassedBy(x) /\ Restoring!Accepted(x)
    BY <1>1 DEF Restoring!Write
  <2> DEFINE e == Restoring!Restored(x, tar[reading][x])
  <2>2. e \in Restoring!Entry
    BY <1>1, <2>1, Writable, RestoredEntry DEF Restoring!Write, Marks, AllInv
  <2>3. dest' = Onto(x, e)
    BY <1>1, <2>1, PutIs DEF Restoring!Write
  <2>4. Written(x, e)
    BY <1>0, <1>1, <2>1, <2>3, Writable
       DEF Written, Restoring!Write, Restoring!Continue, Restoring!command
  <2> QED
    BY <2>1, <2>2, <2>4, Writable
<1>2. ASSUME NEW x \in Paths, Restoring!WriteCut(x) \/ Restoring!WriteFails(x), dest' # dest
      PROVE  \E y \in wanted, e \in Restoring!Entry : Written(y, e)
  <2>1. /\ Restoring!Reads(x) /\ ~Restoring!PassedBy(x) /\ Restoring!Accepted(x)
        /\ Restoring!Stop
    BY <1>2 DEF Restoring!WriteCut, Restoring!WriteFails
  <2>2. /\ failed' = failed \cup {a.files[x].chunk}
        /\ UNCHANGED <<names, strip, wanted, before>>
    BY <2>1, Writable DEF Restoring!Stop, Restoring!command
  <2>t. Restoring!Target(x) \in Places
    BY <2>1, Writable
  <2> DEFINE E == {Restoring!File(Torn), Restoring!Nothing, dest[Restoring!Target(x)]}
  <2>3. PICK e \in E : dest' = Onto(x, e)
    <3>1. \/ dest' = Restoring!WithParents(dest, Restoring!Target(x))
          \/ dest' = Restoring!Put(dest, x, Restoring!Nothing)
          \/ dest' = Restoring!Put(dest, x, Restoring!File(Torn))
      BY <1>2 DEF Restoring!WriteCut, Restoring!WriteFails
    <3>2. /\ Restoring!WithParents(dest, Restoring!Target(x)) =
                 Onto(x, dest[Restoring!Target(x)])
          /\ \A e : Restoring!Put(dest, x, e) = Onto(x, e)
      BY <2>1, <2>t, PutIs, WithParentsIs DEF AllInv
    <3> QED
      BY <3>1, <3>2
  <2>4. E \subseteq Restoring!Entry
    BY <2>t DEF AllInv, RestoreInv, Restoring!Entry, Restoring!File, Restoring!Nothing
  <2>5. Written(x, e)
    BY <1>0, <2>1, <2>2, <2>3, Writable DEF Written
  <2> QED
    BY <2>1, <2>3, <2>4, <2>5, Writable
<1>3. ASSUME ~Restoring!Start, \A x \in Paths : ~Restoring!Write(x),
             dest' = dest \/ \A x \in Paths : ~(Restoring!WriteCut(x) \/ Restoring!WriteFails(x))
      PROVE  /\ dest' = dest /\ before' = before /\ failed \subseteq failed'
             /\ names' = names /\ strip' = strip
             /\ wanted' = wanted \/ dest = before
  <2>1. CASE Restoring!Select \/ Restoring!SelectNothing \/ Restoring!Done \/ Restoring!Close
    BY <2>1 DEF Restoring!Select, Restoring!SelectNothing, Restoring!Done, Restoring!Close,
                Restoring!command, AllInv, RestoreInv
  <2>2. CASE \E c \in ChunkIds : Restoring!Open(c) \/ Restoring!OpenFails(c)
    BY <2>2 DEF Restoring!Open, Restoring!OpenFails, Restoring!command
  <2>3. CASE \E x \in Paths : \/ Restoring!Pass(x) \/ Restoring!PassCut(x) \/ Restoring!Refuse(x)
    BY <2>3 DEF Restoring!Pass, Restoring!PassCut, Restoring!Refuse, Restoring!Continue,
                Restoring!Stop, Restoring!command
  <2>4. CASE dest' = dest /\ \E x \in Paths : Restoring!WriteCut(x) \/ Restoring!WriteFails(x)
    BY <2>4 DEF Restoring!WriteCut, Restoring!WriteFails, Restoring!Stop, Restoring!command
  <2> QED
    BY <1>3, <2>1, <2>2, <2>3, <2>4 DEF Restoring!Next
<1> QED
  BY <1>1, <1>2, <1>3

(* The places of the files that were asked for, and what is there. *)
LEMMA OntoIs ==
    ASSUME RestoreInv, NEW x \in Paths, NEW e, dest' = Onto(x, e), NEW t \in Places
    PROVE  \/ t = Restoring!Target(x) /\ dest'[t] = e
           \/ /\ t \in Restoring!Parents(Restoring!Target(x))
              /\ dest[t] = Restoring!Nothing /\ dest'[t] = Restoring!Dir
           \/ t # Restoring!Target(x) /\ dest'[t] = dest[t]
BY DEF Onto

LEMMA OnlyWantedStep ==
    ASSUME AllInv, Restoring!Next, UNCHANGED vars, OnlyWanted
    PROVE  OnlyWanted'
<1> USE DEF OnlyWanted, Restoring!OnlyWanted
<1>1. CASE Restoring!Start
  BY <1>1 DEF Restoring!Start
<1>2. CASE /\ dest' = dest /\ before' = before /\ failed \subseteq failed'
           /\ names' = names /\ strip' = strip
           /\ wanted' = wanted \/ dest = before
  BY <1>2 DEF Restoring!For, Restoring!Target
<1>3. ASSUME NEW x \in wanted, NEW e \in Restoring!Entry, Written(x, e)
      PROVE  OnlyWanted'
  <2> SUFFICES ASSUME NEW t \in Places, dest'[t] # before'[t]
               PROVE  \/ Restoring!For(t)' # {}
                      \/ /\ before'[t] = Restoring!Nothing /\ dest'[t] = Restoring!Dir
                         /\ \E y \in wanted' : t \in Restoring!Parents(Restoring!Target(y))'
    OBVIOUS
  <2>1. /\ \A y : Restoring!Target(y)' = Restoring!Target(y)
        /\ wanted' = wanted /\ before' = before
    BY <1>3 DEF Written, Restoring!Target
  <2>2. Restoring!For(t)' = Restoring!For(t)
    BY <2>1 DEF Restoring!For
  <2>3. Restoring!For(Restoring!Target(x)) # {}
    BY DEF Restoring!For
  <2>4. x \in Paths /\ dest' = Onto(x, e)
    BY <1>3 DEF Written, AllInv, RestoreInv, Recorded
  <2>5. CASE t = Restoring!Target(x)
    BY <2>2, <2>3, <2>5
  <2>6. CASE /\ t \in Restoring!Parents(Restoring!Target(x))
             /\ dest[t] = Restoring!Nothing /\ dest'[t] = Restoring!Dir
    <3>1. Restoring!Nothing # Restoring!Dir
      BY DEF Restoring!Nothing, Restoring!Dir
    <3>2. CASE before[t] = Restoring!Nothing
      BY <2>1, <2>6, <3>2
    <3>3. CASE before[t] # Restoring!Nothing
      BY <2>2, <2>6, <3>1, <3>3
    <3> QED
      BY <3>2, <3>3
  <2>7. CASE dest'[t] = dest[t]
    BY <2>1, <2>2, <2>7
  <2> QED
    BY <2>4, <2>5, <2>6, <2>7, OntoIs DEF AllInv
<1> QED
  BY <1>1, <1>2, <1>3, DestSteps

(* Damage is in a chunk that was reported, or is reported by this step. *)
LEMMA DamageStep ==
    ASSUME AllInv, Restoring!Next, UNCHANGED vars, DamageReported
    PROVE  DamageReported'
<1> USE DEF DamageReported, Restoring!DamageReported
<1>0. a' = a /\ tar' = tar
  BY DEF vars
<1>1. CASE Restoring!Start
  BY <1>1 DEF Restoring!Start
<1>2. CASE /\ dest' = dest /\ before' = before /\ failed \subseteq failed'
           /\ names' = names /\ strip' = strip
           /\ wanted' = wanted \/ dest = before
  BY <1>0, <1>2 DEF Restoring!For, Restoring!Target, Restoring!Restored, Restoring!LinkName
<1>3. ASSUME NEW x \in wanted, NEW e \in Restoring!Entry, Written(x, e)
      PROVE  DamageReported'
  <2>1. /\ \A y : Restoring!Target(y)' = Restoring!Target(y)
        /\ wanted' = wanted /\ before' = before /\ failed \subseteq failed'
    BY <1>3 DEF Written, Restoring!Target
  <2>2. /\ \A t : Restoring!For(t)' = Restoring!For(t)
        /\ \A y, v : Restoring!Restored(y, v)' = Restoring!Restored(y, v)
    BY <1>3, <2>1 DEF Written, Restoring!For, Restoring!Restored, Restoring!LinkName
  <2> SUFFICES ASSUME NEW t \in Places, dest'[t] # before[t], Restoring!For(t) # {}
               PROVE  \/ \E y \in Restoring!For(t) :
                             LET v == tar[a.files[y].chunk][y] IN
                             v # Torn /\ dest'[t] = Restoring!Restored(y, v)
                      \/ /\ dest'[t] = Restoring!Dir
                         /\ \E y \in wanted : t \in Restoring!Parents(Restoring!Target(y))
                      \/ /\ dest'[t] \in {Restoring!File(Torn), Restoring!Nothing}
                         /\ \E y \in Restoring!For(t) : a.files[y].chunk \in failed'
    BY <1>0, <2>1, <2>2
  <2>3. x \in Restoring!For(Restoring!Target(x))
    BY DEF Restoring!For
  <2>4. x \in Paths /\ dest' = Onto(x, e)
    BY <1>3 DEF Written, AllInv, RestoreInv, Recorded
  <2>5. CASE dest'[t] = dest[t]
    BY <2>1, <2>5
  <2>6. CASE t = Restoring!Target(x) /\ dest'[t] = e
    <3>1. CASE e = dest[t]
      BY <2>5, <2>6, <3>1
    <3>2. CASE e # dest[t]
      BY <1>3, <2>3, <2>6, <3>2 DEF Written
    <3> QED
      BY <3>1, <3>2
  <2>7. CASE /\ t \in Restoring!Parents(Restoring!Target(x))
             /\ dest[t] = Restoring!Nothing /\ dest'[t] = Restoring!Dir
    BY <2>7
  <2> QED
    BY <2>4, <2>5, <2>6, <2>7, OntoIs DEF AllInv
<1> QED
  BY <1>1, <1>2, <1>3, DestSteps

LEMMA RestoringStep ==
    ASSUME AllInv, Restoring!Next, UNCHANGED vars, phase = "finalized"
    PROVE  RestoreInv'
<1> USE DEF AllInv, RestoreInv
<1>0. /\ a' = a /\ tar' = tar /\ phase' = phase /\ Recorded' = Recorded
      /\ \A c : Restoring!Members(c)' = Restoring!Members(c)
  BY DEF vars, Recorded, Restoring!Members
<1>1. CASE Restoring!Start
  <2>1. PICK r \in Restores :
            /\ names' = r.names /\ strip' = r.strip /\ before' = r.before
            /\ wanted' \subseteq Recorded
    BY <1>1 DEF Restoring!Start, Recorded
  <2>2. r \in Requests
    BY RestoresAssumption
  <2>3. \A x \in Paths \ Special :
            Restoring!Relative(Restoring!Target(x))' => Restoring!Target(x)' \in Places
    BY <2>1, RestoresAssumption DEF Restoring!Target, Restoring!Relative
  <2> QED
    BY <1>0, <1>1, <2>1, <2>2, <2>3 DEF Restoring!Start, Requests, Unopened
<1>2. ASSUME names' = names, strip' = strip
      PROVE  \A x : Restoring!Target(x)' = Restoring!Target(x)
                    /\ Restoring!Relative(Restoring!Target(x))' = Restoring!Relative(Restoring!Target(x))
  BY <1>2 DEF Restoring!Target, Restoring!Relative
<1>3. CASE Restoring!Select
  <2>1. queue' \subseteq ChunkIds
    BY <1>3 DEF Restoring!Select, Recorded, ArcInv, TypeInv, ArcStates, Meta
  <2> QED
    BY <1>0, <1>2, <1>3, <2>1 DEF Restoring!Select, Restoring!command, Unopened
<1>4. CASE Restoring!SelectNothing
  BY <1>0, <1>2, <1>4 DEF Restoring!SelectNothing, Unopened
<1>5. CASE Restoring!Done \/ Restoring!Close
  BY <1>0, <1>2, <1>5 DEF Restoring!Done, Restoring!Close, Restoring!Between, Restoring!command
<1>6. ASSUME NEW c \in ChunkIds, Restoring!Open(c) \/ Restoring!OpenFails(c)
      PROVE  RestoreInv'
  <2>1. Restoring!Members(c) \subseteq Paths /\ at = "restoring"
    BY <1>6 DEF Restoring!Members, Restoring!Open, Restoring!OpenFails, Restoring!Between
  <2> QED
    BY <1>0, <1>2, <1>6, <2>1, MarkersAssumption
       DEF Restoring!Open, Restoring!OpenFails, Restoring!Between, Restoring!command
<1>7. ASSUME NEW x \in Paths, Restoring!Reads(x), Restoring!Continue(x), got' \subseteq wanted,
             dest' \in [Places -> Restoring!Entry]
      PROVE  RestoreInv'
  BY <1>0, <1>2, <1>7 DEF Restoring!Reads, Restoring!Continue, Restoring!command
<1>8. ASSUME NEW x \in Paths, Restoring!Reads(x), Restoring!Stop,
             dest' \in [Places -> Restoring!Entry]
      PROVE  RestoreInv'
  BY <1>0, <1>2, <1>8 DEF Restoring!Reads, Restoring!Stop, Restoring!command
<1>9. ASSUME ~Restoring!Start
      PROVE  dest' \in [Places -> Restoring!Entry]
  <2>1. ASSUME NEW x \in wanted, NEW e \in Restoring!Entry, Written(x, e)
        PROVE  dest' \in [Places -> Restoring!Entry]
    BY <2>1 DEF Written, Onto, Restoring!Entry, Restoring!Dir
  <2> QED
    BY <1>9, <2>1, DestSteps
<1>10. ASSUME NEW x \in Paths, ~Restoring!Start,
              \/ Restoring!Pass(x) \/ Restoring!PassCut(x) \/ Restoring!Refuse(x)
              \/ Restoring!Write(x) \/ Restoring!WriteCut(x) \/ Restoring!WriteFails(x)
       PROVE  RestoreInv'
  <2>1. Restoring!Reads(x) /\ (Restoring!Stop \/ Restoring!Continue(x))
    BY <1>10 DEF Restoring!Pass, Restoring!PassCut, Restoring!Refuse, Restoring!Write,
                 Restoring!WriteCut, Restoring!WriteFails
  <2>2. Restoring!Continue(x) => got' = got \/ (got' = got \cup {x} /\ x \in wanted)
    <3>1. CASE Restoring!Write(x)
      BY <3>1, Writable DEF Restoring!Write
    <3>2. CASE Restoring!Pass(x)
      BY <3>2 DEF Restoring!Pass
    <3>3. CASE Restoring!Stop
      BY <3>3 DEF Restoring!Stop
    <3> QED
      BY <1>10, <3>1, <3>2, <3>3
         DEF Restoring!PassCut, Restoring!Refuse, Restoring!WriteCut, Restoring!WriteFails
  <2> QED
    BY <1>7, <1>8, <1>9, <1>10, <2>1, <2>2
<1> QED
  BY <1>1, <1>3, <1>4, <1>5, <1>6, <1>10 DEF Restoring!Next

LEMMA Steps ==
    ASSUME AllInv, [RoundTripNext]_allvars
    PROVE  \/ [Next]_vars /\ UNCHANGED restoring
           \/ phase = "finalized" /\ UNCHANGED vars /\ Restoring!Next
BY DEF RoundTripNext, allvars

LEMMA AllInit == RoundTripInit => AllInv
BY ArcInit, RestoreInit DEF RoundTripInit, AllInv

LEMMA AllStep == AllInv /\ [RoundTripNext]_allvars => AllInv'
<1> SUFFICES ASSUME AllInv, [RoundTripNext]_allvars
             PROVE  AllInv'
  OBVIOUS
<1>1. [Next]_vars
  BY DEF RoundTripNext, allvars
<1>2. ArcInv' /\ Kept' /\ Cut'
  BY <1>1, ArcStep, KeptStep, CutStep DEF AllInv
<1>3. CASE UNCHANGED restoring
  <2>1. /\ names' = names /\ strip' = strip /\ wanted' = wanted /\ queue' = queue
        /\ before' = before /\ dest' = dest /\ reading' = reading /\ unread' = unread
        /\ got' = got /\ failed' = failed /\ at' = at
    BY <1>3 DEF restoring
  <2>2. \A x : Restoring!Target(x)' = Restoring!Target(x)
               /\ Restoring!Relative(Restoring!Target(x))' = Restoring!Relative(Restoring!Target(x))
    BY <2>1 DEF Restoring!Target, Restoring!Relative
  <2>3. CASE phase = "finalized"
    <3>1. a' = a /\ tar' = tar /\ phase' = phase
      BY <1>1, <2>3, ArchiverDone DEF vars
    <3>2. Recorded' = Recorded /\ Restoring!Members(reading)' = Restoring!Members(reading)
      BY <2>1, <3>1 DEF Recorded, Restoring!Members
    <3> QED
      BY <1>2, <2>1, <2>2, <3>1, <3>2 DEF AllInv, RestoreInv, Unopened
  <2>4. CASE phase # "finalized"
    <3>1. at = "idle" /\ wanted = {} /\ reading = None
      BY <2>4 DEF AllInv, RestoreInv
    <3> QED
      BY <1>2, <2>1, <3>1 DEF AllInv, RestoreInv, Unopened
  <2> QED
    BY <2>3, <2>4
<1> QED
  BY <1>2, <1>3, Steps, RestoringStep DEF AllInv

-----------------------------------------------------------------------------
(* What comes back *)

(* A file that is still to come back is in a chunk that is still to be read *)
(* or among the members of the present one.                                 *)
Back(x) ==
    LET t == Restoring!Target(x)
        c == a.files[x].chunk IN
    \/ c \in failed \/ Restoring!For(t) # {x} \/ t = <<>>
    \/ c \in queue
    \/ reading = c /\ x \in unread
    \/ t \in Places /\ dest[t] = Original(x)

ComesInv ==
    /\ at \in {"restoring", "done"} => \A x \in wanted \ edited : Back(x)
    /\ at = "done" => wanted = {} \/ queue = {}

(* A step of the restore loses nothing of it. *)
LEMMA BackStep ==
    ASSUME AllInv, Restoring!Next, UNCHANGED vars, at = "restoring",
           NEW x \in wanted \ edited, Back(x)
    PROVE  /\ Back(x)' /\ wanted' = wanted
           /\ at' # "restoring" => at' = "done" /\ queue' = {}
<1>0. /\ UNCHANGED <<a, tar, seen, edited>> /\ x \in Recorded
      /\ a.files[x].chunk \in ChunkIds
      /\ tar[a.files[x].chunk][x] = seen[x] /\ seen[x] \in Versions
  BY DEF vars, AllInv, RestoreInv, ArcInv, TypeInv, ArcStates, Meta, Kept, Recorded, FileMap
<1> DEFINE t == Restoring!Target(x)
           c == a.files[x].chunk
<1>k. ASSUME UNCHANGED <<names, strip, wanted>>
      PROVE  t' = t /\ c' = c /\ Restoring!For(t)' = Restoring!For(t) /\ Original(x)' = Original(x)
  BY <1>0, <1>k DEF Restoring!Target, Restoring!For, Original, Restoring!Restored,
                    Restoring!LinkName
<1> HIDE DEF t, c
<1>b. ASSUME UNCHANGED <<names, strip, wanted>>,
             \/ c \in failed' \/ Restoring!For(t) # {x} \/ t = <<>>
             \/ c \in queue'
             \/ reading' = c /\ x \in unread'
             \/ t \in Places /\ dest'[t] = Original(x)
      PROVE  Back(x)'
  <2>1. /\ t' = t /\ c' = c /\ Restoring!For(t)' = Restoring!For(t)
        /\ Original(x)' = Original(x)
    BY <1>b, <1>k
  <2>2. \/ c' \in failed' \/ Restoring!For(t)' # {x} \/ t' = <<>>
        \/ c' \in queue'
        \/ reading' = c' /\ x \in unread'
        \/ t' \in Places /\ dest'[t'] = Original(x)'
    BY <1>b, <2>1
  <2> QED
    BY <2>2 DEF Back, t, c
<1>a. \/ c \in failed \/ Restoring!For(t) # {x} \/ t = <<>>
      \/ c \in queue
      \/ reading = c /\ x \in unread
      \/ t \in Places /\ dest[t] = Original(x)
  BY DEF Back, t, c
<1>1. CASE Restoring!Start \/ Restoring!Select \/ Restoring!SelectNothing
  BY <1>1 DEF Restoring!Start, Restoring!Select, Restoring!SelectNothing
<1>2. CASE Restoring!Done \/ Restoring!Close
  BY <1>2, <1>a, <1>b
     DEF Restoring!Done, Restoring!Close, Restoring!Between, Restoring!command, AllInv, RestoreInv
<1>3. ASSUME NEW d \in ChunkIds, Restoring!Open(d)
      PROVE  /\ Back(x)' /\ wanted' = wanted
             /\ at' # "restoring" => at' = "done" /\ queue' = {}
  <2>1. reading = None /\ UNCHANGED <<names, strip, wanted, dest, failed, at>>
        /\ queue' = queue \ {d} /\ reading' = d /\ unread' = Restoring!Members(d)
    BY <1>3 DEF Restoring!Open, Restoring!Between, Restoring!command
  <2>2. x \in Restoring!Members(c)
    BY <1>0, MarkersAssumption DEF Restoring!Members, c, AllInv, RestoreInv, Recorded
  <2>3. c # None
    BY <1>0, MarkersAssumption DEF c
  <2> QED
    BY <1>a, <1>b, <2>1, <2>2, <2>3
<1>4. ASSUME NEW d \in ChunkIds, Restoring!OpenFails(d)
      PROVE  /\ Back(x)' /\ wanted' = wanted
             /\ at' # "restoring" => at' = "done" /\ queue' = {}
  BY <1>4, <1>a, <1>b DEF Restoring!OpenFails, Restoring!Between, Restoring!command
<1>5. ASSUME NEW y \in Paths, Restoring!Pass(y)
      PROVE  /\ Back(x)' /\ wanted' = wanted
             /\ at' # "restoring" => at' = "done" /\ queue' = {}
  <2>1. reading = c /\ y = x => t = <<>>
    BY <1>5 DEF Restoring!Pass, Restoring!PassedBy, Restoring!Asked, t, c
  <2> QED
    BY <1>5, <1>a, <1>b, <2>1 DEF Restoring!Pass, Restoring!Continue, Restoring!command
<1>6. ASSUME Restoring!Stop, dest'[t] = dest[t] \/ reading = c
      PROVE  /\ Back(x)' /\ wanted' = wanted
             /\ at' # "restoring" => at' = "done" /\ queue' = {}
  BY <1>6, <1>a, <1>b DEF Restoring!Stop, Restoring!command
<1>7. ASSUME NEW y \in Paths, Restoring!PassCut(y) \/ Restoring!Refuse(y)
      PROVE  Restoring!Stop /\ dest'[t] = dest[t]
  BY <1>7 DEF Restoring!PassCut, Restoring!Refuse
<1>8. ASSUME NEW y \in Paths, Restoring!Write(y)
      PROVE  /\ Back(x)' /\ wanted' = wanted
             /\ at' # "restoring" => at' = "done" /\ queue' = {}
  <2>1. /\ Restoring!Reads(y) /\ ~Restoring!PassedBy(y) /\ Restoring!Accepted(y)
        /\ Restoring!Continue(y) /\ dest' = Onto(y, Restoring!Restored(y, tar[reading][y]))
    BY <1>8, PutIs DEF Restoring!Write
  <2>2. /\ UNCHANGED <<names, strip, wanted, queue, failed, reading, at>>
        /\ unread' = unread \ {y}
    BY <2>1 DEF Restoring!Continue, Restoring!command
  <2>3. reading = a.files[y].chunk /\ y \in wanted /\ Restoring!Target(y) \in Places
    BY <2>1, Writable
  <2>4. CASE y = x
    <3>1. dest'[t] = Original(x) /\ t \in Places
      BY <1>0, <2>1, <2>3, <2>4 DEF Onto, Original, t
    <3> QED
      BY <1>b, <2>2, <3>1
  <2>5. CASE y # x
    <3>1. Restoring!For(t) = {x} => t # Restoring!Target(y)
      BY <2>3, <2>5 DEF Restoring!For
    <3>2. Original(x) # Restoring!Nothing
      BY DEF Original, Restoring!Restored, Restoring!Link, Restoring!File, Restoring!Nothing
    <3>3. Restoring!For(t) = {x} /\ t \in Places /\ dest[t] = Original(x) => dest'[t] = Original(x)
      BY <2>1, <3>1, <3>2 DEF Onto
    <3> QED
      BY <1>a, <1>b, <2>2, <2>5, <3>3
  <2> QED
    BY <2>4, <2>5
<1>9. ASSUME NEW y \in Paths, Restoring!WriteCut(y) \/ Restoring!WriteFails(y)
      PROVE  /\ Back(x)' /\ wanted' = wanted
             /\ at' # "restoring" => at' = "done" /\ queue' = {}
  <2>1. /\ Restoring!Reads(y) /\ ~Restoring!PassedBy(y) /\ Restoring!Accepted(y)
        /\ Restoring!Stop
    BY <1>9 DEF Restoring!WriteCut, Restoring!WriteFails
  <2>2. reading = a.files[y].chunk /\ y \in wanted /\ Restoring!Target(y) \in Places
    BY <2>1, Writable
  <2>3. CASE reading = c
    BY <1>6, <2>1, <2>3
  <2>4. CASE reading # c
    <3>1. UNCHANGED <<names, strip, wanted, queue, at>> /\ failed \subseteq failed'
      BY <2>1 DEF Restoring!Stop, Restoring!command
    <3>2. y # x
      BY <2>2, <2>4 DEF c
    <3>3. Restoring!For(t) = {x} => t # Restoring!Target(y)
      BY <2>2, <3>2 DEF Restoring!For
    <3>4. Original(x) # Restoring!Nothing
      BY DEF Original, Restoring!Restored, Restoring!Link, Restoring!File, Restoring!Nothing
    <3>5. dest' = dest \/ \E e : dest' = Onto(y, e)
      <4>1. \/ dest' = dest
            \/ dest' = Restoring!WithParents(dest, Restoring!Target(y))
            \/ dest' = Restoring!Put(dest, y, Restoring!Nothing)
            \/ dest' = Restoring!Put(dest, y, Restoring!File(Torn))
        BY <1>9 DEF Restoring!WriteCut, Restoring!WriteFails
      <4>2. /\ Restoring!WithParents(dest, Restoring!Target(y)) =
                   Onto(y, dest[Restoring!Target(y)])
            /\ \A e : Restoring!Put(dest, y, e) = Onto(y, e)
        BY <2>1, <2>2, PutIs, WithParentsIs DEF AllInv
      <4> QED
        BY <4>1, <4>2
    <3>6. Restoring!For(t) = {x} /\ t \in Places /\ dest[t] = Original(x) => dest'[t] = Original(x)
      BY <3>3, <3>4, <3>5 DEF Onto
    <3> QED
      BY <1>a, <1>b, <2>4, <3>1, <3>6
  <2> QED
    BY <2>3, <2>4
<1> QED
  BY <1>1, <1>2, <1>3, <1>4, <1>5, <1>6, <1>7, <1>8, <1>9 DEF Restoring!Next

LEMMA RestoringEnds ==
    ASSUME Restoring!Next, at = "restoring"
    PROVE  /\ wanted' = wanted
           /\ at' # "restoring" => at' = "done" /\ queue' = {}
<1>1. CASE Restoring!Start \/ Restoring!Select \/ Restoring!SelectNothing
  BY <1>1 DEF Restoring!Start, Restoring!Select, Restoring!SelectNothing
<1>2. CASE Restoring!Done \/ Restoring!Close
  BY <1>2 DEF Restoring!Done, Restoring!Close, Restoring!command
<1>3. CASE \E c \in ChunkIds : Restoring!Open(c) \/ Restoring!OpenFails(c)
  BY <1>3 DEF Restoring!Open, Restoring!OpenFails, Restoring!command
<1>4. CASE \E x \in Paths : Restoring!Stop \/ Restoring!Continue(x)
  BY <1>4 DEF Restoring!Stop, Restoring!Continue, Restoring!command
<1> QED
  BY <1>1, <1>2, <1>3, <1>4
     DEF Restoring!Next, Restoring!Pass, Restoring!PassCut, Restoring!Refuse, Restoring!Write,
         Restoring!WriteCut, Restoring!WriteFails

LEMMA ComesStep ==
    ASSUME AllInv, ComesInv, Restoring!Next, UNCHANGED vars
    PROVE  ComesInv'
<1>0. edited' = edited
  BY DEF vars
<1>1. CASE at = "restoring"
  BY <1>0, <1>1, BackStep, RestoringEnds DEF ComesInv
<1>2. CASE at # "restoring"
  <2>1. Restoring!Start \/ Restoring!Select \/ Restoring!SelectNothing
    <3>1. reading = None /\ unread = {}
      BY <1>2 DEF AllInv, RestoreInv
    <3> QED
      BY <1>2, <3>1
         DEF Restoring!Next, Restoring!Done, Restoring!Close, Restoring!Between, Restoring!Open,
             Restoring!OpenFails, Restoring!Pass, Restoring!PassCut, Restoring!Refuse,
             Restoring!Write, Restoring!WriteCut, Restoring!WriteFails, Restoring!Reads
  <2>2. CASE Restoring!Start
    BY <2>2 DEF Restoring!Start, ComesInv
  <2>3. CASE Restoring!SelectNothing
    BY <2>3 DEF Restoring!SelectNothing, ComesInv
  <2>4. CASE Restoring!Select
    <3>1. /\ at' = "restoring" /\ wanted' = wanted /\ a' = a
          /\ queue' = {a.files[x].chunk : x \in wanted}
      BY <2>4 DEF Restoring!Select, Restoring!command, vars
    <3>2. \A x \in wanted : a'.files[x].chunk \in queue'
      BY <3>1
    <3> QED
      BY <3>1, <3>2 DEF ComesInv, Back
  <2> QED
    BY <2>1, <2>2, <2>3, <2>4
<1> QED
  BY <1>1, <1>2

-----------------------------------------------------------------------------
(* The theorems *)

RoundTripInv == AllInv /\ OnlyWanted /\ DamageReported /\ ComesInv

(* Before the restore begins nothing is there to be said of it; and the     *)
(* archiver does nothing once it has.                                       *)
LEMMA RoundTripStep == RoundTripInv /\ [RoundTripNext]_allvars => RoundTripInv'
<1> SUFFICES ASSUME RoundTripInv, [RoundTripNext]_allvars
             PROVE  RoundTripInv'
  OBVIOUS
<1>1. AllInv'
  BY AllStep DEF RoundTripInv
<1>2. CASE Restoring!Next /\ UNCHANGED vars
  BY <1>1, <1>2, OnlyWantedStep, DamageStep, ComesStep DEF RoundTripInv
<1>3. CASE [Next]_vars /\ UNCHANGED restoring
  <2>1. /\ names' = names /\ strip' = strip /\ wanted' = wanted /\ queue' = queue
        /\ before' = before /\ dest' = dest /\ reading' = reading /\ unread' = unread
        /\ got' = got /\ failed' = failed /\ at' = at
    BY <1>3 DEF restoring
  <2>2. CASE at = "idle"
    <3>1. dest' = before'
      BY <2>1, <2>2 DEF RoundTripInv, AllInv, RestoreInv
    <3> QED
      BY <1>1, <2>1, <2>2, <3>1
         DEF RoundTripInv, OnlyWanted, DamageReported, Restoring!OnlyWanted,
             Restoring!DamageReported, ComesInv
  <2>3. CASE at # "idle"
    <3>1. UNCHANGED vars
      BY <1>3, <2>3, ArchiverDone DEF RoundTripInv, AllInv, RestoreInv
    <3>2. /\ a' = a /\ tar' = tar /\ seen' = seen /\ edited' = edited
      BY <3>1 DEF vars
    <3>3. OnlyWanted'
      BY <2>1
         DEF RoundTripInv, OnlyWanted, Restoring!OnlyWanted, Restoring!For, Restoring!Target
    <3>4. DamageReported'
      BY <2>1, <3>2
         DEF RoundTripInv, DamageReported, Restoring!DamageReported, Restoring!For,
             Restoring!Target, Restoring!Restored, Restoring!LinkName
    <3>5. ComesInv'
      BY <2>1, <3>2
         DEF RoundTripInv, ComesInv, Back, Restoring!For, Restoring!Target, Original,
             Restoring!Restored, Restoring!LinkName
    <3> QED
      BY <1>1, <3>3, <3>4, <3>5 DEF RoundTripInv
  <2> QED
    BY <2>2, <2>3
<1> QED
  BY <1>2, <1>3, Steps DEF RoundTripInv

LEMMA RoundTripInitInv == RoundTripInit => RoundTripInv
<1> SUFFICES ASSUME RoundTripInit
             PROVE  RoundTripInv
  OBVIOUS
<1>1. at = "idle" /\ dest = before
  BY DEF RoundTripInit, Restoring!Init
<1> QED
  BY <1>1, AllInit
     DEF RoundTripInv, OnlyWanted, DamageReported, Restoring!OnlyWanted,
         Restoring!DamageReported, ComesInv

LEMMA Invariant == RoundTripSpec => []RoundTripInv
<1>1. RoundTripInit => RoundTripInv
  BY RoundTripInitInv
<1>2. RoundTripInv /\ [RoundTripNext]_allvars => RoundTripInv'
  BY RoundTripStep
<1> QED
  BY <1>1, <1>2, PTL DEF RoundTripSpec

-----------------------------------------------------------------------------
(* The restore implements what SecureBackup says of it *)

(* No chunk is read twice. *)
Once == reading \notin queue /\ \A x \in got : a.files[x].chunk \notin queue

LEMMA WantedIs ==
    ASSUME RestoreInv, at \in {"select", "restoring"}
    PROVE  Restoring!Command!Wanted(Restoring!proc) = wanted
<1>1. Restoring!Command!Listed(a.files) = Recorded
  BY DEF Restoring!Command!Listed, Recorded
<1>2. Restoring!Command!Matched(wanted) = wanted
  BY DEF Restoring!Command!Matched, RestoreInv, Recorded
<1>3. wanted \subseteq Recorded
  BY DEF RestoreInv
<1> QED
  BY <1>1, <1>2, <1>3
     DEF Restoring!Command!Wanted, Restoring!Command!Selected, Restoring!manifest

(* Extract has returned, with an error or without. *)
LEMMA ChunkReturned ==
    ASSUME AllInv, Once, at = "restoring", reading # None, reading' = None,
           UNCHANGED <<vars, wanted, queue, got, at>>
    PROVE  Restoring!Command!Restore(Restoring!proc)
<1> DEFINE c == reading
           Part == {x \in got : a.files[x].chunk = c /\ Restoring!Whole[c][x] # None}
           out == [p \in {Restoring!proc} |->
                     [x \in Paths |-> IF at # "done" /\ x \in Restoring!Finished
                                      THEN Restoring!Whole[a.files[x].chunk][x] ELSE None]]
           left == [p \in {Restoring!proc} |->
                     IF at = "done" THEN {} ELSE queue \cup ({reading} \ {None})]
           pc == [p \in {Restoring!proc} |->
                    CASE at = "select" -> "select"
                      [] at = "restoring" -> "restore"
                      [] OTHER -> "idle"]
<1>0. c \in ChunkIds /\ got \subseteq wanted /\ wanted \subseteq Paths /\ None \notin queue
      /\ c \notin queue
  BY MarkersAssumption DEF AllInv, RestoreInv, Recorded, Once
<1>1. a' = a /\ tar' = tar /\ Restoring!Whole' = Restoring!Whole
  BY DEF vars, Restoring!Whole
<1>2. Part \subseteq Restoring!Command!Found(Restoring!proc, c)
  BY <1>0, WantedIs
     DEF AllInv, Restoring!Command!Found, Restoring!Command!Extracted, Restoring!manifest
<1>3. /\ left[Restoring!proc] = queue \cup {c}
      /\ left' = [left EXCEPT ![Restoring!proc] = @ \ {c}]
      /\ pc[Restoring!proc] = "restore" /\ pc' = pc
  BY <1>0
<1>4. out' = [out EXCEPT ![Restoring!proc] =
                  [x \in Paths |-> IF x \in Part THEN Restoring!Whole[c][x] ELSE @[x]]]
  <2>1. ASSUME NEW x \in Paths
        PROVE  (IF x \in Restoring!Finished' THEN Restoring!Whole[a.files[x].chunk][x] ELSE None)
               = IF x \in Part THEN Restoring!Whole[c][x]
                 ELSE IF x \in Restoring!Finished THEN Restoring!Whole[a.files[x].chunk][x]
                 ELSE None
    <3>1. x \in Restoring!Finished <=> x \in got /\ a.files[x].chunk # c
      BY DEF Restoring!Finished
    <3>2. x \in Restoring!Finished' <=> x \in got /\ a.files[x].chunk # None
      BY <1>1 DEF Restoring!Finished
    <3>3. x \in got => a.files[x].chunk # None
      BY MarkersAssumption
         DEF AllInv, RestoreInv, Recorded, ArcInv, TypeInv, ArcStates, Meta
    <3> QED
      BY <3>1, <3>2, <3>3
  <2> QED
    BY <1>1, <2>1
<1>5. Restoring!Command!Restored(Restoring!proc, c, Part)
  BY <1>1, <1>3, <1>4
     DEF Restoring!Command!Restored, Restoring!Command!remote, Restoring!Command!chunkdata,
         Restoring!NoFiles, Restoring!manifest
<1>6. /\ Restoring!Command!Key(Restoring!proc, c) \in {Restoring!prefix} \X ChunkIds
      /\ c \in left[Restoring!proc]
  BY <1>0, <1>3 DEF Restoring!Command!Key
<1>7. Restoring!Command!RestoreChunkPartly(Restoring!proc, c)
  <2> HIDE DEF Part
  <2> QED
    BY <1>2, <1>3, <1>5, <1>6
       DEF Restoring!Command!RestoreChunkPartly, Restoring!Command!Restored
<1> QED
  BY <1>0, <1>7 DEF Restoring!Command!Restore

LEMMA SameRestore ==
    ASSUME UNCHANGED <<a, tar, wanted, at>>,
           queue' \cup ({reading'} \ {None}) = queue \cup ({reading} \ {None}),
           Restoring!Finished' = Restoring!Finished
    PROVE  UNCHANGED Restoring!abstract
BY DEF Restoring!abstract, Restoring!Command!vars, Restoring!Whole, Restoring!NoFiles,
       Restoring!manifest

LEMMA OnceStep == AllInv /\ Once /\ [RoundTripNext]_allvars => Once'
<1> SUFFICES ASSUME AllInv, Once, [RoundTripNext]_allvars
             PROVE  Once'
  OBVIOUS
<1> USE DEF Once
<1>0. got \subseteq Recorded /\ None \notin queue
  BY MarkersAssumption DEF AllInv, RestoreInv
<1>1. CASE [Next]_vars /\ UNCHANGED restoring
  <2>1. UNCHANGED <<queue, reading, got, at>>
    BY <1>1 DEF restoring
  <2>2. CASE at \in {"idle", "select"}
    BY <1>0, <2>1, <2>2 DEF AllInv, RestoreInv, Unopened
  <2>3. CASE at \notin {"idle", "select"}
    <3>1. UNCHANGED vars
      BY <1>1, <2>3, ArchiverDone DEF AllInv, RestoreInv
    <3> QED
      BY <2>1, <3>1 DEF vars
  <2> QED
    BY <2>2, <2>3
<1>2. CASE phase = "finalized" /\ UNCHANGED vars /\ Restoring!Next
  <2>0. a' = a
    BY <1>2 DEF vars
  <2>1. CASE Restoring!Start \/ Restoring!SelectNothing \/ Restoring!Done \/ Restoring!Close
    BY <1>0, <2>0, <2>1
       DEF Restoring!Start, Restoring!SelectNothing, Restoring!Done, Restoring!Close
  <2>2. CASE Restoring!Select
    BY <1>0, <2>0, <2>2, MarkersAssumption
       DEF Restoring!Select, AllInv, RestoreInv, Unopened, Recorded, ArcInv, TypeInv,
           ArcStates, Meta
  <2>3. ASSUME NEW c \in ChunkIds, Restoring!Open(c) \/ Restoring!OpenFails(c)
        PROVE  Once'
    BY <1>0, <2>0, <2>3 DEF Restoring!Open, Restoring!OpenFails
  <2>4. ASSUME NEW x \in Paths, Restoring!Write(x)
        PROVE  Once'
    BY <2>0, <2>4, Writable DEF Restoring!Write, Restoring!Continue
  <2>5. ASSUME NEW x \in Paths,
               \/ Restoring!Pass(x) \/ Restoring!PassCut(x) \/ Restoring!Refuse(x)
               \/ Restoring!WriteCut(x) \/ Restoring!WriteFails(x)
        PROVE  Once'
    BY <1>0, <2>0, <2>5
       DEF Restoring!Pass, Restoring!PassCut, Restoring!Refuse, Restoring!WriteCut,
           Restoring!WriteFails, Restoring!Continue, Restoring!Stop
  <2> QED
    BY <1>2, <2>1, <2>2, <2>3, <2>4, <2>5 DEF Restoring!Next
<1> QED
  BY <1>1, <1>2, Steps

LEMMA SelectImplements ==
    ASSUME AllInv, UNCHANGED vars, Restoring!Select
    PROVE  Restoring!Command!Restore(Restoring!proc)
<1>1. at = "select" /\ at' = "restoring" /\ wanted' = wanted /\ wanted # {}
  BY DEF Restoring!Select, Restoring!command
<1>2. /\ queue = {} /\ reading = None /\ reading' = None /\ got = {} /\ got' = {}
      /\ queue' = {a.files[x].chunk : x \in wanted}
  BY <1>1 DEF Restoring!Select, AllInv, RestoreInv, Unopened
<1>3. a' = a /\ tar' = tar
  BY DEF vars
<1>4. Restoring!Command!Wanted(Restoring!proc) = wanted
  BY <1>1, WantedIs DEF AllInv
<1>5. Restoring!Finished = {} /\ Restoring!Finished' = {} /\ Restoring!Whole' = Restoring!Whole
  BY <1>2, <1>3 DEF Restoring!Finished, Restoring!Whole
<1>6. Restoring!Command!Select(Restoring!proc)
  BY <1>1, <1>2, <1>3, <1>4, <1>5
     DEF Restoring!Command!Select, Restoring!Command!Goto, Restoring!Command!remote,
         Restoring!Command!chunkdata, Restoring!NoFiles, Restoring!manifest
<1> QED
  BY <1>6 DEF Restoring!Command!Restore

(* The restore is over, and what it knew is gone. *)
LEMMA EndsImplements ==
    ASSUME AllInv, UNCHANGED vars, Restoring!SelectNothing \/ Restoring!Done
    PROVE  Restoring!Command!Restore(Restoring!proc)
<1>1. a' = a /\ tar' = tar /\ at' = "done" /\ Restoring!Whole' = Restoring!Whole
  BY DEF vars, Restoring!SelectNothing, Restoring!Done, Restoring!Whole
<1>2. Restoring!Command!Exit(Restoring!proc)
  BY <1>1
     DEF Restoring!Command!Exit, Restoring!Command!NoJob, Restoring!Command!NewManifest,
         Restoring!Command!NewArchiver, Restoring!Command!NoFiles, Restoring!NoFiles
<1>3. CASE Restoring!SelectNothing
  <2>1. Restoring!Command!NothingToRestore(Restoring!proc)
    BY <1>1, <1>2, <1>3
       DEF Restoring!SelectNothing, Restoring!Command!NothingToRestore,
           Restoring!Command!remote, Restoring!Command!chunkdata, Restoring!NoFiles,
           Restoring!manifest
  <2> QED
    BY <2>1 DEF Restoring!Command!Restore
<1>4. CASE Restoring!Done
  <2>1. at = "restoring" /\ reading = None /\ queue = {}
    BY <1>4 DEF Restoring!Done, Restoring!Between
  <2>2. Restoring!Command!RestoreDone(Restoring!proc)
    BY <1>1, <1>2, <2>1
       DEF Restoring!Command!RestoreDone, Restoring!Command!remote,
           Restoring!Command!chunkdata, Restoring!NoFiles, Restoring!manifest
  <2> QED
    BY <2>2 DEF Restoring!Command!Restore
<1> QED
  BY <1>3, <1>4

LEMMA OpenFailsImplements ==
    ASSUME AllInv, Once, UNCHANGED vars, NEW c \in ChunkIds, Restoring!OpenFails(c)
    PROVE  Restoring!Command!Restore(Restoring!proc)
<1>1. /\ at = "restoring" /\ at' = at /\ reading = None /\ reading' = None
      /\ c \in queue /\ queue' = queue \ {c} /\ got' = got /\ wanted' = wanted
  BY DEF Restoring!OpenFails, Restoring!Between, Restoring!command
<1>2. a' = a /\ tar' = tar
  BY DEF vars
<1>3. Restoring!Finished' = Restoring!Finished /\ Restoring!Whole' = Restoring!Whole
  BY <1>1, <1>2 DEF Restoring!Finished, Restoring!Whole
<1>4. Restoring!Command!RestoreChunkFails(Restoring!proc, c)
  BY <1>1, <1>2, <1>3
     DEF Restoring!Command!RestoreChunkFails, Restoring!Command!remote,
         Restoring!Command!chunkdata, Restoring!NoFiles, Restoring!manifest
<1> QED
  BY <1>4 DEF Restoring!Command!Restore

LEMMA RestoreRefined ==
    AllInv /\ Once /\ [RoundTripNext]_allvars => [Restoring!RestoreStep]_(Restoring!abstract)
<1> SUFFICES ASSUME AllInv, Once, [RoundTripNext]_allvars, at # "idle"
             PROVE  \/ Restoring!Command!Restore(Restoring!proc)
                    \/ UNCHANGED Restoring!abstract
  BY DEF Restoring!RestoreStep
<1>0. phase = "finalized"
  BY DEF AllInv, RestoreInv
<1>1. CASE [Next]_vars /\ UNCHANGED restoring
  <2>1. UNCHANGED <<a, tar, wanted, queue, reading, got, at>>
    BY <1>0, <1>1, ArchiverDone DEF vars, restoring
  <2> QED
    BY <2>1, SameRestore DEF Restoring!Finished
<1>2. CASE UNCHANGED vars /\ Restoring!Next
  <2>0. a' = a /\ tar' = tar
    BY <1>2 DEF vars
  <2>1. CASE Restoring!Start
    BY <2>1 DEF Restoring!Start
  <2>2. CASE Restoring!Select \/ Restoring!SelectNothing \/ Restoring!Done
    BY <1>2, <2>2, SelectImplements, EndsImplements
  <2>3. CASE Restoring!Close
    <3>1. at = "restoring"
      BY <2>3 DEF Restoring!Close, AllInv, RestoreInv
    <3> QED
      BY <1>2, <2>3, <3>1, ChunkReturned DEF Restoring!Close, Restoring!command
  <2>4. ASSUME NEW c \in ChunkIds, Restoring!Open(c)
        PROVE  UNCHANGED Restoring!abstract
    <3>1. /\ at' = at /\ reading = None /\ reading' = c /\ c \in queue /\ queue' = queue \ {c}
          /\ got' = got /\ wanted' = wanted /\ c # None
      BY <2>4, MarkersAssumption DEF Restoring!Open, Restoring!Between, Restoring!command
    <3>2. \A x \in got : a.files[x].chunk # None
      BY MarkersAssumption
         DEF AllInv, RestoreInv, Recorded, ArcInv, TypeInv, ArcStates, Meta
    <3>3. Restoring!Finished' = Restoring!Finished
      BY <2>0, <3>1, <3>2 DEF Restoring!Finished, Once
    <3> QED
      BY <2>0, <3>1, <3>3, SameRestore
  <2>5. ASSUME NEW c \in ChunkIds, Restoring!OpenFails(c)
        PROVE  Restoring!Command!Restore(Restoring!proc)
    BY <1>2, <2>5, OpenFailsImplements
  <2>6. ASSUME NEW x \in Paths, Restoring!Pass(x) \/ Restoring!Write(x)
        PROVE  UNCHANGED Restoring!abstract
    <3>1. UNCHANGED <<at, reading, queue, wanted>>
      BY <2>6 DEF Restoring!Pass, Restoring!Write, Restoring!Continue, Restoring!command
    <3>2. got' = got \/ (got' = got \cup {x} /\ a.files[x].chunk = reading)
      BY <2>6, Writable DEF Restoring!Pass, Restoring!Write
    <3>3. Restoring!Finished' = Restoring!Finished
      BY <2>0, <3>1, <3>2 DEF Restoring!Finished
    <3> QED
      BY <2>0, <3>1, <3>3, SameRestore
  <2>7. ASSUME NEW x \in Paths,
               \/ Restoring!PassCut(x) \/ Restoring!Refuse(x)
               \/ Restoring!WriteCut(x) \/ Restoring!WriteFails(x)
        PROVE  Restoring!Command!Restore(Restoring!proc)
    <3>1. Restoring!Reads(x) /\ Restoring!Stop
      BY <2>7 DEF Restoring!PassCut, Restoring!Refuse, Restoring!WriteCut, Restoring!WriteFails
    <3>2. at = "restoring" /\ reading # None
      BY <3>1 DEF Restoring!Reads, AllInv, RestoreInv
    <3> QED
      BY <1>2, <3>1, <3>2, ChunkReturned DEF Restoring!Stop, Restoring!command
  <2> QED
    BY <1>2, <2>1, <2>2, <2>3, <2>4, <2>5, <2>6, <2>7 DEF Restoring!Next
<1> QED
  BY <1>1, <1>2, Steps

(***************************************************************************)
(* The archiver and the restore keep their types (Archiver.TypeOK,         *)
(* Extract.TypeOK): what the archiver leaves behind is what Extract        *)
(* expects.                                                                *)
(***************************************************************************)
THEOREM TypesCorrect == RoundTripSpec => []Types
<1>1. RoundTripInv => Types
  <2>1. RoundTripInv => TypeOK
    BY DEF RoundTripInv, AllInv, ArcInv, TypeInv, TypeOK, ArcStates, Marks
  <2>2. RoundTripInv => Restoring!TypeOK
    BY DEF RoundTripInv, AllInv, RestoreInv, Restoring!TypeOK, Recorded, Name
  <2> QED
    BY <2>1, <2>2 DEF Types
<1> QED
  BY <1>1, Invariant, PTL

(***************************************************************************)
(* What runBackup uploads and lists is complete: a recorded file that did  *)
(* not change since the walk is in the chunk recorded for it, with the     *)
(* bytes the walk saw (Archiver.RecordedComplete).                         *)
(***************************************************************************)
THEOREM AlwaysRecordedComplete == RoundTripSpec => []RecordedComplete
<1>1. RoundTripInv => RecordedComplete
  BY DEF RoundTripInv, AllInv, Kept, RecordedComplete
<1> QED
  BY <1>1, Invariant, PTL

(***************************************************************************)
(* Finalize accepts a chunk that is cut short only when the file shrank    *)
(* and was recorded in it, however the calls that fail and those that roll *)
(* a chunk follow each other (Archiver.CutOnlyByShrinking).                *)
(***************************************************************************)
THEOREM AlwaysCutByShrinking == RoundTripSpec => []CutOnlyByShrinking
<1>1. RoundTripInv => CutOnlyByShrinking
  BY DEF RoundTripInv, AllInv, ArcInv, Working, Cut, CutOnlyByShrinking, Finalized
<1> QED
  BY <1>1, Invariant, PTL

(***************************************************************************)
(* A restore changes the places of the files it was asked for, and makes   *)
(* directories above them, and does nothing else, whatever links and files *)
(* the destination held (Extract.OnlyWanted).                              *)
(***************************************************************************)
THEOREM AlwaysOnlyWanted == RoundTripSpec => []OnlyWanted
<1>1. RoundTripInv => OnlyWanted
  BY DEF RoundTripInv
<1> QED
  BY <1>1, Invariant, PTL

(***************************************************************************)
(* What a restore writes is what the chunk holds, or its chunk is reported *)
(* as failed (Extract.DamageReported).                                     *)
(***************************************************************************)
THEOREM DamageAlwaysReported == RoundTripSpec => []DamageReported
<1>1. RoundTripInv => DamageReported
  BY DEF RoundTripInv
<1> QED
  BY <1>1, Invariant, PTL

(***************************************************************************)
(* What was archived is what comes back (RoundTrip.ComesBack).             *)
(***************************************************************************)
THEOREM EverythingComesBack == RoundTripSpec => []ComesBack
<1>1. RoundTripInv => ComesBack
  <2> SUFFICES ASSUME RoundTripInv, at = "done", NEW x \in wanted \ edited,
                      a.files[x].chunk \notin failed,
                      Restoring!For(Restoring!Target(x)) = {x},
                      Restoring!Target(x) # <<>>
               PROVE  dest[Restoring!Target(x)] = Original(x)
    BY DEF ComesBack
  <2>1. reading = None /\ queue = {} /\ Back(x)
    BY DEF RoundTripInv, ComesInv, AllInv, RestoreInv
  <2>2. unread = {}
    BY <2>1 DEF RoundTripInv, AllInv, RestoreInv
  <2> QED
    BY <2>1, <2>2 DEF Back
<1> QED
  BY <1>1, Invariant, PTL

(***************************************************************************)
(* However many files are added, a chunk is left only when its files reach *)
(* the limit, and none is added to one that reached it                     *)
(* (Archiver.ChunksFilled).                                                *)
(***************************************************************************)
THEOREM ChunksAlwaysFilled == RoundTripSpec => []ChunksFilled
<1>1. RoundTripInit => ChunkInv /\ FillInv
  BY ChunkInit, FillInit DEF RoundTripInit
<1>2. RoundTripInv /\ ChunkInv /\ FillInv /\ [RoundTripNext]_allvars => (ChunkInv /\ FillInv)'
  BY ChunkStep, FillStep, Steps DEF RoundTripInv, AllInv
<1>3. ArcInv /\ FillInv => ChunksFilled
  BY WeightIs DEF FillInv, Filling, ChunksFilled, Members, ArcInv, TypeInv, ArcStates
<1>4. RoundTripInv => ArcInv
  BY DEF RoundTripInv, AllInv
<1> QED
  BY <1>1, <1>2, <1>3, <1>4, Invariant, PTL DEF RoundTripSpec

(***************************************************************************)
(* Every call of AddFile and Finalize has an outcome that SecureBackup     *)
(* gives it (Archiver.ImplementsArchive): what is proved of the commands   *)
(* holds with the tar writer, the chunk file and the running size there.   *)
(***************************************************************************)
THEOREM ArchiveImplemented == RoundTripSpec => ImplementsArchive
<1>1. RoundTripInit => ChunkInv
  BY ChunkInit DEF RoundTripInit
<1>2. RoundTripInv /\ ChunkInv /\ [RoundTripNext]_allvars => ChunkInv'
  BY ChunkStep, Steps DEF RoundTripInv, AllInv
<1>3. RoundTripInv /\ ChunkInv /\ [RoundTripNext]_allvars
          => [Command!Archive(proc) \/ \E x \in Paths : Command!Edit(x)]_vars
  BY ArchiveStep, Steps DEF RoundTripInv, AllInv
<1> QED
  BY <1>1, <1>2, <1>3, Invariant, PTL DEF RoundTripSpec, ImplementsArchive

(***************************************************************************)
(* Every step of a restore is one that SecureBackup allows, or none        *)
(* (RoundTrip.ImplementsRestore): whatever Extract does to the members of  *)
(* a chunk, the command sees all of it, a part of it or nothing.           *)
(***************************************************************************)
THEOREM RestoreImplemented == RoundTripSpec => ImplementsRestore
<1>1. RoundTripInit => Once
  BY DEF RoundTripInit, Restoring!Init, Once
<1>2. RoundTripInv /\ Once /\ [RoundTripNext]_allvars => Once'
  BY OnceStep DEF RoundTripInv
<1>3. RoundTripInv /\ Once /\ [RoundTripNext]_allvars
          => [Restoring!RestoreStep]_(Restoring!abstract)
  BY RestoreRefined DEF RoundTripInv
<1> QED
  BY <1>1, <1>2, <1>3, Invariant, PTL DEF RoundTripSpec, ImplementsRestore
=============================================================================
