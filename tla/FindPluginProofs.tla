--------------------------- MODULE FindPluginProofs ---------------------------
(***************************************************************************)
(* Proofs about findPlugin: whatever is rebuilt, signed or removed while   *)
(* the search goes on, it finds a plugin that it verified, and passes over *)
(* none that it should have accepted.                                      *)
(***************************************************************************)
EXTENDS FindPlugin, TLAPS

(* What the search has read of the present candidate is still there, or the *)
(* candidate has changed; and it was not good enough for the trusted keys.  *)
HalfRead ==
    Order[at] \in changed \/
        /\ pc \in {"bin", "pub"} => sig = here.sig
        /\ pc = "pub" => bin = here.bin /\ ~Trusted(keys, bin, sig)

Started == pc = "keys" => at = 1

FindInv == TypeOK /\ Started /\ HalfRead /\ NoneHidden /\ FoundVerified

(* The places passed over stay passed over. *)
PassedBy(i) == Order[i] \in changed \/ ~Acceptable(Order[i])

LEMMA NextInRange ==
    ASSUME NEW n \in Nat, NEW i \in 1 .. n, i < n
    PROVE  i + 1 \in 1 .. n
  OBVIOUS

LEMMA OrderRange ==
    /\ Last \in Nat /\ Last >= 1
    /\ \A i \in 1 .. Last : Order[i] \in Places
  BY OrderAssumption DEF Last

(* continue: when the present candidate is rightly refused, the search goes *)
(* on, and every candidate behind it was rightly refused.                   *)
LEMMA SkipKeeps ==
    ASSUME FindInv, pc \notin {"keys", "found", "missing"},
           Skip, outages' \subseteq Places, outages \subseteq outages',
           NEW q, q = Order[at], q \in changed \/ ~Acceptable(q)'
    PROVE  FindInv'
<1> USE DEF FindInv
<1>1. UNCHANGED <<place, signing, changes, changed, keys, sig, bin>>
  BY DEF Skip, environment
<1>2. at \in 1 .. Last /\ at' \in 1 .. Last /\ pc' \in {"path", "missing"}
  <2>1. at \in 1 .. Last /\ Last \in Nat
    BY OrderRange DEF TypeOK
  <2>2. CASE at < Last
    BY <2>1, <2>2, NextInRange DEF Skip
  <2>3. CASE ~(at < Last)
    BY <2>1, <2>3 DEF Skip
  <2> QED
    BY <2>2, <2>3
<1>3. TypeOK'
  BY <1>1, <1>2 DEF TypeOK
<1>4. Passed' = 1 .. at
  <2>1. CASE at < Last
    <3>1. pc' = "path" /\ at' = at + 1
      BY <2>1 DEF Skip
    <3> QED
      BY <1>2, <3>1 DEF Passed
  <2>2. CASE ~(at < Last)
    <3>1. pc' = "missing" /\ at = Last
      BY <1>2, <2>2, OrderRange DEF Skip
    <3> QED
      BY <3>1 DEF Passed, Last
  <2> QED
    BY <2>1, <2>2
<1>5. \A i \in 1 .. at : PassedBy(i)'
  <2> SUFFICES ASSUME NEW i \in 1 .. at PROVE PassedBy(i)'
    OBVIOUS
  <2>1. CASE i = at
    BY <1>1, <2>1 DEF PassedBy
  <2>2. CASE i # at
    <3>1. i \in Passed
      BY <1>2, <2>2 DEF Passed
    <3>2. PassedBy(i)
      BY <3>1 DEF NoneHidden, PassedBy
    <3> QED
      BY <1>1, <3>2 DEF PassedBy, Acceptable, Trusted, Verify
  <2> QED
    BY <2>1, <2>2
<1>6. NoneHidden'
  BY <1>4, <1>5 DEF NoneHidden, PassedBy
<1>7. HalfRead' /\ Started' /\ FoundVerified'
  BY <1>2 DEF HalfRead, Started, FoundVerified
<1> QED
  BY <1>3, <1>6, <1>7

(* The search goes on with the present candidate. *)
LEMMA ProceedKeeps ==
    ASSUME FindInv, NEW l, l \in {"stat", "sig", "bin", "pub", "found"},
           pc \notin {"keys", "missing"}, Proceed(l),
           sig' \in Signatures \cup {None, Torn}, bin' \in Builds \cup {None, Torn},
           HalfRead', FoundVerified'
    PROVE  FindInv'
<1> USE DEF FindInv
<1>1. UNCHANGED <<place, signing, changes, changed, at, keys, outages>> /\ pc' = l
  BY DEF Proceed, environment
<1>2. TypeOK'
  BY <1>1 DEF TypeOK
<1>3. Passed' = Passed
  BY <1>1 DEF Passed
<1>4. NoneHidden'
  BY <1>1, <1>3 DEF NoneHidden, Acceptable, Trusted, Verify
<1> QED
  BY <1>1, <1>2, <1>4 DEF Started

LEMMA SearchKeeps ==
    ASSUME FindInv, Search
    PROVE  FindInv'
<1> USE DEF FindInv
<1>0. PICK q \in Places : q = Order[at]
  BY OrderRange DEF TypeOK
<1>00. at \in 1 .. Last /\ here = place[q] /\ here \in Candidates
  BY <1>0 DEF TypeOK, here
<1>01. ASSUME Skip, UNCHANGED outages, pc \in {"path", "stat", "bin"},
             place[q].standing # "sound"
      PROVE  FindInv'
  <2>1. ~Acceptable(q)'
    BY <1>01 DEF Skip, environment, Acceptable
  <2> QED
    BY <1>0, <1>01, <2>1, SkipKeeps DEF TypeOK
<1>1. CASE LoadTrustedKeys
  <2>1. PICK answering \in SUBSET Keyrings : keys' = UNION {Holds[r] : r \in answering}
    BY <1>1 DEF LoadTrustedKeys
  <2>2. keys' \subseteq Keys
    BY <2>1, KeysAssumption
  <2>3. UNCHANGED <<place, signing, changes, changed, at, sig, bin, outages>> /\ pc' = "path"
    BY <1>1 DEF LoadTrustedKeys, environment
  <2>4. TypeOK'
    BY <2>2, <2>3 DEF TypeOK
  <2>5. Passed' = {}
    BY <1>1, <2>3 DEF LoadTrustedKeys, Started, Passed
  <2> QED
    BY <2>3, <2>4, <2>5 DEF Started, HalfRead, NoneHidden, FoundVerified
<1>2. CASE WalkPath
  <2>1. CASE here.standing \in Detours \cup {"link"}
    <3>1. place[q].standing # "sound" /\ Skip /\ UNCHANGED outages /\ pc = "path"
      BY <1>2, <1>00, <2>1 DEF WalkPath, Detours
    <3> QED
      BY <3>1, <1>01
  <2>2. CASE here.standing \notin Detours \cup {"link"}
    BY <1>2, <2>2, ProceedKeeps
       DEF WalkPath, Proceed, environment, TypeOK, HalfRead, FoundVerified
  <2> QED
    BY <2>1, <2>2
<1>3. CASE Stat
  <2>1. CASE here.standing \in {"absent", "directory", "link", "loose", "foreign"}
    <3>1. place[q].standing # "sound" /\ Skip /\ UNCHANGED outages /\ pc = "stat"
      BY <1>3, <1>00, <2>1 DEF Stat
    <3> QED
      BY <3>1, <1>01
  <2>2. CASE here.standing \notin {"absent", "directory", "link", "loose", "foreign"}
    BY <1>3, <2>2, ProceedKeeps
       DEF Stat, Proceed, environment, TypeOK, HalfRead, FoundVerified
  <2> QED
    BY <2>1, <2>2
<1>4. CASE ReadSignature
  <2>1. CASE here.sig = None
    <3>1. Skip /\ UNCHANGED outages /\ pc = "sig"
      BY <1>4, <2>1 DEF ReadSignature
    <3>11. UNCHANGED <<place, keys>>
      BY <3>1 DEF Skip, environment
    <3>2. ASSUME NEW k \in Keys, NEW b
          PROVE  ~Verify(k, b, place[q].sig)
      BY <1>00, <2>1, SignaturesAssumption DEF Verify, Signatures
    <3>3. ~Acceptable(q)'
      <4>1. ~Trusted(keys, place[q].bin, place[q].sig)
        BY <3>2 DEF Trusted, TypeOK
      <4>2. ~(place[q].pub \in Registered /\ Verify(place[q].pub, place[q].bin, place[q].sig))
        BY <3>2, KeysAssumption
      <4> QED
        BY <3>11, <4>1, <4>2 DEF Acceptable, Trusted, Verify
    <3> QED
      BY <1>0, <3>1, <3>3, SkipKeeps DEF TypeOK
  <2>2. CASE here.sig # None
    <3>1. sig' \in Signatures \cup {None, Torn} /\ bin' = bin /\ pc = "sig" /\ Proceed("bin")
      BY <1>00, <1>4, <2>2 DEF ReadSignature, Candidates
    <3>2. HalfRead' /\ FoundVerified'
      BY <1>4, <2>2 DEF ReadSignature, Proceed, environment, HalfRead, FoundVerified, here
    <3> QED
      BY <3>1, <3>2, ProceedKeeps DEF TypeOK
  <2> QED
    BY <2>1, <2>2
<1>5. CASE ReadBinary
  <2>1. CASE here.standing \in {"absent", "directory", "unreadable"}
    <3>1. place[q].standing # "sound" /\ Skip /\ UNCHANGED outages /\ pc = "bin"
      BY <1>5, <1>00, <2>1 DEF ReadBinary
    <3> QED
      BY <3>1, <1>01
  <2>2. CASE here.standing \notin {"absent", "directory", "unreadable"}
    <3>1. /\ pc = "bin" /\ bin' = here.bin /\ sig' = sig
          /\ UNCHANGED <<place, changed, at, keys>>
      BY <1>5, <2>2 DEF ReadBinary, Proceed, environment
    <3>2. here' = here
      BY <3>1 DEF here
    <3>3. bin' \in Builds \cup {None, Torn} /\ sig' \in Signatures \cup {None, Torn}
      BY <1>00, <3>1 DEF Candidates, TypeOK
    <3>4. CASE Trusted(keys, here.bin, sig)
      <4>1. Proceed("found")
        BY <1>5, <2>2, <3>4 DEF ReadBinary
      <4>2. PICK k \in keys : here.bin \in Builds /\ sig = [key |-> k, build |-> here.bin]
        BY <3>4 DEF Trusted, Verify
      <4>3. sig \in Signatures /\ sig.key = k /\ sig.build = here.bin
        BY <4>2, KeysAssumption DEF TypeOK, Signatures
      <4>4. HalfRead' /\ FoundVerified'
        BY <3>1, <4>1, <4>2, <4>3 DEF Proceed, HalfRead, FoundVerified
      <4> QED
        BY <3>1, <3>3, <4>1, <4>4, ProceedKeeps
    <3>5. CASE ~Trusted(keys, here.bin, sig)
      <4>1. Proceed("pub")
        BY <1>5, <2>2, <3>5 DEF ReadBinary
      <4>2. ~Trusted(keys, bin, sig)'
        BY <3>1, <3>5 DEF Trusted, Verify
      <4>3. HalfRead' /\ FoundVerified'
        BY <3>1, <3>2, <4>1, <4>2 DEF Proceed, HalfRead, FoundVerified
      <4> QED
        BY <3>1, <3>3, <4>1, <4>3, ProceedKeeps
    <3> QED
      BY <3>4, <3>5
  <2> QED
    BY <2>1, <2>2
<1>6. CASE AskKeyserver
  <2> DEFINE Known == here.pub \in Registered /\ Verify(here.pub, bin, sig)
  <2>1. CASE Known /\ Proceed("found") /\ UNCHANGED <<sig, bin>>
    <3>1. bin \in Builds /\ sig = [key |-> here.pub, build |-> bin] /\ here.pub \in Keys
      BY <2>1, KeysAssumption DEF Verify
    <3>2. sig \in Signatures /\ sig.key = here.pub /\ sig.build = bin
      BY <3>1 DEF Signatures
    <3>3. HalfRead' /\ FoundVerified'
      BY <2>1, <3>1, <3>2 DEF Proceed, HalfRead, FoundVerified
    <3> QED
      BY <1>6, <2>1, <3>3, ProceedKeeps DEF AskKeyserver, TypeOK
  <2>2. ASSUME Skip, outages \subseteq outages', outages' \subseteq Places,
               Known => q \in outages'
        PROVE  FindInv'
    <3>1. UNCHANGED <<place, keys>> /\ pc = "pub"
      BY <1>6, <2>2 DEF Skip, environment, AskKeyserver
    <3>2. CASE q \in changed
      BY <1>0, <2>2, <3>1, <3>2, SkipKeeps
    <3>3. CASE q \notin changed
      <4>1. sig = place[q].sig /\ bin = place[q].bin /\ ~Trusted(keys, bin, sig)
        BY <1>0, <1>00, <3>1, <3>3 DEF HalfRead
      <4>2. ~(/\ place[q].pub \in Registered
              /\ Verify(place[q].pub, place[q].bin, place[q].sig)
              /\ q \notin outages')
        BY <1>00, <2>2, <4>1
      <4>3. ~Acceptable(q)'
        BY <3>1, <4>1, <4>2 DEF Acceptable, Trusted, Verify
      <4> QED
        BY <1>0, <2>2, <3>1, <4>3, SkipKeeps
    <3> QED
      BY <3>2, <3>3
  <2>3. CASE ~Known /\ Skip /\ UNCHANGED outages
    BY <2>2, <2>3 DEF TypeOK
  <2>4. CASE Known /\ Skip /\ outages' = outages \cup {Order[at]}
    BY <1>0, <2>2, <2>4 DEF TypeOK
  <2> QED
    BY <1>6, <2>1, <2>3, <2>4 DEF AskKeyserver
<1> QED
  BY <1>1, <1>2, <1>3, <1>4, <1>5, <1>6 DEF Search

(* A place that changes is excused; the others are as they were. *)
LEMMA ChangeKeeps ==
    ASSUME FindInv, NEW p \in Places, NEW c \in Candidates, Change(p, c),
           signing' \in [Places -> Builds \cup {Torn, None}]
    PROVE  FindInv'
<1> USE DEF FindInv
<1>1. UNCHANGED <<pc, at, keys, sig, bin, outages>>
  BY DEF Change, search
<1>2. changed' = changed \cup {p} /\ \A q \in Places \ {p} : place'[q] = place[q]
  BY DEF Change, TypeOK
<1>3. TypeOK'
  <2>1. place' \in [Places -> Candidates] /\ changed' \subseteq Places
    BY DEF Change, TypeOK
  <2>2. changes' \in 0 .. MaxChanges
    BY ChangesAssumption DEF Change, TypeOK
  <2> QED
    BY <1>1, <2>1, <2>2 DEF TypeOK
<1>4. Order[at] \in Places /\ \A i \in Passed : Order[i] \in Places
  BY OrderRange DEF TypeOK, Passed
<1>5. NoneHidden'
  <2>1. Passed' = Passed
    BY <1>1 DEF Passed
  <2>2. ASSUME NEW q \in Places, q \in changed \/ ~Acceptable(q)
        PROVE  q \in changed' \/ ~Acceptable(q)'
    BY <1>1, <1>2, <2>2 DEF Acceptable, Trusted, Verify
  <2> QED
    BY <1>1, <1>4, <2>1, <2>2 DEF NoneHidden
<1>6. HalfRead'
  BY <1>1, <1>2, <1>4 DEF HalfRead, here, Trusted, Verify
<1> QED
  BY <1>1, <1>3, <1>5, <1>6 DEF Started, FoundVerified

LEMMA FindStep == FindInv /\ [Next]_vars => FindInv'
<1> SUFFICES ASSUME FindInv, [Next]_vars PROVE FindInv'
  OBVIOUS
<1> USE DEF FindInv
<1>1. CASE UNCHANGED vars
  BY <1>1 DEF vars, search, TypeOK, Started, HalfRead, NoneHidden, FoundVerified, Passed,
              Acceptable, Trusted, Verify, here
<1>2. CASE Search
  BY <1>2, SearchKeeps
<1>3. ASSUME NEW p \in Places, Build(p)
      PROVE  FindInv'
  <2>1. PICK c \in Candidates : Change(p, c)
    BY <1>3 DEF Build, TypeOK, Candidates, Standings
  <2> QED
    BY <1>3, <2>1, ChangeKeeps DEF Build, TypeOK
<1>4. ASSUME NEW p \in Places, ReadToSign(p)
      PROVE  FindInv'
  <2>1. UNCHANGED <<place, changes, changed, pc, at, keys, sig, bin, outages>>
    BY <1>4 DEF ReadToSign, search
  <2>2. signing' \in [Places -> Builds \cup {Torn, None}]
    BY <1>4 DEF ReadToSign, TypeOK, Candidates
  <2> QED
    BY <2>1, <2>2 DEF TypeOK, Started, HalfRead, NoneHidden, FoundVerified, Passed,
                      Acceptable, Trusted, Verify, here
<1>5. ASSUME NEW p \in Places, Sign(p)
      PROVE  FindInv'
  <2>1. signing' \in [Places -> Builds \cup {Torn, None}]
    BY <1>5 DEF Sign, TypeOK
  <2>2. signing[p] \in Builds \cup {Torn} /\ place[p] \in Candidates
    BY <1>5 DEF Sign, TypeOK
  <2>3. [key |-> SigningKey, build |-> signing[p]] \in Signatures
    BY <2>2, KeysAssumption DEF Signatures
  <2>4. PICK c \in Candidates : Change(p, c)
    <3>1. [place[p] EXCEPT !.sig = Torn] \in Candidates
      BY <2>2 DEF Candidates
    <3>2. [place[p] EXCEPT !.sig = [key |-> SigningKey, build |-> signing[p]]] \in Candidates
      BY <2>2, <2>3 DEF Candidates
    <3> QED
      BY <1>5, <3>1, <3>2 DEF Sign
  <2> QED
    BY <2>1, <2>4, ChangeKeeps
<1>6. ASSUME NEW p \in Places, Remove(p)
      PROVE  FindInv'
  <2>1. PICK c \in Candidates : Change(p, c)
    BY <1>6 DEF Remove, TypeOK, Candidates, Standings
  <2> QED
    BY <1>6, <2>1, ChangeKeeps DEF Remove, TypeOK
<1> QED
  BY <1>1, <1>2, <1>3, <1>4, <1>5, <1>6 DEF Next

LEMMA FindInitially == Init => FindInv
  BY OrderRange, InitiallyAssumption, ChangesAssumption
     DEF Init, FindInv, TypeOK, Started, HalfRead, NoneHidden, FoundVerified

LEMMA FindAlways == Spec => []FindInv
  BY FindInitially, FindStep, PTL DEF Spec

(***************************************************************************)
(* Type correctness: the search stays within the places it has, and reads  *)
(* what a plugin can be at any moment of its installation.                 *)
(***************************************************************************)
THEOREM TypeCorrect == Spec => []TypeOK
<1>1. FindInv => TypeOK
  BY DEF FindInv
<1> QED
  BY <1>1, FindAlways, PTL

(***************************************************************************)
(* For any order of any places, and whatever is rebuilt, signed or removed *)
(* meanwhile, no good candidate that is left alone is passed over.         *)
(***************************************************************************)
THEOREM NoneEverHidden == Spec => []NoneHidden
<1>1. FindInv => NoneHidden
  BY DEF FindInv
<1> QED
  BY <1>1, FindAlways, PTL

(***************************************************************************)
(* What the search finds is one build with a signature of that very build, *)
(* by a trusted or a registered key.                                       *)
(***************************************************************************)
THEOREM FoundAlwaysVerified == Spec => []FoundVerified
<1>1. FindInv => FoundVerified
  BY DEF FindInv
<1> QED
  BY <1>1, FindAlways, PTL

=============================================================================
