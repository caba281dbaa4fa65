------------------------------ MODULE FindPlugin ------------------------------
(***************************************************************************)
(* findPlugin (main.go): the search for a plugin that is rightly placed    *)
(* and signed by a known key, while plugins are being rebuilt, signed and  *)
(* removed (the Makefile and scripts/security-tool).  The program reads    *)
(* the directories, the signature and the binary one after the other, so   *)
(* an upgrade may come between any two of them.                            *)
(*                                                                         *)
(* A binary is a build; Torn is a file that is being written.  A signature *)
(* is the key and the build it was made with.  A definition with an        *)
(* underscore in its name is a wrong version of the one before the         *)
(* underscore.                                                             *)
(***************************************************************************)
EXTENDS Naturals, Sequences

CONSTANTS
    Places,      \* directories that are searched
    Order,       \* the order they are searched in; one may come twice
    Builds,      \* what a plugin's binary can be
    Keys,        \* Ed25519 public keys
    Keyrings,    \* the sources of trusted keys: directories, ssh, gpg, ...
    Holds,       \* [Keyrings -> SUBSET Keys]
    Registered,  \* the keys that the keyserver has
    SigningKey,  \* the key that security-tool signs with
    Outages,     \* keyrings and the keyserver may fail to answer
    Initially,   \* what the places may hold at first
    MaxChanges,  \* bound: changes of the places
    None, Torn

ASSUME OrderAssumption == Order \in Seq(Places) /\ Order # <<>>
ASSUME KeysAssumption ==
    /\ Holds \in [Keyrings -> SUBSET Keys]
    /\ Registered \subseteq Keys
    /\ SigningKey \in Keys
ASSUME OutagesAssumption == Outages \in BOOLEAN
ASSUME ChangesAssumption == MaxChanges \in Nat
ASSUME DistinctAssumption == Torn \notin Builds /\ None \notin Builds \cup Keys

Last == Len(Order)

(* In a directory's path: a link, or one that others may write.             *)
Detours == {"linkedPath", "loosePath"}

(* Of the file itself; "sound" is a private file of the user or of root.    *)
Standings == {"sound", "absent", "directory", "link", "loose", "foreign", "unreadable"} \cup Detours

Signatures == [key : Keys, build : Builds \cup {Torn}]
Candidates == [standing : Standings, bin : Builds \cup {Torn},
               sig : Signatures \cup {None, Torn}, pub : Keys \cup {None}]

ASSUME InitiallyAssumption == Initially \subseteq [Places -> Candidates]
ASSUME SignaturesAssumption == None \notin Signatures /\ Torn \notin Signatures

VARIABLES
    place,   \* what is at each place
    signing, \* of each place: the binary that security-tool has read
    pc, at,  \* of the search: where it is, and which place of Order it tries
    keys,    \* trustedKeys
    sig,     \* the signature it has read
    bin,     \* the binary it has read
    changes, \* number of changes, to bound them
    changed, \* history: the places changed since the search began
    outages  \* history: the places the keyserver did not answer about

search == <<pc, at, keys, sig, bin, outages>>
vars == <<place, signing, search, changes, changed>>

TypeOK ==
    /\ place \in [Places -> Candidates]
    /\ signing \in [Places -> Builds \cup {Torn, None}]
    /\ pc \in {"keys", "path", "stat", "sig", "bin", "pub", "found", "missing"}
    /\ at \in 1 .. Last
    /\ keys \subseteq Keys
    /\ sig \in Signatures \cup {None, Torn}
    /\ bin \in Builds \cup {None, Torn}
    /\ changes \in 0 .. MaxChanges
    /\ changed \subseteq Places
    /\ outages \subseteq Places

Init ==
    /\ place \in Initially
    /\ signing = [p \in Places |-> None]
    /\ pc = "keys"
    /\ at = 1
    /\ keys = {}
    /\ sig = None
    /\ bin = None
    /\ changes = 0
    /\ changed = {}
    /\ outages = {}

-----------------------------------------------------------------------------
(* findPlugin *)

here == place[Order[at]]
environment == <<place, signing, changes>>

(* loadTrustedKeys: a keyring that does not answer has no keys. *)
LoadTrustedKeys ==
    /\ pc = "keys"
    /\ \E answering \in SUBSET Keyrings :
          /\ ~Outages => answering = Keyrings
          /\ keys' = UNION {Holds[r] : r \in answering}
    /\ pc' = "path"
    /\ UNCHANGED <<environment, changed, at, sig, bin, outages>>

(* The search ends at the first candidate that is refused. *)
Skip_GiveUp ==
    /\ pc' = "missing"
    /\ UNCHANGED <<environment, changed, at, keys, sig, bin>>

(* The place after the last one is tried. *)
Skip_PastEnd ==
    /\ pc' = "path" /\ at' = at + 1
    /\ UNCHANGED <<environment, changed, keys, sig, bin>>

(* A file that is being written is waited for. *)
Skip_Waits ==
    /\ pc' = (IF here.bin # Torn /\ at = Last THEN "missing" ELSE "path")
    /\ at' = (IF here.bin # Torn /\ at < Last THEN at + 1 ELSE at)
    /\ UNCHANGED <<environment, changed, keys, sig, bin>>

(* continue, and the error after the loop. *)
Skip ==
    /\ IF at < Last THEN pc' = "path" /\ at' = at + 1
       ELSE pc' = "missing" /\ UNCHANGED at
    /\ UNCHANGED <<environment, changed, keys, sig, bin>>

Proceed(l) == pc' = l /\ UNCHANGED <<environment, changed, at, keys, outages>>

(* The components of the path; the file itself is the last of them. *)
WalkPath ==
    /\ pc = "path"
    /\ IF here.standing \in Detours \cup {"link"} THEN Skip /\ UNCHANGED outages
       ELSE Proceed("stat") /\ UNCHANGED <<sig, bin>>

(* Lstat: there is a file, of the user or of root, that only they can write. *)
Stat ==
    /\ pc = "stat"
    /\ IF here.standing \in {"absent", "directory", "link", "loose", "foreign"}
       THEN Skip /\ UNCHANGED outages
       ELSE Proceed("sig") /\ UNCHANGED <<sig, bin>>

ReadSignature ==
    /\ pc = "sig"
    /\ IF here.sig = None THEN Skip /\ UNCHANGED outages
       ELSE Proceed("bin") /\ sig' = here.sig /\ UNCHANGED bin

(* ed25519.Verify: an unfinished file differs from any other. *)
Verify(key, b, s) == b \in Builds /\ s = [key |-> key, build |-> b]

(* The signature must be by the one key, whichever build it was made of. *)
Trusted_ForAnyBuild(ks, b, s) == \E k \in ks, x \in Builds : Verify(k, x, s)

Trusted(ks, b, s) == \E k \in ks : Verify(k, b, s)

ReadBinary ==
    /\ pc = "bin"
    /\ IF here.standing \in {"absent", "directory", "unreadable"} THEN Skip /\ UNCHANGED outages
       ELSE /\ Proceed(IF Trusted(keys, here.bin, sig) THEN "found" ELSE "pub")
            /\ bin' = here.bin
            /\ UNCHANGED sig

(* The companion .pub file, and verifyWithKeyserver: a key that the server  *)
(* has not, or cannot be asked about, is not trusted.                       *)
AskKeyserver ==
    /\ pc = "pub"
    /\ \/ /\ here.pub # None /\ Verify(here.pub, bin, sig)
          /\ here.pub \in Registered
          /\ Proceed("found")
          /\ UNCHANGED <<sig, bin>>
       \/ /\ ~(here.pub \in Registered /\ Verify(here.pub, bin, sig))
          /\ Skip
          /\ UNCHANGED outages
       \/ /\ here.pub \in Registered /\ Verify(here.pub, bin, sig)
          /\ Outages
          /\ Skip
          /\ outages' = outages \cup {Order[at]}

Search ==
    LoadTrustedKeys \/ WalkPath \/ Stat \/ ReadSignature \/ ReadBinary \/ AskKeyserver

-----------------------------------------------------------------------------
(* The plugins are built, signed and removed, as long as the search lasts. *)

Searching == pc \notin {"found", "missing"}

Change(p, c) ==
    /\ Searching
    /\ changes < MaxChanges
    /\ place' = [place EXCEPT ![p] = c]
    /\ changes' = changes + 1
    /\ changed' = changed \cup {p}
    /\ UNCHANGED search

(* go build, or cp: the file is truncated, then written. *)
Build(p) ==
    /\ place[p].standing \in {"sound", "absent"}
    /\ \/ Change(p, [place[p] EXCEPT !.standing = "sound", !.bin = Torn])
       \/ /\ place[p].standing = "sound" /\ place[p].bin = Torn
          /\ \E b \in Builds : Change(p, [place[p] EXCEPT !.bin = b])
    /\ UNCHANGED signing

(* security-tool -sign: the binary is read, ... *)
ReadToSign(p) ==
    /\ Searching
    /\ place[p].standing = "sound"
    /\ signing[p] = None
    /\ signing' = [signing EXCEPT ![p] = place[p].bin]
    /\ UNCHANGED <<place, changes, changed, search>>

(* ... the signature is truncated, and written. *)
Sign(p) ==
    /\ signing[p] # None
    /\ \/ place[p].sig # Torn /\ Change(p, [place[p] EXCEPT !.sig = Torn]) /\ UNCHANGED signing
       \/ /\ place[p].sig = Torn
          /\ Change(p, [place[p] EXCEPT !.sig = [key |-> SigningKey, build |-> signing[p]]])
          /\ signing' = [signing EXCEPT ![p] = None]

(* make uninstall: the files go one by one. *)
Remove(p) ==
    /\ place[p].standing = "sound"
    /\ \/ Change(p, [place[p] EXCEPT !.standing = "absent"])
       \/ place[p].sig # None /\ Change(p, [place[p] EXCEPT !.sig = None])
    /\ UNCHANGED signing

Next ==
    \/ Search
    \/ \E p \in Places : Build(p) \/ ReadToSign(p) \/ Sign(p) \/ Remove(p)

Spec == Init /\ [][Next]_vars

(* Files are read, and the keyserver is given five seconds.  The keyrings   *)
(* are given no deadline (an ssh agent, gpg, secret-tool): that they answer *)
(* is an assumption.                                                        *)
FairSpec == Spec /\ WF_vars(Search)

-----------------------------------------------------------------------------
(* A plugin that the search should accept, if it is left alone.             *)
Acceptable(p) ==
    LET c == place[p] IN
    /\ c.standing = "sound"
    /\ \/ Trusted(keys, c.bin, c.sig)
       \/ c.pub \in Registered /\ Verify(c.pub, c.bin, c.sig) /\ p \notin outages

(***************************************************************************)
(* A candidate that is misplaced, unsigned, half installed or changing, or *)
(* whose key cannot be confirmed, does not hide a good one: the first good *)
(* candidate that is left alone is the one found, unless another became    *)
(* good before the search came to it.                                      *)
(***************************************************************************)
Passed == IF pc = "missing" THEN 1 .. Last ELSE 1 .. at - 1

NoneHidden ==
    pc # "keys" =>
        \A i \in Passed : Order[i] \in changed \/ ~Acceptable(Order[i])

(***************************************************************************)
(* What is found was verified as one: the signature that was read belongs  *)
(* to the very build that was read, never to the one before or after an    *)
(* upgrade, and it was made with a key that is known or registered.        *)
(***************************************************************************)
FoundVerified ==
    pc = "found" => /\ bin \in Builds
                    /\ sig \in Signatures
                    /\ sig.build = bin
                    /\ sig.key \in keys \cup Registered

(* The search ends, however the plugins change while it goes on. *)
SearchEnds == pc = "keys" ~> ~Searching

=============================================================================
