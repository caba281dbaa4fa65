---------------------------- MODULE MCSecureBackup ----------------------------
(* Small instances of SecureBackup: constant values and symmetry. *)
EXTENDS SecureBackup, TLC

CONSTANTS p1, p2, c1, c2, c3, v1, v2, docsA, docsOld, docs, old, root, daily

\* Two files; the argument `docs' names the directory of the first, `old' the
\* directory of the second.
MCUnder == (docs :> {docsA}) @@ (old :> {docsOld})

\* The directory `docs' is above both, `old' above the second; or, as Prefixed
\* only, the string "docs" is also a prefix of "docs-old/...".
MCSiblings == (docs :> {docsA, docsOld}) @@ (old :> {docsOld})

\* One argument above one file, or above both.
MCSingle == docs :> {docsA}
MCOne == docs :> {docsA, docsOld}

MCSize == [v \in Versions |-> IF v = v1 THEN 1 ELSE 2]
MCTime == [v \in Versions |-> 1]

\* Identifiers and processes are interchangeable; so are the files where every
\* argument is above both.
Symmetry == Permutations(ChunkIds) \cup Permutations(Procs)
SymmetryOne == Symmetry \cup Permutations(Paths)

=============================================================================
