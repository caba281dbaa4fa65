--------------------------- MODULE MCBlobStores ---------------------------
(* A small instance of BlobStores: one object on each kind of store, with   *)
(* contents of one and of two blocks.                                       *)
EXTENDS BlobStores, TLC

CONSTANTS k1, k2, x1, x2, x3, v1, v2, i1, i2, i3

MCKind == (x1 :> "local") @@ (x2 :> "aws-s3") @@ (x3 :> "backblaze")
MCBlocks == (v1 :> 1) @@ (v2 :> 2)

\* Handlers and identifiers are interchangeable, contents have a length.
Symmetry == Permutations(Calls) \cup Permutations(Ids)

=============================================================================
