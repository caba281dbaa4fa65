---------------------------- MODULE MCDriveStore ----------------------------
(* A small instance of DriveStore: two objects below one new folder, the    *)
(* second in a folder of the same name inside it.                           *)
EXTENDS DriveStore, TLC

CONSTANTS k1, k2, i1, i2, i3, i4, v1, v2, base

MCPaths == {<<"b", "m">>, <<"b", "b", "c">>}

\* The first is rewritten, like the manifest; the second, like a chunk, always
\* has the same contents.
MCContents == (<<"b", "m">> :> {v1, v2}) @@ (<<"b", "b", "c">> :> {v1})

=============================================================================
