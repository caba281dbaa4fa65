---------------------------- MODULE MCRoundTrip ----------------------------
(* A small instance of RoundTrip: two files, a link and a named pipe.       *)
EXTENDS RoundTrip, Sequences, TLC

CONSTANTS c1, c2, c3, f1, f2, link, pipe, v1, v2, v3

\* v1 alone does not fill a chunk of limit 2; v2 does, and so does v3 after it
\* shrank to v2.
MCSize == (v1 :> 1) @@ (v2 :> 2) @@ (v3 :> 3)
MCTime == [v \in Versions |-> 1]

Symmetry == Permutations(ChunkIds)

S(w) == <<w>>
In(d, w) == <<d, "/", w>>

\* The second file is beside the directory of the first; or in no directory,
\* and the link has the name of that directory; or the names are absolute.
Beside == (f1 :> In("d", "a")) @@ (f2 :> <<"d", "-b">>) @@ (link :> In("d", "l")) @@ (pipe :> S("p"))
Twice == (f1 :> In("d", "a")) @@ (f2 :> S("a")) @@ (link :> S("d")) @@ (pipe :> S("p"))
Absolute == [x \in Paths |-> S("/") \o Beside[x]]

\* A link to a file in its own directory, to one above, and an absolute one.
MCLinkTo == (v1 :> S("a")) @@ (v2 :> <<"..", "/", "a">>) @@ (v3 :> <<"/", "o">>)

\* A directory and a file outside of the destination, that links may lead to.
O == <<"..", "/", "o">>
Q == <<"..", "/", "q">>
MCPlaces == {S("d"), S("a"), S("l"), <<"d", "-b">>, S("-b"), In("d", "a"), In("d", "l"),
             O, Q, O \o <<"/", "a">>, O \o <<"/", "l">>}

Entry(kind, v) == [is |-> kind, holds |-> v]

Holding(d) ==
    [q \in Places |->
        CASE q = O -> Entry("dir", None)
          [] q = Q -> Entry("file", v1)
          [] q \in DOMAIN d -> d[q]
          [] OTHER -> Entry("none", None)]

Clear == Holding(<<>>)
Older == Holding((S("d") :> Entry("dir", None)) @@ (In("d", "a") :> Entry("file", v3))
                     @@ (S("a") :> Entry("file", v3)))
Linked == Holding((S("d") :> Entry("link", O)) @@ (S("a") :> Entry("link", Q)))
InTheWay == Holding(S("d") :> Entry("file", v1))

All == {<<>>}
Case(n, args, s, b) == [names |-> n, args |-> args, strip |-> s, before |-> b]

MCRestores == {
    Case(Beside, All, <<>>, Clear), Case(Beside, {In("d", "a")}, <<>>, Older),
    Case(Beside, All, <<"d", "/">>, Older), Case(Beside, All, <<>>, Linked),
    Case(Beside, All, <<>>, InTheWay), Case(Twice, All, <<>>, Clear),
    Case(Twice, All, S("d"), Older), Case(Twice, All, S("d"), Linked),
    Case(Absolute, All, <<>>, Clear), Case(Absolute, All, <<"/", "d">>, Clear),
    Case(Absolute, {In("d", "a")}, <<>>, Clear)}

=============================================================================
