----------------------------- MODULE MCFindPlugin -----------------------------
(* A small instance of FindPlugin: an override, a user directory that is    *)
(* searched twice (as it is on Linux), and a system directory.              *)
EXTENDS FindPlugin, TLC

CONSTANTS override, user, system, b1, b2, mine, other, agent, files

MCOrder == <<override, user, user, system>>

\* The other key is known to the keyserver only; mine is in two keyrings.
MCHolds == (agent :> {mine}) @@ (files :> {})

Put(standing, b, s, pub) == [standing |-> standing, bin |-> b, sig |-> s, pub |-> pub]
By(k, b) == [key |-> k, build |-> b]

Good == Put("sound", b1, By(mine, b1), None)
Known == Put("sound", b1, By(other, b1), other)
Unsigned == Put("sound", b1, None, None)
Stale == Put("sound", b2, By(mine, b1), mine)
Begun == Put("sound", Torn, By(mine, b1), None)
Nothing == Put("absent", Torn, None, None)
Misplaced(standing) == [Good EXCEPT !.standing = standing]

At(x, y, z) == (override :> x) @@ (user :> y) @@ (system :> z)

\* Anything before two good ones; or few good ones.
MCInitially ==
    {At(Misplaced(s), Good, Good) : s \in Standings}
    \cup {At(x, y, z) : x \in {Nothing, Unsigned, Known}, y \in {Begun, Stale, Nothing},
                       z \in {Known, Nothing}}

=============================================================================
