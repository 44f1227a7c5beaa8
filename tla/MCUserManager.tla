--------------------------- MODULE MCUserManager ---------------------------
(***************************************************************************)
(* Instances of UserManager for TLC: two Linux users, of which one is      *)
(* derived from two identities.                                            *)
(***************************************************************************)
EXTENDS UserManager, TLC

CONSTANTS c1, c2, c3, alice, alice_, bob, ua, ub, none, admins, rootRule

Conn2 == {c1, c2}
Conn3 == {c1, c2, c3}

\* alice and alice_ collide on ua.
ThreeIds == {alice, alice_, bob}
TwoIds == {alice, bob}
DeriveThree == (alice :> ua) @@ (alice_ :> ua) @@ (bob :> ub)
DeriveTwo == (alice :> ua) @@ (bob :> ub)
Colliding == {alice, alice_}
DeriveColliding == (alice :> ua) @@ (alice_ :> ua)
JustAlice == {alice}
DeriveAlice == alice :> ua

GroupLists == {none, admins}
SudoRules == {none, rootRule}
Plain == [groups |-> none, rule |-> none]
Admin == [groups |-> admins, rule |-> rootRule]
OnePerms == {Admin}
TwoPerms == {Plain, Admin}

ConnSymmetry == Permutations(Conn)
=============================================================================
