---------------------------- MODULE MCHostDaemon ----------------------------
(***************************************************************************)
(* Instances of HostDaemon for TLC: two services, up to three connections, *)
(* two identities that share a user name, and callers without a name.      *)
(***************************************************************************)
EXTENDS HostDaemon, TLC

CONSTANTS c1, c2, c3, alice, alice_, ua

Conn1 == {c1}
Conn2 == {c1, c2}
Conn3 == {c1, c2, c3}
Ids == {alice, alice_}
DeriveIds == (alice :> ua) @@ (alice_ :> ua)
JustAlice == {alice}
DeriveAlice == alice :> ua

DaemonSymmetry == Permutations(Conn) \union Permutations(Service)
=============================================================================
