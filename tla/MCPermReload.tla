---------------------------- MODULE MCPermReload ----------------------------
(* Instances of PermReload for TLC: up to two services, connections and configs. *)
EXTENDS PermReload, TLC

CONSTANTS c1, c2

Conn1 == {c1}
Conn2 == {c1, c2}
ReloadSymmetry == Permutations(Conn) \union Permutations(Service) \union Permutations(Config)
=============================================================================
