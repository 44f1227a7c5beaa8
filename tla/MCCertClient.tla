---------------------------- MODULE MCCertClient ----------------------------
(***************************************************************************)
(* Instances of CertClient for TLC: two processes of one home directory,   *)
(* with one identity or with two.                                          *)
(***************************************************************************)
EXTENDS CertClient, TLC

CONSTANTS c1, c2, alice, bob, ua, ub

Clients == {c1, c2}
Both == {alice, bob}
DeriveBoth == (alice :> ua) @@ (bob :> ub)
TwoUsers == (c1 :> alice) @@ (c2 :> bob)
JustAlice == {alice}
DeriveAlice == alice :> ua
OneUser == (c1 :> alice) @@ (c2 :> alice)
=============================================================================
