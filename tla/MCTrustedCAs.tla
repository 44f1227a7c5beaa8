---------------------------- MODULE MCTrustedCAs ----------------------------
(* Instances of TrustedCAs for TLC: two controllers, each with its own CA.  *)
EXTENDS TrustedCAs, TLC

CONSTANTS ctrl1, ctrl2, key1, key2

TwoCtrls == {ctrl1, ctrl2}
KeyOfTwo == (ctrl1 :> key1) @@ (ctrl2 :> key2)
=============================================================================
