---------------------------- MODULE MCPortForward ----------------------------
(* Instances of PortForward for TLC. *)
EXTENDS PortForward, TLC

CONSTANTS fL, fR, fD

Three == {fL, fR, fD}
KindOf == (fL :> "local") @@ (fR :> "remote") @@ (fD :> "dynamic")
=============================================================================
