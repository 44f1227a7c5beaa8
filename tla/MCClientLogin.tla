--------------------------- MODULE MCClientLogin ---------------------------
(***************************************************************************)
(* An instance of ClientLogin for TLC: a command that logs in twice, and   *)
(* an enrollment to the file it uses.                                      *)
(***************************************************************************)
EXTENDS ClientLogin, TLC

CONSTANTS cmd, token, old, old_list, new_list, f1, f2

Documents == [id: {old, token}, apis: {old_list, new_list}]
TwoLogins == cmd :> <<f1, f2>>
=============================================================================
