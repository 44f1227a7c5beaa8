---------------------------- MODULE MCPermissions ----------------------------
(***************************************************************************)
(* Instances of Permissions for TLC: all names and keys over a small       *)
(* alphabet up to a length, and configs of up to three keys.               *)
(***************************************************************************)
EXTENDS Permissions

Words(alphabet, n) == UNION {[1..k -> alphabet] : k \in 1..n}
UpTo3(S) == {{k1, k2, k3} : k1, k2, k3 \in S} \union {{}}

ShortNames == Words({"a", "_", "/", "*"}, 2)
Globs == UpTo3(Words({"a", "_", "/", "*", "?"}, 2) \union {<<"[", "*">>})

\* Every config with every short name, and longer names without a config.
LongNames == Words({"a", "A", "1", "_", "-", "@"}, 4)
AllInputs == (ShortNames \X Globs) \union (LongNames \X {{}})
=============================================================================
