------------------------------ MODULE Usernames ------------------------------
(***************************************************************************)
(* ca.DeriveUsername: Ziti identity names to Linux user names.             *)
(*                                                                         *)
(* A name is a sequence of characters, each standing for its class: "a"    *)
(* and "b" are lower case letters and "A" and "B" the same in upper case,  *)
(* "1" is a digit, "_" and "-" are themselves, and the others stand for    *)
(* all that user names cannot contain.                                     *)
(***************************************************************************)
EXTENDS Naturals, Sequences

CONSTANT MaxLen  \* the 32 characters a user name is cut to

ASSUME MaxLenAssumption == MaxLen \in Nat \ {0}

Lower == {"a", "b"}
Digit == {"1"}
Kept == Lower \union Digit \union {"_", "-"}
Character == Kept \union {"A", "B", "@", ".", "/", "*", "?", "["}

ToLower(ch) == CASE ch = "A" -> "a" [] ch = "B" -> "b" [] OTHER -> ch

\* Steps 1 and 2: lower case, and "_" for what is not allowed.
Sanitized(name) ==
  [i \in DOMAIN name |-> LET ch == ToLower(name[i])
                         IN  IF ch \in Kept THEN ch ELSE "_"]

\* Step 3: a leading digit gets the prefix "z", here the letter "b".
Prefixed(name) ==
  IF name # <<>> /\ name[1] \in Digit THEN <<"b">> \o name ELSE name

\* Step 4.
Truncated(name) == IF Len(name) > MaxLen THEN SubSeq(name, 1, MaxLen) ELSE name

\* mutant: cut first, then prefix
DeriveUsernameCutFirst(identity) == Prefixed(Truncated(Sanitized(identity)))
DeriveUsername(identity) == Truncated(Prefixed(Sanitized(identity)))
=============================================================================
