----------------------------- MODULE AtomicFile -----------------------------
(***************************************************************************)
(* What the atomic writes promise of a file: its readers see one whole     *)
(* document after the other, and after a power loss one of those that have *)
(* been there since the file was last on disk for certain.                 *)
(***************************************************************************)
CONSTANTS Doc, NoFile

VARIABLES
  value,   \* what a reader finds: a document, or NoFile
  recent   \* what a power loss may bring back

vars == <<value, recent>>

Put(d) ==
  /\ value' = d
  /\ recent' = recent \union {d}

Settle ==
  /\ recent' = {value}
  /\ UNCHANGED value

PowerLoss ==
  /\ value' \in recent
  /\ recent' = {value'}

Init ==
  /\ value \in Doc \union {NoFile}
  /\ recent = {value}

Next == Settle \/ PowerLoss \/ \E d \in Doc : Put(d)

Spec == Init /\ [][Next]_vars
=============================================================================
