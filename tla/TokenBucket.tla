----------------------------- MODULE TokenBucket -----------------------------
(***************************************************************************)
(* What the per-identity rate limiter promises: every identity has a token *)
(* bucket of its own, full at first, that is never forgotten.  A request   *)
(* is allowed exactly if the bucket holds a token.                         *)
(*                                                                         *)
(* Levels are counted in ticks of the clock: a token takes Period of them. *)
(***************************************************************************)
EXTENDS Naturals

CONSTANTS Id, Period, Burst, NoAnswer

VARIABLES level, answer

bucketVars == <<level, answer>>

Full == Burst * Period
Up(n) == IF n < Full THEN n + 1 ELSE n

Request(id) ==
  LET yes == level[id] >= Period
  IN  /\ answer' = [id |-> id, yes |-> yes]
      /\ level' = IF yes THEN [level EXCEPT ![id] = @ - Period] ELSE level

\* Time passes, and nothing has just been answered.
Tick ==
  /\ level' = [id \in Id |-> Up(level[id])]
  /\ answer' = NoAnswer

Init == level = [id \in Id |-> Full] /\ answer = NoAnswer

Next == Tick \/ \E id \in Id : Request(id)

Spec == Init /\ [][Next]_bucketVars
=============================================================================
