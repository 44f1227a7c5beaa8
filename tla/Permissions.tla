----------------------------- MODULE Permissions -----------------------------
(***************************************************************************)
(* The permissions an identity gets from a ziti-ssh-host.v1 config:        *)
(* loadPermissionsConfig's checks, then PermissionsConfig.Resolve with its *)
(* loop over a Go map, whose order is a nondeterministic choice.           *)
(*                                                                         *)
(* An entry of the config is named by its key.  path.Match is external:    *)
(* "*" matches any characters and "?" one, "/" apart; "[" stands for a     *)
(* malformed character class.                                              *)
(***************************************************************************)
EXTENDS Usernames, FiniteSets

CONSTANTS
  Inputs,   \* pairs of an identity name and the set of keys of a config
  Fallback  \* the permissions of the environment variables, not a key

\* A caller without a name has no permissions to resolve (proxyConn skips its hooks).
ASSUME InputsAssumption ==
  /\ Inputs \subseteq (Seq(Character) \ {<<>>}) \X SUBSET Seq(Character)
  /\ \A input \in Inputs : Fallback \notin {input[1]} \union input[2]

VARIABLES
  identity,  \* who connects
  keys,      \* keys of the config attached to the service
  pc,        \* "load", "exact", "glob" or "done"
  todo,      \* keys the loop has yet to visit
  best,      \* the best pattern so far; <<>> is none
  result     \* the entry Resolve returns: a key, or Fallback

resolveVars == <<identity, keys, pc, todo, best, result>>

Wild == {"*", "?"}
IsGlob(key) == \E i \in DOMAIN key : key[i] \in Wild

\* patternSpecificity
PrefixLen(key) == Cardinality({i \in DOMAIN key : \A j \in 1..i : key[j] \notin Wild})
TotalLiterals(key) == Cardinality({i \in DOMAIN key : key[i] \notin Wild})

\* The comparison of the loop, strict: the first of two equals stays.
BetterPrefixOnly(p, q) ==  \* mutant: the second field of the score left out
  q = <<>> \/ PrefixLen(p) > PrefixLen(q)
Better(p, q) ==
  \/ q = <<>>
  \/ PrefixLen(p) > PrefixLen(q)
  \/ PrefixLen(p) = PrefixLen(q) /\ TotalLiterals(p) > TotalLiterals(q)

\* path.Match: m[i, j] says that the pattern from i on matches the name from j on.
Malformed(key) == \E i \in DOMAIN key : key[i] = "["
Matches(key, name) ==
  LET m[i \in 1..Len(key) + 1, j \in 1..Len(name) + 1] ==
        IF i > Len(key) THEN j > Len(name)
        ELSE \/ /\ key[i] = "*"
                /\ \/ m[i + 1, j]
                   \/ j <= Len(name) /\ name[j] # "/" /\ m[i, j + 1]
             \/ /\ key[i] # "*"
                /\ j <= Len(name)
                /\ key[i] = name[j] \/ (key[i] = "?" /\ name[j] # "/")
                /\ m[i + 1, j + 1]
  IN  ~Malformed(key) /\ m[1, 1]

\* loadPermissionsConfig: no two explicit keys may derive one user name.
Collides(config) ==
  \E k1, k2 \in config : /\ k1 # k2
                         /\ ~IsGlob(k1) /\ ~IsGlob(k2)
                         /\ DeriveUsername(k1) = DeriveUsername(k2)
-----------------------------------------------------------------------------
\* A config that does not load leaves a nil config, so the fallbacks.
Load ==
  /\ pc = "load"
  /\ \/ Collides(keys) /\ pc' = "done" /\ result' = Fallback
     \/ ~Collides(keys) /\ pc' = "exact" /\ UNCHANGED result
  /\ UNCHANGED <<identity, keys, todo, best>>

ExactMatch ==
  /\ pc = "exact"
  /\ \/ identity \in keys /\ pc' = "done" /\ result' = identity /\ UNCHANGED todo
     \/ identity \notin keys /\ pc' = "glob" /\ todo' = keys /\ UNCHANGED result
  /\ UNCHANGED <<identity, keys, best>>

\* One iteration of the loop over the map.
Visit(key) ==
  /\ pc = "glob"
  /\ key \in todo
  /\ todo' = todo \ {key}
  /\ best' = IF IsGlob(key) /\ Matches(key, identity) /\ Better(key, best) THEN key ELSE best
  /\ UNCHANGED <<identity, keys, pc, result>>

Finish ==
  /\ pc = "glob"
  /\ todo = {}
  /\ pc' = "done"
  /\ result' = IF best # <<>> THEN best ELSE Fallback
  /\ UNCHANGED <<identity, keys, todo, best>>

ResolveInit ==
  /\ \E input \in Inputs : identity = input[1] /\ keys = input[2]
  /\ pc = "load"
  /\ todo = {}
  /\ best = <<>>
  /\ result = Fallback

ResolveNext == Load \/ ExactMatch \/ Finish \/ \E key \in keys : Visit(key)

ResolveSpec == ResolveInit /\ [][ResolveNext]_resolveVars
-----------------------------------------------------------------------------
(* Properties.                                                             *)

Candidates == {k \in keys : IsGlob(k) /\ Matches(k, identity)}
Score(k) == <<PrefixLen(k), TotalLiterals(k)>>
Outranks(s, t) == s[1] > t[1] \/ (s[1] = t[1] /\ s[2] > t[2])

\* The documented precedence, whatever order the loop takes: the exact key, else
\* a matching pattern none is more specific than (a longer literal prefix, then
\* more literals), else the fallbacks, which are never mixed with an entry.
DocumentedPrecedence ==
  pc = "done" /\ ~Collides(keys) =>
    \/ identity \in keys /\ result = identity
    \/ /\ identity \notin keys
       /\ result \in Candidates
       /\ \A k \in Candidates : ~Outranks(Score(k), Score(result))
    \/ identity \notin keys /\ Candidates = {} /\ result = Fallback

\* A derived user name is not empty, fits, has only allowed characters and no
\* leading digit, and derives itself: the four steps do not undo each other.
UsernameShape ==
  LET u == DeriveUsername(identity)
  IN  /\ u # <<>> /\ Len(u) <= MaxLen
      /\ \A i \in DOMAIN u : u[i] \in Kept
      /\ u[1] \notin Digit
      /\ DeriveUsername(u) = u
-----------------------------------------------------------------------------
(* What a comment or a document says, and the code does not do.            *)

\* host.go:64-67: the winner among the patterns is determined by their score,
\* so two runs over one config give one identity the same entry.
ScoreDeterminesWinner ==
  pc = "done" /\ result \in Candidates /\ identity \notin keys =>
    \A k \in Candidates : Score(k) = Score(result) => k = result

\* ca.go:93: DeriveUsername gives "a valid Linux username", which starts with
\* a letter or an underscore.
ValidLinuxUsername == DeriveUsername(identity)[1] \in Lower \union {"_"}
=============================================================================
