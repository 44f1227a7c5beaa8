------------------------------ MODULE RateLimit ------------------------------
(***************************************************************************)
(* ratelimit.Map, which ziti-ssh-ca asks before it signs: one limiter per  *)
(* identity, made at its first request and evicted by a background sweep   *)
(* when it has been idle.                                                  *)
(*                                                                         *)
(* Time is counted in ticks.  The limiter of golang.org/x/time/rate is     *)
(* external: its tokens are held here as credit, in ticks, and kept up to  *)
(* date by the clock where the library computes them when asked.  The map  *)
(* is only used under its mutex, so each use of it is one action.          *)
(***************************************************************************)
EXTENDS Integers

CONSTANTS
  Id,         \* identities that may ask
  Period,     \* ticks per token: the inverse of rps
  Burst,      \* tokens of a full bucket
  IdleTTL,    \* ticks an entry may go unused
  None,       \* no entry
  NoAnswer,   \* nobody has asked in this tick
  MaxWindow   \* bound on the length of the window RateBound observes

ASSUME RateAssumption ==
  /\ Period \in Nat \ {0}
  /\ Burst \in Nat \ {0}
  /\ IdleTTL \in Nat \ {0}
  /\ None \notin [credit: Nat, idle: Nat]
  /\ MaxWindow \in Nat

VARIABLES
  entries,  \* identity -> credit and ticks since lastSeen, or None
  toSweep,  \* ticks until the sweep is due
  stopped,  \* is stopCh closed?
  answer,   \* the last request and what Allow returned
  \* an observer: a window of time and what was allowed within it, in ticks
  elapsed, spent

vars == <<entries, toSweep, stopped, answer, elapsed, spent>>

Full == Burst * Period
Capped(n, max) == IF n < max THEN n ELSE max
Present(id) == entries[id] # None

\* A new limiter starts with a full bucket.
Fresh == [credit |-> Full, idle |-> 0]
Entry(id) == IF Present(id) THEN entries[id] ELSE Fresh

\* Allow: makes an entry if there is none, and notes the time of the request
\* whether or not it is allowed.
AllowChecksOne(id) ==  \* mutant: a token may be taken before it is complete
  LET credit == Entry(id).credit
      yes == credit > 0
  IN  /\ entries' = [entries EXCEPT ![id] =
                       [credit |-> IF yes THEN (IF credit > Period THEN credit - Period ELSE 0)
                                          ELSE credit,
                        idle |-> 0]]
      /\ answer' = [id |-> id, yes |-> yes]
      /\ spent' = IF yes THEN [spent EXCEPT ![id] = @ + Period] ELSE spent
      /\ UNCHANGED <<toSweep, stopped, elapsed>>
AllowSeenOnce(id) ==  \* mutant: lastSeen only set when the entry is made
  LET credit == Entry(id).credit
      yes == credit >= Period
  IN  /\ entries' = [entries EXCEPT ![id] =
                       [credit |-> IF yes THEN credit - Period ELSE credit,
                        idle |-> Entry(id).idle]]
      /\ answer' = [id |-> id, yes |-> yes]
      /\ spent' = IF yes THEN [spent EXCEPT ![id] = @ + Period] ELSE spent
      /\ UNCHANGED <<toSweep, stopped, elapsed>>
AllowReserves(id) ==  \* mutant: Reserve for Allow, a token is lent when there is none
  /\ entries' = [entries EXCEPT ![id] = [credit |-> Entry(id).credit - Period, idle |-> 0]]
  /\ answer' = [id |-> id, yes |-> Entry(id).credit >= Period]
  /\ UNCHANGED <<toSweep, stopped, elapsed, spent>>
Allow(id) ==
  LET credit == Entry(id).credit
      yes == credit >= Period
  IN  /\ entries' = [entries EXCEPT ![id] =
                       [credit |-> IF yes THEN credit - Period ELSE credit, idle |-> 0]]
      /\ answer' = [id |-> id, yes |-> yes]
      /\ spent' = IF yes THEN [spent EXCEPT ![id] = @ + Period] ELSE spent
      /\ UNCHANGED <<toSweep, stopped, elapsed>>

\* The sweep, every half IdleTTL or later, with the cutoff of this tick.
SweepPeriod == IdleTTL \div 2

EvictBusiest ==  \* mutant: the comparison with the cutoff the wrong way round
  /\ ~stopped
  /\ toSweep = 0
  /\ toSweep' = SweepPeriod
  /\ entries' = [id \in Id |-> IF Present(id) /\ entries[id].idle < IdleTTL
                               THEN None ELSE entries[id]]
  /\ UNCHANGED <<stopped, answer, elapsed, spent>>
Evict ==
  /\ ~stopped
  /\ toSweep = 0
  /\ toSweep' = SweepPeriod
  /\ entries' = [id \in Id |-> IF Present(id) /\ entries[id].idle > IdleTTL
                               THEN None ELSE entries[id]]
  /\ UNCHANGED <<stopped, answer, elapsed, spent>>

\* The accept loop has ended: close(stopLimiter).
Stop ==
  /\ ~stopped
  /\ stopped' = TRUE
  /\ UNCHANGED <<entries, toSweep, answer, elapsed, spent>>

\* A tick of the clock.  The observer begins a new window when one is full.
Older(e) == [credit |-> Capped(e.credit + 1, Full), idle |-> Capped(e.idle + 1, IdleTTL + 1)]

Tick ==
  /\ entries' = [id \in Id |-> IF Present(id) THEN Older(entries[id]) ELSE None]
  /\ toSweep' = IF toSweep > 0 THEN toSweep - 1 ELSE 0
  /\ answer' = NoAnswer
  /\ IF elapsed < MaxWindow
     THEN elapsed' = elapsed + 1 /\ UNCHANGED spent
     ELSE elapsed' = 0 /\ spent' = [id \in Id |-> 0]
  /\ UNCHANGED stopped

\* The observer may begin a new window at any time.
NewWindow ==
  /\ elapsed' = 0
  /\ spent' = [id \in Id |-> 0]
  /\ UNCHANGED <<entries, toSweep, stopped, answer>>

Init ==
  /\ entries = [id \in Id |-> None]
  /\ toSweep = SweepPeriod
  /\ stopped = FALSE
  /\ answer = NoAnswer
  /\ elapsed = 0
  /\ spent = [id \in Id |-> 0]

Next == (\E id \in Id : Allow(id)) \/ Evict \/ Stop \/ Tick \/ NewWindow

Spec == Init /\ [][Next]_vars

\* Time goes on, and the sweeping goroutine with it.
FairSpec == Spec /\ WF_vars(Tick) /\ WF_vars(Evict)
-----------------------------------------------------------------------------
(* Properties.                                                             *)

\* Every variable has its type.
TypeOK ==
  /\ entries \in [Id -> [credit: 0..Full, idle: 0..(IdleTTL + 1)] \union {None}]
  /\ toSweep \in 0..SweepPeriod
  /\ stopped \in BOOLEAN
  /\ answer \in [id: Id, yes: BOOLEAN] \union {NoAnswer}
  /\ elapsed \in 0..MaxWindow
  /\ spent \in [Id -> Nat]

\* In no window of time is an identity allowed more requests than its burst and
\* what the rate gives for the length of the window, however the sweep falls.
RateBound == \A id \in Id : spent[id] <= Full + elapsed

\* The entry of an identity that no longer asks goes, so that the map does not
\* grow over a long uptime.
IdleEntriesGo ==
  \A id \in Id : Present(id) ~> (~Present(id) \/ entries[id].idle = 0 \/ stopped)

Bucket == INSTANCE TokenBucket WITH level <- [id \in Id |-> Entry(id).credit]

\* With evictions nobody can tell, Map answers as a bucket per identity that is
\* never forgotten: not one request too many, none too few, and none for what
\* another identity does.
BucketRefinement == Bucket!Spec
=============================================================================
