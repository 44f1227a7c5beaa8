--------------------------- MODULE RateLimitProofs ---------------------------
(***************************************************************************)
(* Proofs about RateLimit, for any rate, burst and set of identities.      *)
(*                                                                         *)
(* Types hold whatever the idle TTL.  The bound on the rate, and with it   *)
(* the implementation of TokenBucket, needs a TTL that is at least the     *)
(* time a bucket takes to fill: the sweep forgets a bucket, and a          *)
(* forgotten bucket is a full one.  RateBound fails with a shorter one.    *)
(***************************************************************************)
EXTENDS RateLimit, TLAPS

USE RateAssumption

\* A bucket is a number of ticks.
LEMMA FullNat == Full \in Nat /\ Period \in Nat /\ IdleTTL \in Nat /\ SweepPeriod \in Nat
  BY DEF Full, SweepPeriod

\* One token fits into the bucket.
LEMMA PeriodFits == Period <= Full
<1>1. \A p, b \in Nat \ {0} : p <= b * p  BY Z3
<1> QED  BY <1>1 DEF Full

\* An entry that was just used has its type, whether it was found or made.
LEMMA EntryType ==
  ASSUME TypeOK, NEW id \in Id
  PROVE  Entry(id) \in [credit: 0..Full, idle: 0..(IdleTTL + 1)]
  BY FullNat DEF TypeOK, Entry, Fresh, Present

\* Types are kept by every step.
LEMMA TypeStep == TypeOK /\ [Next]_vars => TypeOK'
<1> SUFFICES ASSUME TypeOK, [Next]_vars PROVE TypeOK'
  OBVIOUS
<1> USE FullNat
<1>1. ASSUME NEW id \in Id, Allow(id) PROVE TypeOK'
  <2> DEFINE e == Entry(id)
  <2>1. e.credit \in 0..Full
    BY EntryType
  <2>2. e.credit >= Period => e.credit - Period \in 0..Full
    BY <2>1
  <2>3. entries' \in [Id -> [credit: 0..Full, idle: 0..(IdleTTL + 1)] \union {None}]
    BY <1>1, <2>1, <2>2 DEF TypeOK, Allow
  <2>4. answer' \in [id: Id, yes: BOOLEAN] \union {NoAnswer}
    BY <1>1, <2>1 DEF TypeOK, Allow
  <2>5. spent' \in [Id -> Nat]
    BY <1>1, <2>1 DEF TypeOK, Allow
  <2> QED  BY <1>1, <2>3, <2>4, <2>5 DEF TypeOK, Allow
<1>2. CASE Evict
  BY <1>2 DEF TypeOK, Evict, Present
<1>3. CASE Stop
  BY <1>3 DEF TypeOK, Stop
<1>4. CASE Tick
  <2>1. \A id \in Id : Present(id) =>
          Older(entries[id]) \in [credit: 0..Full, idle: 0..(IdleTTL + 1)]
    BY DEF TypeOK, Present, Older, Capped
  <2>2. entries' \in [Id -> [credit: 0..Full, idle: 0..(IdleTTL + 1)] \union {None}]
    BY <1>4, <2>1 DEF Tick
  <2>3. toSweep' \in 0..SweepPeriod /\ elapsed' \in 0..MaxWindow /\ spent' \in [Id -> Nat]
    BY <1>4 DEF TypeOK, Tick
  <2> QED  BY <1>4, <2>2, <2>3 DEF TypeOK, Tick
<1>5. CASE NewWindow
  BY <1>5 DEF TypeOK, NewWindow
<1>6. CASE UNCHANGED vars
  BY <1>6 DEF TypeOK, vars
<1> QED  BY <1>1, <1>2, <1>3, <1>4, <1>5, <1>6 DEF Next

\* Types hold initially.
LEMMA TypeInit == Init => TypeOK
<1> SUFFICES ASSUME Init PROVE TypeOK
  OBVIOUS
<1>1. SweepPeriod \in 0..SweepPeriod /\ 0 \in 0..MaxWindow
  BY FullNat
<1>2. entries \in [Id -> [credit: 0..Full, idle: 0..(IdleTTL + 1)] \union {None}]
  BY DEF Init
<1>3. answer \in [id: Id, yes: BOOLEAN] \union {NoAnswer}
  BY DEF Init
<1>4. spent \in [Id -> Nat]
  BY DEF Init
<1> QED  BY <1>1, <1>2, <1>3, <1>4 DEF Init, TypeOK

\* Every variable of the limiter keeps its type.
THEOREM TypeCorrect == Spec => []TypeOK
<1>1. Init => TypeOK
  BY TypeInit
<1>2. TypeOK /\ [Next]_vars => TypeOK'
  BY TypeStep
<1> QED  BY <1>1, <1>2, PTL DEF Spec
-----------------------------------------------------------------------------
(* The rate.                                                               *)

\* A bucket fills while nobody asks: what the sweep may rely on.
Refilled ==
  \A id \in Id : Present(id) => entries[id].credit >= Capped(entries[id].idle, Full)

\* What was allowed in the window and what is left never exceed what there can be.
Conserved == \A id \in Id : spent[id] + Entry(id).credit <= Full + elapsed

RateInv == TypeOK /\ Refilled /\ Conserved

\* With a TTL as long as a bucket takes to fill, the sweep only removes full ones.
LEMMA SweptIsFull ==
  ASSUME TypeOK, Refilled, Full <= IdleTTL,
         NEW id \in Id, Present(id), entries[id].idle > IdleTTL
  PROVE  entries[id].credit = Full
  BY FullNat DEF TypeOK, Refilled, Capped, Present

\* Buckets are filled while nobody asks, in every step.
LEMMA RefilledStep == TypeOK /\ Refilled /\ [Next]_vars => Refilled'
<1> SUFFICES ASSUME TypeOK, Refilled, [Next]_vars, NEW i \in Id, Present(i)'
             PROVE  entries'[i].credit >= Capped(entries'[i].idle, Full)
  BY DEF Refilled
<1> USE FullNat
<1>1. ASSUME NEW id \in Id, Allow(id)
      PROVE  entries'[i].credit >= Capped(entries'[i].idle, Full)
  <2>1. CASE i = id
    <3>1. Entry(id).credit \in 0..Full
      BY EntryType
    <3>2. entries'[i].credit >= 0 /\ entries'[i].idle = 0
      BY <1>1, <2>1, <3>1 DEF TypeOK, Allow
    <3> QED  BY <3>2 DEF Capped
  <2>2. CASE i # id
    BY <1>1, <2>2 DEF TypeOK, Refilled, Allow, Present
  <2> QED  BY <2>1, <2>2
<1>2. CASE Evict
  BY <1>2 DEF TypeOK, Refilled, Evict, Present
<1>3. CASE Tick
  <2>1. Present(i) /\ entries'[i] = Older(entries[i])
    BY <1>3 DEF Tick, Present
  <2> QED  BY <2>1 DEF TypeOK, Refilled, Older, Capped, Present
<1>4. CASE Stop \/ NewWindow \/ UNCHANGED vars
  BY <1>4 DEF Refilled, Stop, NewWindow, vars, Present
<1> QED  BY <1>1, <1>2, <1>3, <1>4 DEF Next

\* A step of Allow moves what it takes from the bucket to what was allowed.
LEMMA AllowConserves ==
  ASSUME TypeOK, NEW id \in Id, Allow(id), NEW i \in Id
  PROVE  /\ spent'[i] + Entry(i)'.credit = spent[i] + Entry(i).credit
         /\ elapsed' = elapsed
<1> USE FullNat
<1>1. Entry(i).credit \in 0..Full /\ Entry(id).credit \in 0..Full /\ spent[i] \in Nat
  BY EntryType DEF TypeOK
<1>2. CASE i = id
  <2> DEFINE credit == Entry(id).credit
  <2>1. CASE credit >= Period
    <3>1. entries'[i] = [credit |-> credit - Period, idle |-> 0]
      BY <1>2, <2>1, Allow(id) DEF TypeOK, Allow
    <3>2. spent'[i] = spent[i] + Period
      BY <1>2, <2>1, Allow(id) DEF TypeOK, Allow
    <3>3. credit - Period \in Nat
      BY <2>1, <1>1
    <3>4. entries'[i] # None
      BY <3>1, <3>3
    <3> HIDE DEF credit
    <3>5. Entry(i)'.credit = credit - Period
      BY <3>1, <3>4 DEF Entry, Present
    <3> QED  BY <1>1, <1>2, <3>2, <3>5, Allow(id) DEF Allow, credit
  <2>2. CASE ~(credit >= Period)
    <3>1. entries'[i] = [credit |-> credit, idle |-> 0]
      BY <1>2, <2>2, Allow(id) DEF TypeOK, Allow
    <3>2. spent'[i] = spent[i]
      BY <1>2, <2>2, Allow(id) DEF TypeOK, Allow
    <3>3. entries'[i] # None
      BY <3>1, <1>1, <1>2
    <3> HIDE DEF credit
    <3>4. Entry(i)'.credit = credit
      BY <3>1, <3>3 DEF Entry, Present
    <3> QED  BY <1>1, <1>2, <3>2, <3>4, Allow(id) DEF Allow, credit
  <2> QED  BY <2>1, <2>2
<1>3. CASE i # id
  BY <1>1, <1>3 DEF TypeOK, Allow, Entry, Present, Fresh
<1> QED  BY <1>2, <1>3

\* Nothing is allowed that was not in the bucket, in every step.
LEMMA ConservedStep ==
  ASSUME Full <= IdleTTL
  PROVE  RateInv /\ [Next]_vars => Conserved'
<1> SUFFICES ASSUME RateInv, [Next]_vars, NEW i \in Id
             PROVE  spent'[i] + Entry(i)'.credit <= Full + elapsed'
  BY DEF Conserved
<1> USE FullNat DEF RateInv
<1>1. Entry(i).credit \in 0..Full /\ spent[i] \in Nat /\ elapsed \in 0..MaxWindow
  BY EntryType DEF TypeOK
<1>2. ASSUME NEW id \in Id, Allow(id)
      PROVE  spent'[i] + Entry(i)'.credit <= Full + elapsed'
  BY <1>2, <1>1, AllowConserves DEF Conserved
<1>3. CASE Evict
  <2>1. Entry(i)'.credit = Entry(i).credit
    <3>1. CASE Present(i) /\ entries[i].idle > IdleTTL
      BY <3>1, <1>3, SweptIsFull DEF Evict, Entry, Present, Fresh
    <3>2. CASE ~(Present(i) /\ entries[i].idle > IdleTTL)
      BY <3>2, <1>3 DEF Evict, Entry, Present, Fresh
    <3> QED  BY <3>1, <3>2
  <2> QED  BY <2>1, <1>1, <1>3 DEF Conserved, Evict
<1>4. CASE Tick
  <2>1. Entry(i)'.credit \in 0..Full /\ Entry(i)'.credit <= Entry(i).credit + 1
    <3>1. CASE Present(i)
      <4>1. entries'[i] = Older(entries[i])
        BY <3>1, <1>4 DEF Tick
      <4>2. entries'[i] # None
        BY <4>1, <3>1 DEF TypeOK, Older, Capped, Present
      <4>3. Entry(i)'.credit = Capped(entries[i].credit + 1, Full)
        BY <4>1, <4>2 DEF Older, Entry, Present
      <4> QED  BY <4>3, <3>1, <1>1 DEF Capped, Entry
    <3>2. CASE ~Present(i)
      BY <3>2, <1>4 DEF Tick, Entry, Present, Fresh
    <3> QED  BY <3>1, <3>2
  <2>2. CASE elapsed < MaxWindow
    BY <2>1, <2>2, <1>1, <1>4 DEF Tick, Conserved
  <2>3. CASE ~(elapsed < MaxWindow)
    BY <2>1, <2>3, <1>4 DEF Tick
  <2> QED  BY <2>2, <2>3
<1>5. CASE NewWindow
  <2>1. Entry(i)' = Entry(i)
    BY <1>5 DEF NewWindow, Entry, Present
  <2> QED  BY <2>1, <1>1, <1>5 DEF NewWindow
<1>6. CASE Stop \/ UNCHANGED vars
  <2>1. Entry(i)' = Entry(i)
    BY <1>6 DEF Stop, vars, Entry, Present
  <2> QED  BY <2>1, <1>6 DEF Stop, vars, Conserved
<1> QED  BY <1>2, <1>3, <1>4, <1>5, <1>6 DEF Next

\* The inductive invariant, given a TTL as long as a bucket takes to fill.
LEMMA RateInvariance == ASSUME Full <= IdleTTL PROVE Spec => []RateInv
<1>1. Init => RateInv
  BY TypeInit, FullNat DEF Init, RateInv, Refilled, Conserved, Entry, Present, Fresh
<1>2. RateInv /\ [Next]_vars => RateInv'
  BY TypeStep, RefilledStep, ConservedStep DEF RateInv
<1> QED  BY <1>1, <1>2, PTL DEF Spec

\* In no window is an identity allowed more than its burst and the rate over the
\* window, provided no idle bucket is forgotten before it is full.
THEOREM RateBounded == ASSUME Full <= IdleTTL PROVE Spec => []RateBound
<1>1. RateInv => RateBound
  <2> SUFFICES ASSUME RateInv, NEW id \in Id PROVE spent[id] <= Full + elapsed
    BY DEF RateBound
  <2>1. Entry(id).credit \in 0..Full
    BY EntryType DEF RateInv
  <2> QED  BY <2>1, FullNat DEF RateInv, TypeOK, Conserved
<1> QED  BY <1>1, RateInvariance, PTL
-----------------------------------------------------------------------------
(* The buckets that are never forgotten.                                   *)

\* A step of the map is a step of the buckets, or one nobody can tell.
LEMMA BucketStep ==
  ASSUME Full <= IdleTTL
  PROVE  RateInv /\ [Next]_vars => [Bucket!Next]_(Bucket!bucketVars)
<1> SUFFICES ASSUME RateInv, [Next]_vars
             PROVE  Bucket!Next \/ UNCHANGED Bucket!bucketVars
  OBVIOUS
<1> DEFINE level == [id \in Id |-> Entry(id).credit]
<1> USE FullNat DEF RateInv
<1>1. \A i \in Id : Entry(i).credit \in 0..Full
  BY EntryType
<1>2. ASSUME NEW id \in Id, Allow(id) PROVE Bucket!Next
  <2>1. \A i \in Id : Entry(i)'.credit =
          IF i = id /\ Entry(id).credit >= Period
          THEN Entry(id).credit - Period ELSE Entry(i).credit
    <3> SUFFICES ASSUME NEW i \in Id
                 PROVE  Entry(i)'.credit =
                          IF i = id /\ Entry(id).credit >= Period
                          THEN Entry(id).credit - Period ELSE Entry(i).credit
      OBVIOUS
    <3>1. spent'[i] + Entry(i)'.credit = spent[i] + Entry(i).credit
      BY <1>2, AllowConserves
    <3>2. spent'[i] = IF i = id /\ Entry(id).credit >= Period
                      THEN spent[i] + Period ELSE spent[i]
      BY <1>2 DEF TypeOK, Allow
    <3>3. Entry(i)'.credit \in 0..Full
      <4>1. TypeOK'
        BY TypeStep
      <4> QED  BY <4>1 DEF TypeOK, Entry, Fresh, Present
    <3> QED  BY <3>1, <3>2, <3>3, <1>1 DEF TypeOK
  <2>2. level' = IF level[id] >= Period THEN [level EXCEPT ![id] = @ - Period] ELSE level
    BY <2>1
  <2>3. answer' = [id |-> id, yes |-> level[id] >= Period]
    BY <1>2 DEF Allow
  <2>4. Bucket!Request(id)
    BY <2>2, <2>3 DEF Bucket!Request
  <2> QED  BY <2>4 DEF Bucket!Next
<1>3. CASE Evict
  <2>1. \A i \in Id : Entry(i)'.credit = Entry(i).credit
    <3> SUFFICES ASSUME NEW i \in Id PROVE Entry(i)'.credit = Entry(i).credit
      OBVIOUS
    <3>1. CASE Present(i) /\ entries[i].idle > IdleTTL
      BY <3>1, <1>3, SweptIsFull DEF Evict, Entry, Present, Fresh
    <3>2. CASE ~(Present(i) /\ entries[i].idle > IdleTTL)
      BY <3>2, <1>3 DEF Evict, Entry, Present, Fresh
    <3> QED  BY <3>1, <3>2
  <2>2. level' = level
    BY <2>1
  <2> QED  BY <2>2, <1>3 DEF Evict, Bucket!bucketVars
<1>4. CASE Tick
  <2>1. \A i \in Id : Entry(i)'.credit = Bucket!Up(Entry(i).credit)
    <3> SUFFICES ASSUME NEW i \in Id PROVE Entry(i)'.credit = Bucket!Up(Entry(i).credit)
      OBVIOUS
    <3>1. CASE Present(i)
      <4>1. entries'[i] = Older(entries[i])
        BY <3>1, <1>4 DEF Tick
      <4>2. entries'[i] # None
        BY <4>1, <3>1 DEF TypeOK, Older, Capped, Present
      <4>3. Entry(i)'.credit = Capped(entries[i].credit + 1, Full)
        BY <4>1, <4>2 DEF Older, Entry, Present
      <4>4. Entry(i) = entries[i] /\ Full = Bucket!Full
        BY <3>1 DEF Entry, Full, Bucket!Full
      <4> QED  BY <4>3, <4>4, <1>1 DEF Capped, Bucket!Up
    <3>2. CASE ~Present(i)
      <4>1. Entry(i)'.credit = Full /\ Entry(i).credit = Full /\ Full = Bucket!Full
        BY <3>2, <1>4 DEF Tick, Entry, Present, Fresh, Full, Bucket!Full
      <4> QED  BY <4>1 DEF Bucket!Up
    <3> QED  BY <3>1, <3>2
  <2>2. level' = [i \in Id |-> Bucket!Up(level[i])]
    BY <2>1
  <2>3. Bucket!Tick
    BY <2>2, <1>4 DEF Tick, Bucket!Tick
  <2> QED  BY <2>3 DEF Bucket!Next
<1>5. CASE Stop \/ NewWindow \/ UNCHANGED vars
  <2>1. entries' = entries /\ answer' = answer
    BY <1>5 DEF Stop, NewWindow, vars
  <2>2. level' = level
    BY <2>1 DEF Entry, Present
  <2> QED  BY <2>1, <2>2 DEF Bucket!bucketVars
<1> QED  BY <1>2, <1>3, <1>4, <1>5 DEF Next

\* With such a TTL the map answers every request exactly as buckets that are
\* never forgotten would.
THEOREM BucketsImplemented == ASSUME Full <= IdleTTL PROVE Spec => BucketRefinement
<1>1. Init => Bucket!Init
  BY DEF Init, Bucket!Init, Entry, Present, Fresh, Full, Bucket!Full
<1>2. RateInv /\ [Next]_vars => [Bucket!Next]_(Bucket!bucketVars)
  BY BucketStep
<1> QED  BY <1>1, <1>2, RateInvariance, PTL DEF Spec, BucketRefinement, Bucket!Spec
=============================================================================
