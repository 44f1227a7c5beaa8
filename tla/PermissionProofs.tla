-------------------------- MODULE PermissionProofs --------------------------
(***************************************************************************)
(* Proofs about the permissions of an identity.  PermReload: for any       *)
(* services, configs and connections, if no config changes while the       *)
(* daemon starts.  Permissions: for any configs and names.                 *)
(***************************************************************************)
EXTENDS PermReload, Permissions, FiniteSetTheorems, TLAPS

Loadable == Config \union {Absent}

\* The part of TypeOK that the configs of services need.
ConfigTyped ==
  /\ cached \in [Service -> Loadable \union {Bad}]
  /\ events \subseteq Service
  /\ phase \in {"loading", "cleaning", "serving"}
  /\ state \in [Service -> Loadable]
  /\ reload \in [svc: Service \union {NoService}, config: Loadable]
  /\ reload = Idle \/ reload.svc \in Service

\* Until the listener is there the cache is as it was when it was loaded.
StartupInSync ==
  phase # "serving" =>
    /\ events = {} /\ reload = Idle
    /\ \A s \in loaded : ~Loads(cached[s]) \/ state[s] = cached[s]

AllLoaded == phase # "loading" => loaded = Service

\* A config on its way into a serviceState is the newest, or another event is due.
ReloadInSync ==
  reload # Idle => reload.svc \in events \/ reload.config = cached[reload.svc]

ReloadInv == ConfigTyped /\ StartupInSync /\ AllLoaded /\ ReloadInSync /\ InSync
-----------------------------------------------------------------------------
\* Nothing is loaded at first.
LEMMA ReloadInitInv == Init => ReloadInv
  BY ReloadAssumption DEF Init, ReloadInv, ConfigTyped, Loadable, StartupInSync, AllLoaded,
     ReloadInSync, InSync, Loads, Idle

\* Whether the cache, the startup, the handler or a connection takes the step.
LEMMA ReloadStepInv ==
  ASSUME "early" \notin MayHappen, ReloadInv, [Next]_vars
  PROVE  ReloadInv'
<1> USE ReloadAssumption DEF ReloadInv, ConfigTyped, Loadable, StartupInSync, AllLoaded,
        ReloadInSync, InSync, Loads, Idle
<1>1. CASE UNCHANGED <<cached, events, phase, loaded, state, reload>>
  BY <1>1
<1>2. ASSUME NEW s \in Service, NEW config \in Config \union {Absent, Bad},
             ServiceChanged(s, config)
      PROVE  ReloadInv'
  BY <1>2 DEF ServiceChanged
<1>3. ASSUME NEW s \in Service, LoadAtStartup(s)
      PROVE  ReloadInv'
  BY <1>3 DEF LoadAtStartup
<1>4. ASSUME NEW s \in Service, TakeEvent(s)
      PROVE  ReloadInv'
  BY <1>4 DEF TakeEvent
<1>5. CASE Subscribe
  BY <1>5 DEF Subscribe
<1>6. CASE Set
  BY <1>6 DEF Set
<1>7. ASSUME NEW c \in Conn,
             (\E s \in Service : OnConnect(c, s)) \/ EnsureUser(c) \/ ReleaseUser(c)
      PROVE  UNCHANGED <<cached, events, phase, loaded, state, reload>>
  BY <1>7 DEF OnConnect, EnsureUser, ReleaseUser
<1> QED
  BY <1>1, <1>2, <1>3, <1>4, <1>5, <1>6, <1>7 DEF Next, vars

\* Once its events are handled, connections on a service read the newest config,
\* if it loads and did not change during startup (loadPermissionsConfig, set).
THEOREM ReloadKeepsInSync ==
  ASSUME "early" \notin MayHappen
  PROVE  Spec => []InSync
<1>1. ReloadInv => InSync
  BY DEF ReloadInv
<1>2. ReloadInv /\ [Next]_vars => ReloadInv'
  BY ReloadStepInv
<1> QED
  BY <1>1, <1>2, ReloadInitInv, PTL DEF Spec
-----------------------------------------------------------------------------
\* DeriveUsername (ca.go) undoes none of its own steps: what a user name consists
\* of goes through lower-casing and replacement as it is.
LEMMA ToLowerKept == \A ch \in Kept : ToLower(ch) = ch
  BY DEF Kept, Lower, Digit, ToLower

\* Lower-casing and replacement give allowed characters, one for each.
LEMMA SanitizedShape ==
  ASSUME NEW name \in Seq(Character)
  PROVE  /\ Sanitized(name) \in Seq(Kept)
         /\ Len(Sanitized(name)) = Len(name)
<1> DEFINE kept(ch) == IF ToLower(ch) \in Kept THEN ToLower(ch) ELSE "_"
<1>1. \A ch : kept(ch) \in Kept
  BY DEF Kept
<1>2. DOMAIN name = 1..Len(name) /\ Len(name) \in Nat
  OBVIOUS
<1>3. Sanitized(name) = [i \in 1..Len(name) |-> kept(name[i])]
  BY <1>2 DEF Sanitized
<1> HIDE DEF kept
<1>4. Sanitized(name) \in [1..Len(name) -> Kept]
  BY <1>1, <1>3
<1> QED
  BY <1>2, <1>4

\* They leave a name of allowed characters alone.
LEMMA SanitizedKept ==
  ASSUME NEW name \in Seq(Kept)
  PROVE  Sanitized(name) = name
<1>1. \A i \in DOMAIN name : name[i] \in Kept
  OBVIOUS
<1> DEFINE kept(ch) == IF ToLower(ch) \in Kept THEN ToLower(ch) ELSE "_"
<1>3. Sanitized(name) = [i \in DOMAIN name |-> kept(name[i])]
  BY DEF Sanitized
<1>4. \A i \in DOMAIN name : kept(name[i]) = name[i]
  BY <1>1, ToLowerKept
<1> HIDE DEF kept
<1>5. Sanitized(name) = [i \in DOMAIN name |-> name[i]]
  BY <1>3, <1>4
<1> QED
  BY <1>5

\* The form of a user name, but for what ValidLinuxUsername asks in addition.
UserName(u) ==
  /\ u \in Seq(Kept)
  /\ u # <<>> /\ Len(u) <= MaxLen
  /\ u[1] \notin Digit

\* The prefix takes the place of a leading digit.
LEMMA PrefixedShape ==
  ASSUME NEW name \in Seq(Kept), name # <<>>
  PROVE  /\ Prefixed(name) \in Seq(Kept)
         /\ Prefixed(name) # <<>>
         /\ Prefixed(name)[1] \notin Digit
<1>1. "b" \in Kept /\ "b" \notin Digit
  BY DEF Kept, Lower, Digit
<1> QED
  BY <1>1 DEF Prefixed

\* The cut leaves the first character, as MaxLen is not 0.
LEMMA TruncatedShape ==
  ASSUME NEW name \in Seq(Kept), name # <<>>, name[1] \notin Digit
  PROVE  UserName(Truncated(name))
  BY MaxLenAssumption DEF UserName, Truncated

\* Every name that is not empty gives a user name.
LEMMA DeriveUsernameShape ==
  ASSUME NEW name \in Seq(Character), name # <<>>
  PROVE  UserName(DeriveUsername(name))
<1>1. Sanitized(name) \in Seq(Kept) /\ Sanitized(name) # <<>>
  BY SanitizedShape
<1> QED
  BY <1>1, PrefixedShape, TruncatedShape DEF DeriveUsername

\* Every user name is its own.
LEMMA DeriveUsernameStays ==
  ASSUME NEW u, UserName(u)
  PROVE  DeriveUsername(u) = u
<1>1. Sanitized(u) = u
  BY SanitizedKept DEF UserName
<1>2. Prefixed(u) = u
  BY DEF UserName, Prefixed
<1>3. Truncated(u) = u
  BY MaxLenAssumption DEF UserName, Truncated
<1> QED
  BY <1>1, <1>2, <1>3 DEF DeriveUsername

-----------------------------------------------------------------------------
\* The two counts of patternSpecificity are numbers.
LEMMA ScoreType ==
  ASSUME NEW key \in Seq(Character)
  PROVE  PrefixLen(key) \in Nat /\ TotalLiterals(key) \in Nat
<1>1. DOMAIN key = 1..Len(key) /\ Len(key) \in Nat
  OBVIOUS
<1>2. IsFiniteSet(DOMAIN key)
  BY <1>1, FS_Interval
<1>3. \A S \in SUBSET DOMAIN key : Cardinality(S) \in Nat
  BY <1>2, FS_Subset, FS_CardinalityType
<1> QED
  BY <1>3 DEF PrefixLen, TotalLiterals

\* The loop has kept a pattern that none it has visited outranks, if it saw one.
BestSoFar ==
  LET seen == Candidates \ todo
  IN  /\ best = <<>> => seen = {}
      /\ best # <<>> => /\ best \in seen
                        /\ \A k \in seen : ~Outranks(Score(k), Score(best))

\* The loop only runs over a config without an entry of its own for the identity.
ResolveInv ==
  /\ identity \in Seq(Character) \ {<<>>}
  /\ keys \in SUBSET Seq(Character)
  /\ Fallback # identity
  /\ pc \in {"load", "exact", "glob", "done"}
  /\ pc \in {"load", "exact"} => best = <<>>
  /\ pc = "glob" => identity \notin keys /\ BestSoFar
  /\ DocumentedPrecedence

\* A pattern has a wildcard and so is not the empty string, which stands for none.
LEMMA CandidatesAreKeys ==
  /\ Candidates \subseteq keys
  /\ \A k \in Candidates : k # <<>>
  BY DEF Candidates, IsGlob

\* Resolve begins without a pattern.
LEMMA ResolveInitInv == ResolveInit => ResolveInv
  BY InputsAssumption DEF ResolveInit, ResolveInv, DocumentedPrecedence

\* Whichever key the map gives next: a better one outranks all that the best one
\* was not outranked by, and one that is not better is none that outranks it.
LEMMA VisitKeepsBest ==
  ASSUME ResolveInv, NEW key \in keys, Visit(key)
  PROVE  BestSoFar'
<1> DEFINE seen == Candidates \ todo
           better == IsGlob(key) /\ Matches(key, identity) /\ Better(key, best)
<1>1. /\ pc = "glob" /\ key \in todo
      /\ Candidates' = Candidates
      /\ todo' = todo \ {key}
      /\ best' = IF better THEN key ELSE best
  BY DEF Visit, Candidates
<1>2. BestSoFar
  BY <1>1 DEF ResolveInv
<1>3. \A k \in keys : PrefixLen(k) \in Nat /\ TotalLiterals(k) \in Nat
  BY ScoreType DEF ResolveInv
<1>4. (Candidates \ todo)' = seen \union (IF key \in Candidates THEN {key} ELSE {})
  BY <1>1
<1>5. key \in Candidates <=> IsGlob(key) /\ Matches(key, identity)
  BY DEF Candidates
<1>6. CASE better
  <2>1. best' = key /\ key # <<>> /\ key \in (Candidates \ todo)'
    BY <1>1, <1>4, <1>5, <1>6, CandidatesAreKeys
  <2>2. ASSUME NEW k \in (Candidates \ todo)'
        PROVE  ~Outranks(Score(k), Score(key))
    <3>1. CASE k = key
      BY <3>1, <1>3 DEF Outranks, Score
    <3>2. CASE k # key
      <4>1. k \in seen /\ k \in keys
        BY <3>2, <1>4, CandidatesAreKeys
      <4>2. best \in seen /\ best \in keys /\ ~Outranks(Score(k), Score(best)) /\ best # <<>>
        BY <4>1, <1>2, CandidatesAreKeys DEF BestSoFar
      <4>3. \/ PrefixLen(key) > PrefixLen(best)
            \/ PrefixLen(key) = PrefixLen(best) /\ TotalLiterals(key) > TotalLiterals(best)
        BY <1>6, <4>2 DEF Better
      <4> QED
        BY <4>1, <4>2, <4>3, <1>3 DEF Outranks, Score
    <3> QED
      BY <3>1, <3>2
  <2> QED
    BY <1>1, <2>1, <2>2 DEF BestSoFar, Score
<1>7. CASE ~better
  <2>1. best' = best
    BY <1>1, <1>7
  <2>2. CASE key \notin Candidates
    BY <1>1, <1>2, <1>4, <2>1, <2>2 DEF BestSoFar, Score
  <2>3. CASE key \in Candidates
    <3>1. best # <<>> /\ ~Better(key, best)
      BY <1>5, <1>7, <2>3 DEF Better
    <3>2. best \in seen /\ best \in keys
      BY <1>2, <3>1, CandidatesAreKeys DEF BestSoFar
    <3>3. ~Outranks(Score(key), Score(best))
      BY <3>1, <3>2, <1>3 DEF Better, Outranks, Score
    <3> QED
      BY <1>1, <1>2, <1>4, <2>1, <2>3, <3>1, <3>2, <3>3 DEF BestSoFar, Score
  <2> QED
    BY <2>2, <2>3
<1> QED
  BY <1>6, <1>7

\* One case for each step of loadPermissionsConfig and Resolve.
LEMMA ResolveNextInv == ResolveInv /\ [ResolveNext]_resolveVars => ResolveInv'
<1> SUFFICES ASSUME ResolveInv, [ResolveNext]_resolveVars
             PROVE  ResolveInv'
  OBVIOUS
<1>1. CASE Load
  BY <1>1 DEF Load, ResolveInv, DocumentedPrecedence
<1>2. CASE ExactMatch
  BY <1>2, CandidatesAreKeys DEF ExactMatch, ResolveInv, DocumentedPrecedence, BestSoFar, Candidates
<1>3. ASSUME NEW key \in keys, Visit(key)
      PROVE  ResolveInv'
  BY <1>3, VisitKeepsBest DEF Visit, ResolveInv, DocumentedPrecedence
<1>4. CASE Finish
  <2>1. pc = "glob" /\ todo = {} /\ pc' = "done" /\ Candidates' = Candidates
    BY <1>4 DEF Finish, Candidates
  <2>2. BestSoFar /\ identity \notin keys
    BY <2>1 DEF ResolveInv
  <2>3. DocumentedPrecedence'
    BY <1>4, <2>1, <2>2 DEF Finish, BestSoFar, DocumentedPrecedence, Score
  <2> QED
    BY <1>4, <2>1, <2>2, <2>3 DEF Finish, ResolveInv
<1>5. CASE UNCHANGED resolveVars
  BY <1>5 DEF resolveVars, ResolveInv, DocumentedPrecedence, BestSoFar, Candidates, Score
<1> QED
  BY <1>1, <1>2, <1>3, <1>4, <1>5 DEF ResolveNext

\* ResolveInv holds in every state of every order of the map.
THEOREM ResolveInvariant == ResolveSpec => []ResolveInv
  BY ResolveInitInv, ResolveNextInv, PTL DEF ResolveSpec

\* In whatever order Go iterates over the map, Resolve gives the exact entry, else
\* that of a matching pattern none outranks, else the fallback, for any config and
\* any pattern language (path.Match is not looked into).
THEOREM PrecedenceCorrect == ResolveSpec => []DocumentedPrecedence
<1>1. ResolveInv => DocumentedPrecedence
  BY DEF ResolveInv
<1> QED
  BY <1>1, ResolveInvariant, PTL

\* What DeriveUsername makes of a name of any length is not empty, fits, consists of
\* allowed characters, does not begin with a digit, and derives itself.
THEOREM UsernameShapeCorrect == ResolveSpec => []UsernameShape
<1>1. ResolveInv => UsernameShape
  <2>1. SUFFICES ASSUME ResolveInv PROVE UsernameShape
    OBVIOUS
  <2>2. UserName(DeriveUsername(identity))
    BY <2>1, DeriveUsernameShape DEF ResolveInv
  <2>3. DeriveUsername(DeriveUsername(identity)) = DeriveUsername(identity)
    BY <2>2, DeriveUsernameStays
  <2>4. \A i \in DOMAIN DeriveUsername(identity) : DeriveUsername(identity)[i] \in Kept
    BY <2>2 DEF UserName
  <2> QED
    BY <2>2, <2>3, <2>4 DEF UsernameShape, UserName
<1> QED
  BY <1>1, ResolveInvariant, PTL
=============================================================================
