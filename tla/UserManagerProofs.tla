------------------------- MODULE UserManagerProofs -------------------------
(***************************************************************************)
(* Proofs about UserManager, for any finite set of connections, any        *)
(* identities and users, and any choice of the commands that may fail.     *)
(***************************************************************************)
EXTENDS UserManager, FiniteSetTheorems, TLAPS

\* The label of a goroutine agrees with the call it is in, and a goroutine
\* in a call acts for an identity.
StateOK(s) ==
  /\ s.pc = "idle" <=> s.call = "none"
  /\ s.pc # "idle" => s.id \in Identity
  /\ s.pc \in {"useradd", "rollback"} => s.call = "first"
  /\ s.pc \in {"usermod", "sudoers", "session"} => s.call \in {"first", "later"}
  /\ s.pc \in {"rmsudoers", "userdel"} => s.call = "release"
  /\ s.pc \in {"snapshot", "write"} => s.call # "later"

CallOK == \A c \in Conn : StateOK(conn[c])

IInv == TypeOK /\ CallOK /\ RefCount /\ OneOwner /\ LockDiscipline
-----------------------------------------------------------------------------
(* Facts about the states of a goroutine.                                  *)

\* A goroutine at rest is a call state.
LEMMA IdleType == Idle \in CallState
BY NameAssumption, PermsAssumption DEF Idle, CallState, Unlocked, Locked

\* Updating one goroutine with a call state keeps the type of conn.
LEMMA CallUpdate ==
  ASSUME CallOK, conn \in [Conn -> CallState], NEW c \in Conn, NEW s,
         conn' = [conn EXCEPT ![c] = s], StateOK(s)
  PROVE  CallOK'
<1>1. \A d \in Conn : conn'[d] = IF d = c THEN s ELSE conn[d]
  OBVIOUS
<1> QED
  BY <1>1 DEF CallOK

\* A goroutine in a call has a user.
LEMMA UserType ==
  ASSUME TypeOK, CallOK, NEW c \in Conn, ~At(c, "idle")
  PROVE  UserOf(c) \in User
BY NameAssumption DEF CallOK, StateOK, At, UserOf, TypeOK

\* How the holders of a user change with the state of one goroutine.
LEMMA HoldersUpdate ==
  ASSUME conn \in [Conn -> CallState], NEW c \in Conn, NEW s \in CallState,
         conn' = [conn EXCEPT ![c] = s], NEW u \in User
  PROVE  HoldersOf(u)' =
           (HoldersOf(u) \ {c}) \union
           (IF s.call \in {"first", "later"} /\ Derive[s.id] = u THEN {c} ELSE {})
<1>1. \A d \in Conn : conn'[d] = IF d = c THEN s ELSE conn[d]
  OBVIOUS
<1> QED
  BY <1>1 DEF HoldersOf, Counted, UserOf

\* The holders of a user are finitely many.
LEMMA HoldersFinite ==
  ASSUME NEW u \in User
  PROVE  IsFiniteSet(HoldersOf(u))
BY ConnAssumption, FS_Subset DEF HoldersOf

\* A counted connection makes the count of its user positive.
LEMMA CountPositive ==
  ASSUME TypeOK, CallOK, RefCount, NEW c \in Conn, Counted(c)
  PROVE  /\ UserOf(c) \in User
         /\ c \in HoldersOf(UserOf(c))
         /\ sessions[UserOf(c)] \in Nat \ {0}
<1>1. ~At(c, "idle")
  BY DEF CallOK, StateOK, At, Counted
<1>2. UserOf(c) \in User
  BY <1>1, UserType
<1>3. c \in HoldersOf(UserOf(c))
  BY DEF HoldersOf
<1>4. sessions[UserOf(c)] = Cardinality(HoldersOf(UserOf(c)))
  BY <1>2 DEF RefCount
<1>5. Cardinality(HoldersOf(UserOf(c))) # 0
  BY <1>2, <1>3, HoldersFinite, FS_EmptySet
<1> QED
  BY <1>2, <1>3, <1>4, <1>5 DEF TypeOK
-----------------------------------------------------------------------------
(* Type correctness and CallOK, action by action.                          *)

\* Types and call states hold initially.
LEMMA TypeInit == Init => TypeOK /\ CallOK
<1> SUFFICES ASSUME Init PROVE TypeOK /\ CallOK
  OBVIOUS
<1>1. conn \in [Conn -> CallState] /\ CallOK
  BY IdleType DEF Init, CallOK, StateOK, Idle
<1>2. /\ sessions \in [User -> Nat]
      /\ owners \in [User -> Identity \union {NoId}]
      /\ userLocks \in [User -> Conn \union {Free}]
  BY DEF Init
<1>3. /\ phase \in {"down", "cleaning", "serving"}
      /\ cleanupOnDisconnect \in BOOLEAN
  BY DEF Init
<1>4. /\ orphans \in SUBSET User
      /\ orphan \in User \union {NoUser}
      /\ remaining \in SUBSET User
  BY DEF Init
<1>5. /\ accounts \in SUBSET User
      /\ groups \in [User -> Groups]
      /\ sudoers \in [User -> Rules]
      /\ stateFile \in SUBSET User
  BY NameAssumption, PermsAssumption DEF Init
<1> QED
  BY <1>1, <1>2, <1>3, <1>4, <1>5 DEF TypeOK

\* Reaching a new label leaves the rest of the goroutine's state alone.
LEMMA GotoType ==
  ASSUME TypeOK, CallOK, NEW c \in Conn, NEW l \in Unlocked \union Locked,
         Goto(c, l), StateOK([conn[c] EXCEPT !.pc = l])
  PROVE  /\ conn' \in [Conn -> CallState]
         /\ CallOK'
<1> DEFINE s == [conn[c] EXCEPT !.pc = l]
<1>1. conn' = [conn EXCEPT ![c] = s] /\ s \in CallState
  BY DEF Goto, TypeOK, CallState
<1> QED
  BY <1>1, CallUpdate DEF TypeOK

\* A goroutine that returns keeps the types of conn and userLocks.
LEMMA ReturnToIdleType ==
  ASSUME TypeOK, CallOK, NEW c \in Conn, ~At(c, "idle"), ReturnToIdle(c)
  PROVE  /\ conn' \in [Conn -> CallState]
         /\ CallOK'
         /\ userLocks' \in [User -> Conn \union {Free}]
<1>1. StateOK(Idle)
  BY DEF StateOK, Idle
<1> QED
  BY <1>1, CallUpdate, IdleType, UserType DEF ReturnToIdle, Unlock, TypeOK

\* Uncount keeps its types when the count is positive.
LEMMA UncountType ==
  ASSUME TypeOK, NEW u \in User, sessions[u] # 0, Uncount(u)
  PROVE  /\ sessions' \in [User -> Nat]
         /\ owners' \in [User -> Identity \union {NoId}]
BY DEF TypeOK, Uncount

\* Phase 1 of EnsureUser keeps types and call states.
LEMMA TypeEnsureUser ==
  ASSUME TypeOK, CallOK, NEW c \in Conn, NEW id \in Identity, NEW p \in Perms,
         EnsureUser(c, id, p)
  PROVE  TypeOK' /\ CallOK'
<1> DEFINE s == [pc |-> "lock", call |-> IF sessions[Derive[id]] = 0 THEN "first" ELSE "later",
                 id |-> id, perms |-> p, snap |-> {}]
<1>1. conn' = [conn EXCEPT ![c] = s] /\ s \in CallState /\ StateOK(s)
  BY PermsAssumption DEF EnsureUser, CallState, Unlocked, Locked, StateOK
<1>2. TypeOK'
  BY <1>1, NameAssumption DEF TypeOK, EnsureUser, startup, hostVars
<1>3. CallOK'
  BY <1>1, CallUpdate DEF TypeOK
<1> QED
  BY <1>2, <1>3

\* Taking the per-user lock keeps types and call states.
LEMMA TypeLockUser ==
  ASSUME TypeOK, CallOK, NEW c \in Conn, LockUser(c)
  PROVE  TypeOK' /\ CallOK'
<1> DEFINE l == CASE conn[c].call = "first"   -> "useradd"
                  [] conn[c].call = "later"   -> "usermod"
                  [] conn[c].call = "release" -> "rmsudoers"
<1>1. conn[c].call \in {"first", "later", "release"} /\ conn[c] \in CallState
      /\ conn[c].id \in Identity
  BY DEF LockUser, CallOK, StateOK, At, TypeOK, CallState
<1>2. /\ conn[c].call = "first" => l = "useradd"
      /\ conn[c].call = "later" => l = "usermod"
      /\ conn[c].call = "release" => l = "rmsudoers"
  OBVIOUS
<1>3. Goto(c, l)
  BY DEF LockUser
<1> HIDE DEF l
<1>4. l \in Unlocked \union Locked /\ StateOK([conn[c] EXCEPT !.pc = l])
  BY <1>1, <1>2 DEF Locked, StateOK, CallState
<1>5. conn' \in [Conn -> CallState] /\ CallOK'
  BY <1>3, <1>4, GotoType
<1>6. UserOf(c) \in User
  BY UserType DEF LockUser, At
<1> QED
  BY <1>5, <1>6 DEF LockUser, TypeOK, startup, hostVars

\* The commands that only move their goroutine to a given next label.
LEMMA TypeUseradd ==
  ASSUME TypeOK, CallOK, NEW c \in Conn, Useradd(c)
  PROVE  TypeOK' /\ CallOK'
<1>1. UserOf(c) \in User /\ conn[c] \in CallState /\ StateOK(conn[c])
  BY UserType DEF Useradd, At, CallOK, TypeOK
<1>2. /\ StateOK([conn[c] EXCEPT !.pc = "usermod"])
      /\ StateOK([conn[c] EXCEPT !.pc = "rollback"])
  BY <1>1 DEF Useradd, At, StateOK, CallState
<1>3. conn' \in [Conn -> CallState] /\ CallOK'
  BY <1>2, GotoType DEF Useradd, Locked
<1> QED
  BY <1>1, <1>3 DEF Useradd, TypeOK, startup

\* The rollback of EnsureUser keeps types and call states.
LEMMA TypeRollback ==
  ASSUME TypeOK, CallOK, RefCount, NEW c \in Conn, Rollback(c)
  PROVE  TypeOK' /\ CallOK'
<1>1. Counted(c) /\ ~At(c, "idle")
  BY DEF Rollback, At, Counted, CallOK, StateOK
<1>2. UserOf(c) \in User /\ sessions[UserOf(c)] # 0
  BY <1>1, CountPositive
<1>3. /\ sessions' \in [User -> Nat]
      /\ owners' \in [User -> Identity \union {NoId}]
  BY <1>2, UncountType DEF Rollback
<1>4. /\ conn' \in [Conn -> CallState]
      /\ CallOK'
      /\ userLocks' \in [User -> Conn \union {Free}]
  BY <1>1, ReturnToIdleType DEF Rollback
<1> QED
  BY <1>3, <1>4 DEF Rollback, TypeOK, startup, hostVars

\* usermod keeps types and call states.
LEMMA TypeUsermod ==
  ASSUME TypeOK, CallOK, NEW c \in Conn, Usermod(c)
  PROVE  TypeOK' /\ CallOK'
<1>1. UserOf(c) \in User /\ conn[c] \in CallState /\ StateOK(conn[c])
  BY UserType DEF Usermod, At, CallOK, TypeOK
<1>2. StateOK([conn[c] EXCEPT !.pc = "sudoers"])
  BY <1>1 DEF Usermod, At, StateOK, CallState
<1>3. conn' \in [Conn -> CallState] /\ CallOK'
  BY <1>2, GotoType DEF Usermod, Locked
<1>4. groups' \in [User -> Groups]
  BY <1>1 DEF Usermod, TypeOK, CallState
<1> QED
  BY <1>1, <1>3, <1>4 DEF Usermod, TypeOK, startup

\* Removing a sudoers file keeps the type of sudoers.
LEMMA RemoveSudoersType ==
  ASSUME TypeOK, NEW u \in User, RemoveSudoers(u)
  PROVE  sudoers' \in [User -> Rules]
BY PermsAssumption DEF RemoveSudoers, TypeOK

\* The sudoers step of EnsureUser keeps types and call states.
LEMMA TypeSudoers ==
  ASSUME TypeOK, CallOK, NEW c \in Conn, Sudoers(c)
  PROVE  TypeOK' /\ CallOK'
<1>1. UserOf(c) \in User /\ conn[c] \in CallState /\ StateOK(conn[c])
  BY UserType DEF Sudoers, At, CallOK, TypeOK
<1>2. sudoers' \in [User -> Rules]
  <2>1. CASE CreateSudoers(UserOf(c), conn[c].perms.rule)
    BY <1>1, <2>1 DEF CreateSudoers, TypeOK, CallState
  <2>2. CASE RemoveSudoers(UserOf(c))
    BY <1>1, <2>2, RemoveSudoersType
  <2>3. CASE UNCHANGED sudoers
    BY <2>3 DEF TypeOK
  <2> QED
    BY <2>1, <2>2, <2>3 DEF Sudoers
<1>3. /\ conn' \in [Conn -> CallState] /\ CallOK'
      /\ userLocks' \in [User -> Conn \union {Free}]
  <2>1. CASE conn[c].call = "later"
    <3>1. ReturnToSession(c) /\ StateOK([conn[c] EXCEPT !.pc = "session"])
      BY <1>1, <2>1 DEF Sudoers, At, StateOK, CallState
    <3> QED
      BY <1>1, <3>1, GotoType DEF ReturnToSession, Unlock, Unlocked, TypeOK
  <2>2. CASE conn[c].call # "later"
    <3>1. /\ Goto(c, "snapshot") /\ UNCHANGED userLocks
          /\ StateOK([conn[c] EXCEPT !.pc = "snapshot"])
      BY <1>1, <2>2 DEF Sudoers, At, StateOK, CallState
    <3> QED
      BY <3>1, GotoType DEF Locked, TypeOK
  <2> QED
    BY <2>1, <2>2
<1> QED
  BY <1>2, <1>3 DEF Sudoers, TypeOK, startup

\* The snapshot of syncStateFile keeps types and call states.
LEMMA TypeSnapshotSessions ==
  ASSUME TypeOK, CallOK, NEW c \in Conn, SnapshotSessions(c)
  PROVE  TypeOK' /\ CallOK'
<1> DEFINE snap == {u \in User : sessions[u] > 0}
           s == [conn[c] EXCEPT !.pc = "write", !.snap = snap]
<1>1. conn[c] \in CallState /\ StateOK(conn[c])
  BY DEF CallOK, TypeOK
<1>2. conn' = [conn EXCEPT ![c] = s]
  BY DEF SnapshotSessions, TypeOK
<1>3. snap \in SUBSET User
  OBVIOUS
<1> HIDE DEF snap
<1>4. s \in CallState /\ StateOK(s)
  BY <1>1, <1>3 DEF SnapshotSessions, At, StateOK, CallState, Locked
<1> QED
  BY <1>2, <1>4, CallUpdate DEF SnapshotSessions, TypeOK, startup, hostVars

\* The write of syncStateFile keeps types and call states.
LEMMA TypeSyncStateFile ==
  ASSUME TypeOK, CallOK, NEW c \in Conn, SyncStateFile(c)
  PROVE  TypeOK' /\ CallOK'
<1>1. UserOf(c) \in User /\ conn[c] \in CallState /\ StateOK(conn[c])
  BY UserType DEF SyncStateFile, At, CallOK, TypeOK
<1>2. stateFile' \in SUBSET User
  BY <1>1 DEF SyncStateFile, WriteStateFile, TypeOK, CallState
<1>3. /\ conn' \in [Conn -> CallState] /\ CallOK'
      /\ userLocks' \in [User -> Conn \union {Free}]
  <2>1. CASE conn[c].call = "first"
    <3> DEFINE s == [conn[c] EXCEPT !.pc = "session", !.snap = {}]
    <3>1. conn' = [conn EXCEPT ![c] = s] /\ Unlock(c)
      BY <2>1 DEF SyncStateFile, TypeOK
    <3>2. s \in CallState /\ StateOK(s)
      BY <1>1, <2>1 DEF SyncStateFile, At, StateOK, CallState, Unlocked
    <3> QED
      BY <1>1, <3>1, <3>2, CallUpdate DEF Unlock, TypeOK
  <2>2. CASE conn[c].call # "first"
    BY <2>2, ReturnToIdleType DEF SyncStateFile, At
  <2> QED
    BY <2>1, <2>2
<1> QED
  BY <1>2, <1>3 DEF SyncStateFile, TypeOK, startup

\* Phase 1 of ReleaseUser keeps types and call states.
LEMMA TypeReleaseUser ==
  ASSUME TypeOK, CallOK, NEW c \in Conn, ReleaseUser(c)
  PROVE  TypeOK' /\ CallOK'
<1>1. UserOf(c) \in User /\ conn[c] \in CallState /\ StateOK(conn[c])
  BY UserType DEF ReleaseUser, At, CallOK, TypeOK
<1>2. /\ sessions' \in [User -> Nat]
      /\ owners' \in [User -> Identity \union {NoId}]
  BY <1>1, UncountType DEF ReleaseUser, TypeOK
<1>3. conn' \in [Conn -> CallState] /\ CallOK'
  <2>1. PICK s : /\ conn' = [conn EXCEPT ![c] = s]
                 /\ s \in {Idle, [conn[c] EXCEPT !.pc = "lock", !.call = "release"]}
    BY DEF ReleaseUser, TypeOK
  <2>2. CASE s = Idle
    BY <2>1, <2>2, IdleType, CallUpdate DEF StateOK, Idle, TypeOK
  <2>3. CASE s = [conn[c] EXCEPT !.pc = "lock", !.call = "release"]
    <3>1. s \in CallState /\ StateOK(s)
      BY <1>1, <2>3 DEF ReleaseUser, At, StateOK, CallState, Unlocked
    <3> QED
      BY <2>1, <3>1, CallUpdate DEF TypeOK
  <2> QED
    BY <2>1, <2>2, <2>3
<1> QED
  BY <1>2, <1>3 DEF ReleaseUser, TypeOK, startup, hostVars

\* The sudoers step of ReleaseUser keeps types and call states.
LEMMA TypeReleaseSudoers ==
  ASSUME TypeOK, CallOK, NEW c \in Conn, ReleaseSudoers(c)
  PROVE  TypeOK' /\ CallOK'
<1> DEFINE l == IF cleanupOnDisconnect THEN "userdel" ELSE "snapshot"
<1>1. UserOf(c) \in User /\ conn[c] \in CallState /\ StateOK(conn[c])
  BY UserType DEF ReleaseSudoers, At, CallOK, TypeOK
<1>2. l \in Unlocked \union Locked /\ Goto(c, l) /\ StateOK([conn[c] EXCEPT !.pc = l])
  BY <1>1 DEF ReleaseSudoers, At, StateOK, CallState, Locked
<1>3. conn' \in [Conn -> CallState] /\ CallOK'
  BY <1>2, GotoType
<1>4. sudoers' \in [User -> Rules]
  BY <1>1, RemoveSudoersType DEF ReleaseSudoers
<1> QED
  BY <1>3, <1>4 DEF ReleaseSudoers, TypeOK, startup

\* Removing an account keeps the types of accounts and groups.
LEMMA RemoveAccountType ==
  ASSUME TypeOK, NEW u \in User, RemoveAccount(u) \/ UserdelFails(u)
  PROVE  accounts' \in SUBSET User /\ groups' \in [User -> Groups]
BY PermsAssumption DEF RemoveAccount, UserdelFails, TypeOK

\* userdel keeps types and call states.
LEMMA TypeUserdel ==
  ASSUME TypeOK, CallOK, NEW c \in Conn, Userdel(c)
  PROVE  TypeOK' /\ CallOK'
<1>1. UserOf(c) \in User /\ conn[c] \in CallState /\ StateOK(conn[c])
  BY UserType DEF Userdel, At, CallOK, TypeOK
<1>2. accounts' \in SUBSET User /\ groups' \in [User -> Groups]
  BY <1>1, RemoveAccountType DEF Userdel
<1>3. StateOK([conn[c] EXCEPT !.pc = "snapshot"])
  BY <1>1 DEF Userdel, At, StateOK, CallState
<1>4. /\ conn' \in [Conn -> CallState] /\ CallOK'
      /\ userLocks' \in [User -> Conn \union {Free}]
  <2>1. CASE Goto(c, "snapshot") /\ UNCHANGED userLocks
    BY <1>3, <2>1, GotoType DEF Locked, TypeOK
  <2>2. CASE ReturnToIdle(c)
    BY <2>2, ReturnToIdleType DEF Userdel, At
  <2> QED
    BY <2>1, <2>2 DEF Userdel
<1> QED
  BY <1>2, <1>4 DEF Userdel, TypeOK, startup

\* CleanupOrphans keeps types and call states.
LEMMA TypeCleanupStep ==
  ASSUME TypeOK, CallOK, CleanupStep
  PROVE  TypeOK' /\ CallOK'
<1>1. CallOK'
  BY DEF CleanupStep, StartDaemon, OrphanUserdel, FinishCleanup, OrphanSudoers, CallOK
<1>2. CASE StartDaemon
  <2>1. phase' \in {"down", "cleaning", "serving"} /\ orphans' \in SUBSET User
    BY <1>2 DEF StartDaemon, TypeOK
  <2> QED
    BY <1>1, <1>2, <2>1 DEF StartDaemon, TypeOK, hostVars
<1>3. CASE OrphanUserdel
  <2>1. orphan \in User
    BY <1>3 DEF OrphanUserdel, TypeOK
  <2>2. accounts' \in SUBSET User /\ groups' \in [User -> Groups]
    BY <1>3, <2>1, RemoveAccountType DEF OrphanUserdel
  <2> QED
    BY <1>1, <1>3, <2>1, <2>2 DEF OrphanUserdel, TypeOK
<1>4. CASE FinishCleanup
  BY <1>1, <1>4 DEF FinishCleanup, WriteStateFile, TypeOK
<1>5. CASE \E u \in User : OrphanSudoers(u)
  <2>1. PICK u \in User : OrphanSudoers(u)
    BY <1>5
  <2>2. sudoers' \in [User -> Rules]
    BY <2>1, RemoveSudoersType DEF OrphanSudoers
  <2> QED
    BY <1>1, <2>1, <2>2 DEF OrphanSudoers, TypeOK
<1> QED
  BY <1>1, <1>2, <1>3, <1>4, <1>5 DEF CleanupStep

\* A crash keeps types and call states.
LEMMA TypeCrash ==
  ASSUME TypeOK, CallOK, Crash
  PROVE  TypeOK' /\ CallOK'
BY NameAssumption, IdleType
   DEF Crash, TypeOK, CallOK, StateOK, Idle, hostVars

\* Every step keeps types and call states.
LEMMA TypeNext ==
  ASSUME TypeOK, CallOK, RefCount, [Next]_vars
  PROVE  TypeOK' /\ CallOK'
<1>1. CASE UNCHANGED vars
  BY <1>1 DEF vars, startup, hostVars, TypeOK, CallOK
<1>2. CASE \E c \in Conn, id \in Identity, p \in Perms : EnsureUser(c, id, p)
  BY <1>2, TypeEnsureUser
<1>3. CASE \E c \in Conn : LockUser(c) \/ ReleaseUser(c)
  BY <1>3, TypeLockUser, TypeReleaseUser
<1>4. CASE \E c \in Conn : CallStep(c)
  BY <1>4, TypeUseradd, TypeRollback, TypeUsermod, TypeSudoers, TypeSnapshotSessions,
     TypeSyncStateFile, TypeReleaseSudoers, TypeUserdel DEF CallStep
<1>5. CASE CleanupStep
  BY <1>5, TypeCleanupStep
<1>6. CASE Crash
  BY <1>6, TypeCrash
<1> QED
  BY <1>1, <1>2, <1>3, <1>4, <1>5, <1>6 DEF Next
-----------------------------------------------------------------------------
(* Counts and owners.  Most steps are quiet: they neither count a          *)
(* connection nor stop counting it, and leave counts and owners alone.     *)

Counts(s) == s.call \in {"first", "later"}

Quiet(c, s) ==
  /\ UNCHANGED <<sessions, owners>>
  /\ conn' = [conn EXCEPT ![c] = s]
  /\ s \in CallState
  /\ Counts(s) <=> Counted(c)
  /\ Counted(c) => s.id = conn[c].id

\* A quiet step changes the holders of no user, so it preserves both.
LEMMA QuietKeeps ==
  ASSUME TypeOK, RefCount, OneOwner, NEW c \in Conn, NEW s, Quiet(c, s)
  PROVE  /\ \A u \in User : HoldersOf(u)' = HoldersOf(u)
         /\ RefCount' /\ OneOwner'
<1>1. \A u \in User : HoldersOf(u)' = HoldersOf(u)
  <2> SUFFICES ASSUME NEW u \in User PROVE HoldersOf(u)' = HoldersOf(u)
    OBVIOUS
  <2>1. HoldersOf(u)' = (HoldersOf(u) \ {c}) \union
                        (IF Counts(s) /\ Derive[s.id] = u THEN {c} ELSE {})
    BY HoldersUpdate DEF Quiet, TypeOK, Counts
  <2> QED
    BY <2>1 DEF Quiet, HoldersOf, UserOf
<1>2. RefCount'
  BY <1>1 DEF RefCount, Quiet
<1>3. \A d \in Conn : Counted(d)' => Counted(d) /\ UserOf(d)' = UserOf(d) /\ conn'[d].id = conn[d].id
  BY DEF Quiet, Counted, Counts, UserOf, TypeOK
<1>4. OneOwner'
  BY <1>1, <1>3 DEF OneOwner, Quiet
<1> QED
  BY <1>1, <1>2, <1>4

\* Uncounting a connection takes it out of the holders of its user, and the
\* owner goes with the last of them.
LEMMA UncountKeeps ==
  ASSUME TypeOK, CallOK, RefCount, OneOwner, NEW c \in Conn, Counted(c),
         Uncount(UserOf(c)), NEW s \in CallState, ~Counts(s),
         conn' = [conn EXCEPT ![c] = s]
  PROVE  /\ \A u \in User : HoldersOf(u)' = HoldersOf(u) \ {c}
         /\ owners' = IF HoldersOf(UserOf(c)) = {c}
                      THEN [owners EXCEPT ![UserOf(c)] = NoId] ELSE owners
         /\ RefCount' /\ OneOwner'
<1> DEFINE v == UserOf(c)
<1>1. v \in User /\ c \in HoldersOf(v) /\ sessions[v] \in Nat \ {0}
  BY CountPositive
<1>2. \A u \in User : HoldersOf(u)' = HoldersOf(u) \ {c}
  <2> SUFFICES ASSUME NEW u \in User PROVE HoldersOf(u)' = HoldersOf(u) \ {c}
    OBVIOUS
  <2>1. HoldersOf(u)' = (HoldersOf(u) \ {c}) \union
                        (IF Counts(s) /\ Derive[s.id] = u THEN {c} ELSE {})
    BY HoldersUpdate DEF TypeOK, Counts
  <2> QED
    BY <2>1
<1>3. \A u \in User : u # v => c \notin HoldersOf(u)
  BY DEF HoldersOf
<1>4. /\ IsFiniteSet(HoldersOf(v))
      /\ Cardinality(HoldersOf(v)) = sessions[v]
  BY <1>1, HoldersFinite DEF RefCount
<1>5. Cardinality(HoldersOf(v) \ {c}) = sessions[v] - 1
  BY <1>1, <1>4, FS_RemoveElement
<1>6. sessions[v] = 1 <=> HoldersOf(v) = {c}
  <2>1. IsFiniteSet(HoldersOf(v) \ {c})
    BY <1>4, FS_RemoveElement
  <2>2. Cardinality(HoldersOf(v) \ {c}) = 0 <=> HoldersOf(v) \ {c} = {}
    BY <2>1, FS_EmptySet
  <2> QED
    BY <1>1, <1>5, <2>2
<1>7. RefCount'
  <2>1. sessions' = [sessions EXCEPT ![v] = @ - 1]
    BY DEF Uncount
  <2> SUFFICES ASSUME NEW u \in User
               PROVE  sessions'[u] = Cardinality(HoldersOf(u)')
    BY DEF RefCount
  <2>2. CASE u = v
    BY <1>1, <1>2, <1>5, <2>1, <2>2 DEF TypeOK
  <2>3. CASE u # v
    BY <1>2, <1>3, <2>1, <2>3 DEF TypeOK, RefCount
  <2> QED
    BY <2>2, <2>3
<1>8. owners' = IF HoldersOf(v) = {c} THEN [owners EXCEPT ![v] = NoId] ELSE owners
  BY <1>6 DEF Uncount
<1>9. OneOwner'
  <2>1. ASSUME NEW d \in Conn, Counted(d)'
        PROVE  (owners[UserOf(d)] = conn[d].id)'
    <3>1. d # c /\ conn'[d] = conn[d] /\ Counted(d) /\ UserOf(d)' = UserOf(d)
      BY <2>1 DEF Counted, Counts, TypeOK, UserOf
    <3>2. UserOf(d) # v \/ HoldersOf(v) # {c}
      BY <3>1 DEF HoldersOf
    <3>3. UserOf(d) \in User
      BY <3>1, CountPositive
    <3> QED
      BY <1>8, <3>1, <3>2, <3>3 DEF OneOwner, TypeOK
  <2>2. ASSUME NEW u \in User, owners'[u] # NoId
        PROVE  HoldersOf(u)' # {}
    <3>1. CASE u = v
      BY <1>1, <1>2, <1>8, <2>2, <3>1 DEF TypeOK
    <3>2. CASE u # v
      BY <1>2, <1>3, <1>8, <2>2, <3>2 DEF TypeOK, OneOwner
    <3> QED
      BY <3>1, <3>2
  <2> QED
    BY <2>1, <2>2 DEF OneOwner
<1> QED
  BY <1>2, <1>7, <1>8, <1>9

\* EnsureUser counts its connection under an owner no other holder disputes.
LEMMA EnsureUserKeeps ==
  ASSUME TypeOK, CallOK, RefCount, OneOwner, NEW c \in Conn,
         NEW id \in Identity, NEW p \in Perms, EnsureUser(c, id, p)
  PROVE  /\ ~Counted(c)
         /\ \A u \in User : HoldersOf(u)' =
              IF u = Derive[id] THEN HoldersOf(u) \union {c} ELSE HoldersOf(u)
         /\ owners' = [owners EXCEPT ![Derive[id]] = id]
         /\ RefCount' /\ OneOwner'
<1> DEFINE v == Derive[id]
           s == [pc |-> "lock", call |-> IF sessions[v] = 0 THEN "first" ELSE "later",
                 id |-> id, perms |-> p, snap |-> {}]
<1>1. v \in User
  BY NameAssumption
<1>2. conn' = [conn EXCEPT ![c] = s] /\ s \in CallState
  BY PermsAssumption DEF EnsureUser, CallState, Unlocked, Locked
<1>3. ~Counted(c)
  BY DEF EnsureUser, CallOK, StateOK, At, Counted
<1>4. \A u \in User : c \notin HoldersOf(u)
  BY <1>3 DEF HoldersOf
<1>5. \A u \in User : HoldersOf(u)' =
        IF u = v THEN HoldersOf(u) \union {c} ELSE HoldersOf(u)
  <2> SUFFICES ASSUME NEW u \in User
               PROVE  HoldersOf(u)' = IF u = v THEN HoldersOf(u) \union {c} ELSE HoldersOf(u)
    OBVIOUS
  <2>1. HoldersOf(u)' = (HoldersOf(u) \ {c}) \union
           (IF s.call \in {"first", "later"} /\ Derive[s.id] = u THEN {c} ELSE {})
    BY <1>2, HoldersUpdate DEF TypeOK
  <2>2. s.call \in {"first", "later"} /\ s.id = id
    OBVIOUS
  <2> HIDE DEF s
  <2> QED
    BY <1>4, <2>1, <2>2
<1>6. sessions[v] = 0 <=> HoldersOf(v) = {}
  BY <1>1, HoldersFinite, FS_EmptySet DEF RefCount
<1>7. owners' = [owners EXCEPT ![v] = id]
  <2>1. CASE sessions[v] = 0
    BY <2>1 DEF EnsureUser
  <2>2. CASE sessions[v] # 0
    <3>1. PICK d \in Conn : d \in HoldersOf(v)
      BY <1>6, <2>2 DEF HoldersOf
    <3>2. owners[v] = conn[d].id /\ conn[d].id \in Identity
      BY <3>1 DEF HoldersOf, OneOwner, CallOK, StateOK, Counted
    <3>3. owners[v] = id
      BY <3>2, NameAssumption DEF EnsureUser
    <3> QED
      BY <1>1, <2>2, <3>3 DEF EnsureUser, TypeOK
  <2> QED
    BY <2>1, <2>2
<1>8. RefCount'
  <2> SUFFICES ASSUME NEW u \in User
               PROVE  sessions'[u] = Cardinality(HoldersOf(u)')
    BY DEF RefCount
  <2>1. sessions' = [sessions EXCEPT ![v] = @ + 1]
    BY DEF EnsureUser
  <2>2. Cardinality(HoldersOf(u) \union {c}) = Cardinality(HoldersOf(u)) + 1
    BY <1>4, HoldersFinite, FS_AddElement
  <2> QED
    BY <1>5, <2>1, <2>2 DEF RefCount, TypeOK
<1>9. OneOwner'
  <2>1. ASSUME NEW d \in Conn, Counted(d)'
        PROVE  (owners[UserOf(d)] = conn[d].id)'
    <3>1. CASE d = c
      BY <1>1, <1>2, <1>7, <3>1 DEF UserOf, TypeOK
    <3>2. CASE d # c
      <4>1. conn'[d] = conn[d] /\ Counted(d) /\ UserOf(d)' = UserOf(d)
        BY <1>2, <2>1, <3>2 DEF Counted, UserOf, TypeOK
      <4>2. UserOf(d) \in User /\ owners[UserOf(d)] = conn[d].id /\ conn[d].id \in Identity
        BY <4>1, CountPositive DEF OneOwner, CallOK, StateOK, Counted
      <4>3. UserOf(d) = v => conn[d].id = id
        <5>1. owners[v] \in {NoId, id}
          BY DEF EnsureUser
        <5> QED
          BY <4>2, <5>1, NameAssumption
      <4> QED
        BY <1>1, <1>7, <4>1, <4>2, <4>3 DEF TypeOK
    <3> QED
      BY <3>1, <3>2
  <2>2. ASSUME NEW u \in User, owners'[u] # NoId
        PROVE  HoldersOf(u)' # {}
    BY <1>5, <1>7, <2>2 DEF OneOwner, TypeOK
  <2> QED
    BY <2>1, <2>2 DEF OneOwner
<1> QED
  BY <1>3, <1>5, <1>7, <1>8, <1>9

\* Moving a goroutine along changes neither holders nor counts.
LEMMA QuietGoto ==
  ASSUME TypeOK, NEW c \in Conn, NEW l \in Unlocked \union Locked, Goto(c, l),
         UNCHANGED <<sessions, owners>>
  PROVE  Quiet(c, [conn[c] EXCEPT !.pc = l])
BY DEF Goto, Quiet, Counts, Counted, TypeOK, CallState

\* The return of a goroutine that is no longer counted changes no holders.
LEMMA QuietReturnToIdle ==
  ASSUME TypeOK, NEW c \in Conn, ~Counted(c), ReturnToIdle(c),
         UNCHANGED <<sessions, owners>>
  PROVE  Quiet(c, Idle)
BY IdleType DEF ReturnToIdle, Quiet, Counts, Idle

\* Every step of a goroutine except its counting and uncounting is quiet.
LEMMA QuietSteps ==
  ASSUME TypeOK, CallOK, NEW c \in Conn, LockUser(c) \/ CallStep(c), ~Rollback(c)
  PROVE  \E s : Quiet(c, s)
<1>1. StateOK(conn[c]) /\ conn[c] \in CallState
  BY DEF TypeOK, CallOK
<1>2. CASE LockUser(c)
  <2>1. conn[c].call \in {"first", "later", "release"}
    BY <1>1, <1>2 DEF LockUser, StateOK, At, CallState
  <2>2. \E l \in Locked : Goto(c, l)
    BY <1>2, <2>1 DEF LockUser, Locked
  <2> QED
    BY <1>2, <2>2, QuietGoto DEF LockUser
<1>3. CASE Useradd(c)
  BY <1>3, QuietGoto DEF Useradd, Locked
<1>4. CASE Usermod(c)
  BY <1>4, QuietGoto DEF Usermod, Locked
<1>5. CASE Sudoers(c)
  BY <1>5, QuietGoto DEF Sudoers, ReturnToSession, Locked, Unlocked
<1>6. CASE SnapshotSessions(c)
  <2> DEFINE snap == {u \in User : sessions[u] > 0}
             s == [conn[c] EXCEPT !.pc = "write", !.snap = snap]
  <2>1. conn' = [conn EXCEPT ![c] = s] /\ UNCHANGED <<sessions, owners>>
    BY <1>6 DEF SnapshotSessions, TypeOK
  <2>2. snap \in SUBSET User
    OBVIOUS
  <2> HIDE DEF snap
  <2>3. s \in CallState /\ s.id = conn[c].id /\ s.call = conn[c].call
    BY <1>1, <2>2 DEF CallState, Locked
  <2> QED
    BY <2>1, <2>3 DEF Quiet, Counts, Counted
<1>7. CASE SyncStateFile(c)
  <2>1. CASE conn[c].call = "first"
    <3> DEFINE s == [conn[c] EXCEPT !.pc = "session", !.snap = {}]
    <3>1. conn' = [conn EXCEPT ![c] = s] /\ UNCHANGED <<sessions, owners>>
      BY <1>7, <2>1 DEF SyncStateFile, TypeOK
    <3>2. s \in CallState /\ s.id = conn[c].id /\ s.call = conn[c].call
      BY <1>1 DEF CallState, Unlocked
    <3> QED
      BY <3>1, <3>2 DEF Quiet, Counts, Counted
  <2>2. CASE conn[c].call # "first"
    BY <1>1, <1>7, <2>2, QuietReturnToIdle DEF SyncStateFile, StateOK, At, Counted
  <2> QED
    BY <2>1, <2>2
<1>8. CASE ReleaseSudoers(c)
  BY <1>8, QuietGoto DEF ReleaseSudoers, Locked
<1>9. CASE Userdel(c)
  <2>1. CASE Goto(c, "snapshot")
    BY <1>9, <2>1, QuietGoto DEF Userdel, Locked
  <2>2. CASE ReturnToIdle(c)
    BY <1>1, <1>9, <2>2, QuietReturnToIdle DEF Userdel, StateOK, At, Counted
  <2> QED
    BY <1>9, <2>1, <2>2 DEF Userdel
<1> QED
  BY <1>2, <1>3, <1>4, <1>5, <1>6, <1>7, <1>8, <1>9 DEF CallStep

\* The rollback keeps counts and owners.
LEMMA RollbackKeeps ==
  ASSUME TypeOK, CallOK, RefCount, OneOwner, NEW c \in Conn, Rollback(c)
  PROVE  /\ Counted(c)
         /\ \A u \in User : HoldersOf(u)' = HoldersOf(u) \ {c}
         /\ owners' = IF HoldersOf(UserOf(c)) = {c}
                      THEN [owners EXCEPT ![UserOf(c)] = NoId] ELSE owners
         /\ RefCount' /\ OneOwner'
<1>1. Counted(c)
  BY DEF Rollback, At, CallOK, StateOK, Counted
<1>2. ~Counts(Idle) /\ conn' = [conn EXCEPT ![c] = Idle] /\ Uncount(UserOf(c))
  BY DEF Rollback, ReturnToIdle, Counts, Idle
<1> QED
  BY <1>1, <1>2, IdleType, UncountKeeps

\* Phase 1 of ReleaseUser keeps counts and owners.
LEMMA ReleaseUserKeeps ==
  ASSUME TypeOK, CallOK, RefCount, OneOwner, NEW c \in Conn, ReleaseUser(c)
  PROVE  /\ Counted(c)
         /\ \A u \in User : HoldersOf(u)' = HoldersOf(u) \ {c}
         /\ owners' = IF HoldersOf(UserOf(c)) = {c}
                      THEN [owners EXCEPT ![UserOf(c)] = NoId] ELSE owners
         /\ RefCount' /\ OneOwner'
<1>1. Counted(c)
  BY DEF ReleaseUser, At, CallOK, StateOK, Counted
<1>2. Uncount(UserOf(c))
  BY <1>1, CountPositive DEF ReleaseUser
<1>3. PICK s : /\ conn' = [conn EXCEPT ![c] = s]
               /\ s \in {Idle, [conn[c] EXCEPT !.pc = "lock", !.call = "release"]}
  BY DEF ReleaseUser, TypeOK
<1>4. s \in CallState /\ ~Counts(s)
  <2>1. CASE s = Idle
    BY <2>1, IdleType DEF Counts, Idle
  <2>2. CASE s = [conn[c] EXCEPT !.pc = "lock", !.call = "release"]
    <3>1. conn[c] \in CallState
      BY DEF TypeOK
    <3> QED
      BY <2>2, <3>1 DEF Counts, CallState, Unlocked
  <2> QED
    BY <1>3, <2>1, <2>2
<1> QED
  BY <1>1, <1>2, <1>3, <1>4, UncountKeeps

\* A crash keeps counts and owners: nothing is counted after it.
LEMMA CrashKeeps ==
  ASSUME Crash
  PROVE  /\ \A u \in User : HoldersOf(u)' = {}
         /\ RefCount' /\ OneOwner'
<1>1. \A c \in Conn : ~Counted(c)'
  BY DEF Crash, Counted, Idle
<1>2. \A u \in User : HoldersOf(u)' = {}
  BY <1>1 DEF HoldersOf
<1> QED
  BY <1>1, <1>2, FS_EmptySet DEF Crash, RefCount, OneOwner

\* CleanupOrphans keeps counts and owners.
LEMMA CleanupKeeps ==
  ASSUME RefCount, OneOwner, CleanupStep \/ UNCHANGED vars
  PROVE  /\ \A u \in User : HoldersOf(u)' = HoldersOf(u)
         /\ UNCHANGED owners
         /\ RefCount' /\ OneOwner'
<1>1. UNCHANGED <<sessions, owners, conn>>
  BY DEF CleanupStep, StartDaemon, OrphanUserdel, FinishCleanup, OrphanSudoers, vars
<1> QED
  BY <1>1 DEF RefCount, OneOwner, HoldersOf, Counted, UserOf

\* Every step keeps counts and owners.
LEMMA CountsNext ==
  ASSUME TypeOK, CallOK, RefCount, OneOwner, [Next]_vars
  PROVE  RefCount' /\ OneOwner'
<1>1. CASE \E c \in Conn, id \in Identity, p \in Perms : EnsureUser(c, id, p)
  BY <1>1, EnsureUserKeeps
<1>2. CASE \E c \in Conn : ReleaseUser(c) \/ Rollback(c)
  BY <1>2, RollbackKeeps, ReleaseUserKeeps
<1>3. CASE \E c \in Conn : (LockUser(c) \/ CallStep(c)) /\ ~Rollback(c)
  BY <1>3, QuietSteps, QuietKeeps
<1>4. CASE Crash
  BY <1>4, CrashKeeps
<1>5. CASE CleanupStep \/ UNCHANGED vars
  BY <1>5, CleanupKeeps
<1> QED
  BY <1>1, <1>2, <1>3, <1>4, <1>5 DEF Next
-----------------------------------------------------------------------------
(* The per-user lock.                                                      *)

Holds(c) == conn[c].pc \in Locked

\* A step of c that leaves userLocks alone and c on its side of the lock.
LEMMA LockKeep ==
  ASSUME TypeOK, LockDiscipline, NEW c \in Conn, NEW s,
         conn' = [conn EXCEPT ![c] = s], UNCHANGED userLocks,
         s.pc \in Locked <=> Holds(c), Holds(c) => s.id = conn[c].id
  PROVE  LockDiscipline'
BY DEF LockDiscipline, Holds, UserOf, TypeOK

\* A step of c that drops the lock of its user.
LEMMA LockDrop ==
  ASSUME TypeOK, CallOK, LockDiscipline, NEW c \in Conn, NEW s, Holds(c),
         conn' = [conn EXCEPT ![c] = s], Unlock(c), s.pc \notin Locked
  PROVE  LockDiscipline'
<1>1. UserOf(c) \in User
  BY UserType DEF Holds, Locked, At
<1>2. \A d \in Conn : conn'[d] = IF d = c THEN s ELSE conn[d]
  BY DEF TypeOK
<1>3. \A u \in User : userLocks'[u] = IF u = UserOf(c) THEN Free ELSE userLocks[u]
  BY <1>1 DEF Unlock, TypeOK
<1>4. userLocks[UserOf(c)] = c
  BY <1>1 DEF LockDiscipline, Holds
<1> SUFFICES ASSUME NEW u \in User, NEW d \in Conn
             PROVE  (userLocks[u] = d <=> conn[d].pc \in Locked /\ UserOf(d) = u)'
  BY DEF LockDiscipline
<1>5. CASE d = c
  BY <1>2, <1>3, <1>5, ConnAssumption DEF LockDiscipline, Holds
<1>6. CASE d # c
  <2>1. (conn[d].pc \in Locked /\ UserOf(d) = u)' <=> (conn[d].pc \in Locked /\ UserOf(d) = u)
    BY <1>2, <1>6 DEF UserOf
  <2>2. userLocks[u] = d <=> conn[d].pc \in Locked /\ UserOf(d) = u
    BY DEF LockDiscipline
  <2>3. userLocks'[u] = d <=> userLocks[u] = d
    BY <1>3, <1>4, <1>6, ConnAssumption
  <2> QED
    BY <2>1, <2>2, <2>3
<1> QED
  BY <1>5, <1>6

\* A goroutine that takes a free lock and goes on to a command keeps the discipline.
LEMMA LockTake ==
  ASSUME TypeOK, CallOK, LockDiscipline, NEW c \in Conn, LockUser(c)
  PROVE  LockDiscipline'
<1>1. UserOf(c) \in User
  BY UserType DEF LockUser, At
<1>2. conn[c].call \in {"first", "later", "release"}
  BY DEF LockUser, CallOK, StateOK, At, TypeOK, CallState
<1>3. PICK l \in Locked : Goto(c, l)
  BY <1>2 DEF LockUser, Locked
<1>4. \A d \in Conn : conn'[d] = IF d = c THEN [conn[c] EXCEPT !.pc = l] ELSE conn[d]
  BY <1>3 DEF Goto, TypeOK
<1>5. conn'[c].pc \in Locked /\ UserOf(c)' = UserOf(c)
  BY <1>3, <1>4 DEF TypeOK, CallState, UserOf
<1>6. \A u \in User : userLocks'[u] = IF u = UserOf(c) THEN c ELSE userLocks[u]
  BY <1>1 DEF LockUser, TypeOK
<1> SUFFICES ASSUME NEW u \in User, NEW d \in Conn
             PROVE  (userLocks[u] = d <=> conn[d].pc \in Locked /\ UserOf(d) = u)'
  BY DEF LockDiscipline
<1>7. userLocks[u] = d <=> conn[d].pc \in Locked /\ UserOf(d) = u
  BY DEF LockDiscipline
<1>8. conn[c].pc \notin Locked /\ userLocks[UserOf(c)] = Free
  BY DEF LockUser, At, Locked
<1>9. CASE d = c
  BY <1>5, <1>6, <1>7, <1>8, <1>9
<1>10. CASE d # c
  <2>1. (conn[d].pc \in Locked /\ UserOf(d) = u)' <=> (conn[d].pc \in Locked /\ UserOf(d) = u)
    BY <1>4, <1>10 DEF UserOf
  <2>2. userLocks'[u] = d <=> userLocks[u] = d
    BY <1>6, <1>8, <1>10, ConnAssumption
  <2> QED
    BY <1>7, <2>1, <2>2
<1> QED
  BY <1>9, <1>10

\* Going from one command to the next keeps the lock discipline.
LEMMA LockGoto ==
  ASSUME TypeOK, LockDiscipline, NEW c \in Conn, NEW l \in Locked, Goto(c, l),
         UNCHANGED userLocks, Holds(c)
  PROVE  LockDiscipline'
<1> DEFINE s == [conn[c] EXCEPT !.pc = l]
<1>1. conn' = [conn EXCEPT ![c] = s] /\ s.pc \in Locked /\ s.id = conn[c].id
  BY DEF Goto, TypeOK, CallState
<1> QED
  BY <1>1, LockKeep

\* Returning with the lock dropped keeps the lock discipline.
LEMMA LockReturnToIdle ==
  ASSUME TypeOK, CallOK, LockDiscipline, NEW c \in Conn, Holds(c), ReturnToIdle(c)
  PROVE  LockDiscipline'
<1>1. Idle.pc \notin Locked
  BY DEF Idle, Locked
<1> QED
  BY <1>1, LockDrop DEF ReturnToIdle

\* Every command under the lock keeps the lock discipline.
LEMMA LockCallStep ==
  ASSUME TypeOK, CallOK, LockDiscipline, NEW c \in Conn, CallStep(c)
  PROVE  LockDiscipline'
<1>1. Holds(c)
  BY DEF CallStep, Useradd, Rollback, Usermod, Sudoers, SnapshotSessions,
         SyncStateFile, ReleaseSudoers, Userdel, At, Holds, Locked
<1>2. CASE Useradd(c) \/ Usermod(c) \/ ReleaseSudoers(c)
  <2>1. PICK l \in Locked : Goto(c, l)
    BY <1>2 DEF Useradd, Usermod, ReleaseSudoers, Locked
  <2> QED
    BY <1>1, <1>2, <2>1, LockGoto DEF Useradd, Usermod, ReleaseSudoers
<1>3. CASE Rollback(c)
  BY <1>1, <1>3, LockReturnToIdle DEF Rollback
<1>4. CASE Sudoers(c)
  <2>1. CASE ReturnToSession(c)
    <3> DEFINE s == [conn[c] EXCEPT !.pc = "session"]
    <3>1. conn' = [conn EXCEPT ![c] = s] /\ s.pc = "session" /\ Unlock(c)
      BY <2>1 DEF ReturnToSession, Goto, TypeOK, CallState
    <3>2. s.pc \notin Locked
      BY <3>1 DEF Locked
    <3> QED
      BY <1>1, <3>1, <3>2, LockDrop
  <2>2. CASE Goto(c, "snapshot") /\ UNCHANGED userLocks
    BY <1>1, <2>2, LockGoto DEF Locked
  <2> QED
    BY <1>4, <2>1, <2>2 DEF Sudoers
<1>5. CASE SnapshotSessions(c)
  <2>1. PICK snap : conn' = [conn EXCEPT ![c] = [conn[c] EXCEPT !.pc = "write", !.snap = snap]]
    BY <1>5 DEF SnapshotSessions, TypeOK
  <2> DEFINE s == [conn[c] EXCEPT !.pc = "write", !.snap = snap]
  <2>2. s.pc \in Locked /\ s.id = conn[c].id
    BY DEF TypeOK, CallState, Locked
  <2> QED
    BY <1>1, <1>5, <2>1, <2>2, LockKeep DEF SnapshotSessions
<1>6. CASE SyncStateFile(c)
  <2>1. CASE conn[c].call = "first"
    <3> DEFINE s == [conn[c] EXCEPT !.pc = "session", !.snap = {}]
    <3>1. conn' = [conn EXCEPT ![c] = s] /\ s.pc = "session" /\ Unlock(c)
      BY <1>6, <2>1 DEF SyncStateFile, TypeOK, CallState
    <3>2. s.pc \notin Locked
      BY <3>1 DEF Locked
    <3> QED
      BY <1>1, <3>1, <3>2, LockDrop
  <2>2. CASE conn[c].call # "first"
    BY <1>1, <1>6, <2>2, LockReturnToIdle DEF SyncStateFile
  <2> QED
    BY <2>1, <2>2
<1>7. CASE Userdel(c)
  <2>1. CASE Goto(c, "snapshot") /\ UNCHANGED userLocks
    BY <1>1, <2>1, LockGoto DEF Locked
  <2>2. CASE ReturnToIdle(c)
    BY <1>1, <2>2, LockReturnToIdle
  <2> QED
    BY <1>7, <2>1, <2>2 DEF Userdel
<1> QED
  BY <1>2, <1>3, <1>4, <1>5, <1>6, <1>7 DEF CallStep

\* Every step keeps the lock discipline.
LEMMA LockNext ==
  ASSUME TypeOK, CallOK, LockDiscipline, [Next]_vars
  PROVE  LockDiscipline'
<1>1. CASE UNCHANGED vars \/ CleanupStep
  <2>1. UNCHANGED <<userLocks, conn>>
    BY <1>1 DEF CleanupStep, StartDaemon, OrphanUserdel, FinishCleanup, OrphanSudoers, vars
  <2> QED
    BY <2>1 DEF LockDiscipline, UserOf
<1>2. ASSUME NEW c \in Conn, NEW id \in Identity, NEW p \in Perms, EnsureUser(c, id, p)
      PROVE  LockDiscipline'
  <2> DEFINE s == [pc |-> "lock",
                   call |-> IF sessions[Derive[id]] = 0 THEN "first" ELSE "later",
                   id |-> id, perms |-> p, snap |-> {}]
  <2>1. conn' = [conn EXCEPT ![c] = s] /\ UNCHANGED userLocks /\ conn[c].pc = "idle"
    BY <1>2 DEF EnsureUser, At
  <2>2. s.pc \notin Locked /\ ~Holds(c)
    BY <2>1 DEF Holds, Locked
  <2> QED
    BY <2>1, <2>2, LockKeep
<1>3. ASSUME NEW c \in Conn, ReleaseUser(c)
      PROVE  LockDiscipline'
  <2> DEFINE gone == [conn[c] EXCEPT !.pc = "lock", !.call = "release"]
  <2>1. /\ conn' = [conn EXCEPT ![c] = gone] \/ conn' = [conn EXCEPT ![c] = Idle]
        /\ UNCHANGED userLocks /\ conn[c].pc = "session"
    BY <1>3 DEF ReleaseUser, At, TypeOK
  <2>2. gone.pc = "lock"
    BY DEF TypeOK, CallState
  <2>3. gone.pc \notin Locked /\ Idle.pc \notin Locked /\ ~Holds(c)
    BY <2>1, <2>2 DEF Holds, Locked, Idle
  <2> QED
    BY <2>1, <2>3, LockKeep
<1>4. CASE Crash
  BY <1>4, ConnAssumption DEF Crash, LockDiscipline, Idle, Locked
<1> QED
  BY <1>1, <1>2, <1>3, <1>4, LockTake, LockCallStep DEF Next
-----------------------------------------------------------------------------
(* The inductive invariant, and what follows from it.                      *)

\* The daemon starts with no session, no lock and no goroutine in a call.
LEMMA IInvInit == Init => IInv
<1> SUFFICES ASSUME Init PROVE IInv
  OBVIOUS
<1>1. TypeOK /\ CallOK
  BY TypeInit
<1>2. \A c \in Conn : ~Counted(c) /\ conn[c].pc \notin Locked
  BY DEF Init, Idle, Counted, Locked
<1>3. \A u \in User : HoldersOf(u) = {}
  BY <1>2 DEF HoldersOf
<1>4. RefCount
  BY <1>3, FS_EmptySet DEF Init, RefCount
<1>5. OneOwner
  BY <1>2 DEF Init, OneOwner
<1>6. LockDiscipline
  BY <1>2, ConnAssumption DEF Init, LockDiscipline
<1> QED
  BY <1>1, <1>4, <1>5, <1>6 DEF IInv

\* Every step of the daemon, a crash included, preserves the invariant.
LEMMA IInvNext == IInv /\ [Next]_vars => IInv'
BY TypeNext, CountsNext, LockNext DEF IInv

\* IInv holds in every reachable state.
THEOREM Invariance == Spec => []IInv
<1> QED
  BY IInvInit, IInvNext, PTL DEF Spec

\* Every variable keeps its type, with any permissions and any failures.
THEOREM TypeCorrect == Spec => []TypeOK
<1>1. IInv => TypeOK
  BY DEF IInv
<1> QED
  BY <1>1, Invariance, PTL

\* m.sessions counts exactly the connections between EnsureUser's increment
\* and their release or rollback.
THEOREM RefCountCorrect == Spec => []RefCount
<1>1. IInv => RefCount
  BY DEF IInv
<1> QED
  BY <1>1, Invariance, PTL

\* The connections counted under one user name all act for one identity, the
\* recorded owner, who is forgotten with the last of them.
THEOREM OneOwnerCorrect == Spec => []OneOwner
<1>1. IInv => OneOwner
  BY DEF IInv
<1> QED
  BY <1>1, Invariance, PTL

\* The per-user lock is held by precisely the goroutine that runs commands
\* for that user, on every error path too.
THEOREM LockDisciplineCorrect == Spec => []LockDiscipline
<1>1. IInv => LockDiscipline
  BY DEF IInv
<1> QED
  BY <1>1, Invariance, PTL
-----------------------------------------------------------------------------
(* The refinement of AccountLease.                                         *)

\* No holders and no owners at the start.
LEMMA LeaseInit == Init => Lease!Init
<1> SUFFICES ASSUME Init PROVE Lease!Init
  OBVIOUS
<1>1. \A c \in Conn : ~Counted(c)
  BY DEF Init, Idle, Counted
<1>2. \A u \in User : HoldersOf(u) = {}
  BY <1>1 DEF HoldersOf
<1> QED
  BY <1>2 DEF Init, Lease!Init

\* Every step of the daemon leases a name, gives one back, ends all leases, or
\* changes no lease.
LEMMA LeaseNext == IInv /\ [Next]_vars => [Lease!Next]_(Lease!leaseVars)
<1> SUFFICES ASSUME IInv, [Next]_vars
             PROVE  [Lease!Next]_(Lease!leaseVars)
  OBVIOUS
<1> USE DEF IInv
<1>1. ASSUME NEW c \in Conn, NEW id \in Identity, NEW p \in Perms, EnsureUser(c, id, p)
      PROVE  Lease!Lease(c, id)
  <2>1. /\ ~Counted(c)
        /\ \A u \in User : HoldersOf(u)' =
             IF u = Derive[id] THEN HoldersOf(u) \union {c} ELSE HoldersOf(u)
        /\ owners' = [owners EXCEPT ![Derive[id]] = id]
    BY <1>1, EnsureUserKeeps
  <2>2. \A u \in User : c \notin HoldersOf(u)
    BY <2>1 DEF HoldersOf
  <2>3. owners[Derive[id]] \in {NoId, id}
    BY <1>1 DEF EnsureUser
  <2> QED
    BY <2>1, <2>2, <2>3, NameAssumption DEF Lease!Lease
<1>2. ASSUME NEW c \in Conn, Counted(c),
             \A u \in User : HoldersOf(u)' = HoldersOf(u) \ {c},
             owners' = IF HoldersOf(UserOf(c)) = {c}
                       THEN [owners EXCEPT ![UserOf(c)] = NoId] ELSE owners
      PROVE  \E u \in User : Lease!GiveBack(c, u)
  <2>1. UserOf(c) \in User /\ c \in HoldersOf(UserOf(c))
    BY <1>2, CountPositive
  <2>2. \A u \in User : u # UserOf(c) => HoldersOf(u)' = HoldersOf(u)
    BY <1>2 DEF HoldersOf
  <2>3. Lease!GiveBack(c, UserOf(c))
    BY <1>2, <2>1, <2>2 DEF Lease!GiveBack
  <2> QED
    BY <2>1, <2>3
<1>3. ASSUME \A u \in User : HoldersOf(u)' = HoldersOf(u), UNCHANGED owners
      PROVE  UNCHANGED Lease!leaseVars
  BY <1>3 DEF Lease!leaseVars
<1>4. CASE \E c \in Conn, id \in Identity, p \in Perms : EnsureUser(c, id, p)
  BY <1>1, <1>4 DEF Lease!Next
<1>5. CASE \E c \in Conn : ReleaseUser(c) \/ Rollback(c)
  <2>1. \E c \in Conn, u \in User : Lease!GiveBack(c, u)
    BY <1>2, <1>5, ReleaseUserKeeps, RollbackKeeps
  <2> QED
    BY <2>1 DEF Lease!Next
<1>6. CASE \E c \in Conn : (LockUser(c) \/ CallStep(c)) /\ ~Rollback(c)
  <2>1. PICK c \in Conn : (LockUser(c) \/ CallStep(c)) /\ ~Rollback(c)
    BY <1>6
  <2>2. PICK s : Quiet(c, s)
    BY <2>1, QuietSteps
  <2>3. (\A u \in User : HoldersOf(u)' = HoldersOf(u)) /\ UNCHANGED owners
    BY <2>2, QuietKeeps DEF Quiet
  <2> QED
    BY <1>3, <2>3
<1>7. CASE Crash
  <2>1. \A u \in User : HoldersOf(u)' = {}
    BY <1>7, CrashKeeps
  <2> QED
    BY <1>7, <2>1 DEF Crash, Lease!Next, Lease!EndAll
<1>8. CASE CleanupStep \/ UNCHANGED vars
  BY <1>3, <1>8, CleanupKeeps
<1> QED
  BY <1>4, <1>5, <1>6, <1>7, <1>8 DEF Next

\* The counts, owner records, locks and failures of UserManager implement the
\* leases of AccountLease.
THEOREM LeaseImplemented == Spec => LeaseRefinement
<1> QED
  BY LeaseInit, LeaseNext, Invariance, PTL DEF Spec, LeaseRefinement, Lease!Spec
-----------------------------------------------------------------------------
(* What a step of a goroutine does to the host.                            *)

\* A step of one goroutine, as opposed to those of CleanupOrphans.
GoroutineStep(c) ==
  \/ \E id \in Identity, p \in Perms : EnsureUser(c, id, p)
  \/ LockUser(c) \/ CallStep(c) \/ ReleaseUser(c)

\* A step moves its own goroutine, which keeps its user and permissions during a call.
LEMMA StepMoves ==
  ASSUME TypeOK, CallOK, NEW c \in Conn, GoroutineStep(c)
  PROVE  \E s \in CallState :
           /\ conn' = [conn EXCEPT ![c] = s]
           /\ ~At(c, "idle") /\ s.pc # "idle" => s.id = conn[c].id /\ s.perms = conn[c].perms
<1> DEFINE Moved(s) == /\ conn' = [conn EXCEPT ![c] = s]
                       /\ ~At(c, "idle") /\ s.pc # "idle" => s.id = conn[c].id /\ s.perms = conn[c].perms
<1> SUFFICES \E s \in CallState : Moved(s)
  OBVIOUS
<1>1. conn[c] \in CallState /\ StateOK(conn[c])
  BY DEF TypeOK, CallOK
<1>2. ASSUME NEW l \in Unlocked \union Locked, Goto(c, l)
      PROVE  \E s \in CallState : Moved(s)
  <2> DEFINE s == [conn[c] EXCEPT !.pc = l]
  <2>1. s \in CallState /\ s.id = conn[c].id /\ s.perms = conn[c].perms
    BY <1>1 DEF CallState
  <2>2. conn' = [conn EXCEPT ![c] = s]
    BY <1>2 DEF Goto, TypeOK
  <2> QED
    BY <2>1, <2>2
<1>3. ASSUME conn' = [conn EXCEPT ![c] = Idle]
      PROVE  \E s \in CallState : Moved(s)
  <2>1. Idle.pc = "idle"
    BY DEF Idle
  <2> QED
    BY <1>3, <2>1, IdleType
<1>4. ASSUME NEW id \in Identity, NEW p \in Perms, EnsureUser(c, id, p)
      PROVE  \E s \in CallState : Moved(s)
  <2> DEFINE call == IF sessions[Derive[id]] = 0 THEN "first" ELSE "later"
             s == [pc |-> "lock", call |-> call, id |-> id, perms |-> p, snap |-> {}]
  <2>1. conn' = [conn EXCEPT ![c] = s] /\ At(c, "idle")
    BY <1>4 DEF EnsureUser
  <2>2. call \in {"first", "later"}
    OBVIOUS
  <2> HIDE DEF call
  <2>3. s \in CallState
    BY <2>2, PermsAssumption DEF CallState, Unlocked
  <2> QED
    BY <2>1, <2>3
<1>5. CASE LockUser(c)
  <2>1. conn[c].call \in {"first", "later", "release"}
    BY <1>1, <1>5 DEF LockUser, StateOK, At, CallState
  <2>2. \E l \in Locked : Goto(c, l)
    BY <1>5, <2>1 DEF LockUser, Locked
  <2> QED
    BY <1>2, <2>2
<1>6. CASE Useradd(c) \/ Usermod(c) \/ ReleaseSudoers(c)
  <2>1. \E l \in Locked : Goto(c, l)
    BY <1>6 DEF Useradd, Usermod, ReleaseSudoers, Locked
  <2> QED
    BY <1>2, <2>1
<1>7. CASE Rollback(c)
  BY <1>3, <1>7 DEF Rollback, ReturnToIdle
<1>8. CASE Sudoers(c)
  <2>1. Goto(c, "session") \/ Goto(c, "snapshot")
    BY <1>8 DEF Sudoers, ReturnToSession
  <2> QED
    BY <1>2, <2>1 DEF Locked, Unlocked
<1>9. CASE SnapshotSessions(c)
  <2> DEFINE snap == {u \in User : sessions[u] > 0}
             s == [conn[c] EXCEPT !.pc = "write", !.snap = snap]
  <2>1. conn' = [conn EXCEPT ![c] = s]
    BY <1>9 DEF SnapshotSessions, TypeOK
  <2>2. snap \in SUBSET User
    OBVIOUS
  <2> HIDE DEF snap
  <2>3. s \in CallState /\ s.id = conn[c].id /\ s.perms = conn[c].perms
    BY <1>1, <2>2 DEF CallState, Locked
  <2> QED
    BY <2>1, <2>3
<1>10. CASE SyncStateFile(c)
  <2> DEFINE s == [conn[c] EXCEPT !.pc = "session", !.snap = {}]
  <2>1. conn' = [conn EXCEPT ![c] = s] \/ conn' = [conn EXCEPT ![c] = Idle]
    BY <1>10 DEF SyncStateFile, ReturnToIdle, TypeOK
  <2>2. s \in CallState /\ s.id = conn[c].id /\ s.perms = conn[c].perms
    BY <1>1 DEF CallState, Unlocked
  <2> QED
    BY <1>3, <2>1, <2>2
<1>11. CASE Userdel(c)
  <2>1. Goto(c, "snapshot") \/ conn' = [conn EXCEPT ![c] = Idle]
    BY <1>11 DEF Userdel, ReturnToIdle
  <2> QED
    BY <1>2, <1>3, <2>1 DEF Locked
<1>12. CASE ReleaseUser(c)
  <2> DEFINE s == [conn[c] EXCEPT !.pc = "lock", !.call = "release"]
  <2>1. conn' = [conn EXCEPT ![c] = s] \/ conn' = [conn EXCEPT ![c] = Idle]
    BY <1>12 DEF ReleaseUser, TypeOK
  <2>2. s \in CallState /\ s.id = conn[c].id /\ s.perms = conn[c].perms
    BY <1>1 DEF CallState, Unlocked
  <2> QED
    BY <1>3, <2>1, <2>2
<1> QED
  BY <1>4, <1>5, <1>6, <1>7, <1>8, <1>9, <1>10, <1>11, <1>12 DEF GoroutineStep, CallStep

\* Where each action leaves its goroutine.
LEMMA StepLabels ==
  ASSUME TypeOK, CallOK, NEW c \in Conn, GoroutineStep(c)
  PROVE  /\ conn'[c].pc = "sudoers" => Usermod(c)
         /\ conn'[c].pc = "rollback" => Useradd(c)
         /\ conn'[c].pc = "userdel" => ReleaseSudoers(c)
         /\ conn'[c].pc = "snapshot" => Sudoers(c) \/ ReleaseSudoers(c) \/ Userdel(c)
         /\ conn'[c].pc = "write" => SnapshotSessions(c)
         /\ conn'[c].pc = "session" => Sudoers(c) \/ SyncStateFile(c)
         /\ conn'[c].pc = "idle" => Rollback(c) \/ SyncStateFile(c) \/ Userdel(c) \/ ReleaseUser(c)
<1>1. conn \in [Conn -> CallState] /\ conn[c] \in CallState /\ StateOK(conn[c])
  BY DEF TypeOK, CallOK
<1>2. \A l : Goto(c, l) => conn'[c].pc = l
  BY <1>1 DEF Goto, CallState
<1>3. conn' = [conn EXCEPT ![c] = Idle] => conn'[c].pc = "idle"
  BY <1>1 DEF Idle
<1>4. (\E id \in Identity, p \in Perms : EnsureUser(c, id, p)) => conn'[c].pc = "lock"
  BY <1>1 DEF EnsureUser
<1>5. LockUser(c) => conn'[c].pc \in {"useradd", "usermod", "rmsudoers"}
  BY <1>1, <1>2 DEF LockUser, StateOK, CallState, At
<1>6. /\ Useradd(c) => conn'[c].pc \in {"usermod", "rollback"}
      /\ Rollback(c) => conn'[c].pc = "idle"
      /\ Usermod(c) => conn'[c].pc = "sudoers"
      /\ Sudoers(c) => conn'[c].pc \in {"session", "snapshot"}
      /\ ReleaseSudoers(c) => conn'[c].pc \in {"userdel", "snapshot"}
      /\ Userdel(c) => conn'[c].pc \in {"snapshot", "idle"}
  BY <1>2, <1>3 DEF Useradd, Rollback, Usermod, Sudoers, ReleaseSudoers, Userdel,
     ReturnToSession, ReturnToIdle
<1>7. SnapshotSessions(c) => conn'[c].pc = "write"
  BY <1>1 DEF SnapshotSessions, CallState
<1>8. SyncStateFile(c) => conn'[c].pc \in {"session", "idle"}
  BY <1>1, <1>3 DEF SyncStateFile, ReturnToIdle, CallState
<1>9. ReleaseUser(c) => conn'[c].pc \in {"lock", "idle"}
  BY <1>1, <1>3 DEF ReleaseUser, CallState
<1> QED
  BY <1>4, <1>5, <1>6, <1>7, <1>8, <1>9 DEF GoroutineStep, CallStep

\* A goroutine changes what is on the host for its own user only, and for that
\* one only under the lock.
LEMMA StepTouches ==
  ASSUME TypeOK, CallOK, NEW c \in Conn, GoroutineStep(c), NEW u \in User,
         Holds(c) => UserOf(c) # u
  PROVE  /\ u \in accounts' <=> u \in accounts
         /\ groups'[u] = groups[u]
         /\ sudoers'[u] = sudoers[u]
<1>1. CASE (\E id \in Identity, p \in Perms : EnsureUser(c, id, p)) \/ LockUser(c) \/ ReleaseUser(c)
           \/ Rollback(c) \/ SnapshotSessions(c) \/ SyncStateFile(c)
  BY <1>1 DEF EnsureUser, LockUser, ReleaseUser, Rollback, SnapshotSessions, SyncStateFile, hostVars
<1>2. CASE Useradd(c) \/ Usermod(c) \/ Sudoers(c) \/ ReleaseSudoers(c) \/ Userdel(c)
  <2>1. Holds(c)
    BY <1>2 DEF Useradd, Usermod, Sudoers, ReleaseSudoers, Userdel, Holds, At, Locked
  <2>2. UserOf(c) # u /\ UserOf(c) \in User
    BY <2>1, UserType DEF Holds, Locked, At
  <2>3. CASE Useradd(c) \/ Usermod(c)
    BY <2>2, <2>3 DEF Useradd, Usermod, TypeOK
  <2>4. CASE Sudoers(c) \/ ReleaseSudoers(c)
    BY <2>2, <2>4 DEF Sudoers, ReleaseSudoers, CreateSudoers, RemoveSudoers, TypeOK
  <2>5. CASE Userdel(c)
    BY <2>2, <2>5 DEF Userdel, RemoveAccount, UserdelFails, TypeOK
  <2> QED
    BY <1>2, <2>3, <2>4, <2>5
<1> QED
  BY <1>1, <1>2 DEF GoroutineStep, CallStep

\* While a goroutine holds the lock of its user no other changes what is there.
LEMMA LockProtects ==
  ASSUME IInv, NEW c \in Conn, GoroutineStep(c), NEW d \in Conn, d # c, Holds(d)
  PROVE  /\ conn'[d] = conn[d]
         /\ UserOf(d) \in User
         /\ UserOf(d) \in accounts' <=> UserOf(d) \in accounts
         /\ groups'[UserOf(d)] = groups[UserOf(d)]
         /\ sudoers'[UserOf(d)] = sudoers[UserOf(d)]
<1>1. conn'[d] = conn[d]
  BY StepMoves DEF IInv, TypeOK
<1>2. UserOf(d) \in User
  BY UserType DEF IInv, Holds, Locked, At
<1>3. Holds(c) => UserOf(c) # UserOf(d)
  BY <1>2 DEF IInv, LockDiscipline, Holds
<1> QED
  BY <1>1, <1>2, <1>3, StepTouches DEF IInv
-----------------------------------------------------------------------------
(* Startup, and what it may not forget.                                    *)

\* No goroutine is in a call before CleanupOrphans has returned.
CallsWhileServing == phase # "serving" => \A c \in Conn : At(c, "idle")

\* A listed account is still to be removed, being removed, or kept for later.
OrphansListed ==
  phase = "cleaning" /\ cleanupOnDisconnect =>
    stateFile \intersect accounts \subseteq orphans \union {orphan} \union remaining

StartInv == CallsWhileServing /\ OrphansListed

\* A goroutine in a call is one of a daemon that serves.
LEMMA StepWhileServing ==
  ASSUME IInv, CallsWhileServing, NEW c \in Conn, GoroutineStep(c)
  PROVE  phase = "serving" /\ UNCHANGED startup
<1>1. UNCHANGED startup
  BY DEF GoroutineStep, CallStep, EnsureUser, LockUser, ReleaseUser, Useradd, Rollback, Usermod,
     Sudoers, SnapshotSessions, SyncStateFile, ReleaseSudoers, Userdel
<1>2. CASE \E id \in Identity, p \in Perms : EnsureUser(c, id, p)
  BY <1>1, <1>2 DEF EnsureUser
<1>3. CASE LockUser(c) \/ CallStep(c) \/ ReleaseUser(c)
  <2>1. ~At(c, "idle")
    BY <1>3 DEF CallStep, LockUser, ReleaseUser, Useradd, Rollback, Usermod,
       Sudoers, SnapshotSessions, SyncStateFile, ReleaseSudoers, Userdel, At
  <2> QED
    BY <1>1, <2>1 DEF CallsWhileServing
<1> QED
  BY <1>2, <1>3 DEF GoroutineStep

\* The steps of the daemon: of a goroutine, of CleanupOrphans, or its end.
LEMMA NextSteps ==
  [Next]_vars => \/ \E c \in Conn : GoroutineStep(c)
                 \/ CleanupStep \/ Crash \/ UNCHANGED vars
BY DEF Next, GoroutineStep

\* A startup begins with nothing to clean up.
LEMMA StartInit == Init => StartInv
BY DEF Init, StartInv, CallsWhileServing, OrphansListed, At, Idle

\* CleanupOrphans drops a line only with its account, or into remaining.
LEMMA StartNext ==
  ASSUME IInv, StartInv, [Next]_vars
  PROVE  StartInv'
<1>1. ASSUME NEW c \in Conn, GoroutineStep(c)
      PROVE  StartInv'
  BY <1>1, StepWhileServing DEF StartInv, CallsWhileServing, OrphansListed, startup
<1>2. CASE Crash
  BY <1>2 DEF Crash, StartInv, CallsWhileServing, OrphansListed, At, Idle
<1>3. CASE UNCHANGED vars
  BY <1>3 DEF vars, startup, hostVars, StartInv, CallsWhileServing, OrphansListed, At
<1>4. CASE StartDaemon
  BY <1>4 DEF StartDaemon, StartInv, CallsWhileServing, OrphansListed, At, hostVars
<1>5. CASE \E u \in User : OrphanSudoers(u)
  BY <1>5, NameAssumption DEF OrphanSudoers, StartInv, CallsWhileServing, OrphansListed, At, IInv, TypeOK
<1>6. CASE OrphanUserdel
  <2>1. /\ UNCHANGED <<phase, conn, cleanupOnDisconnect, stateFile, orphans>>
        /\ remaining \subseteq remaining'
        /\ accounts' = accounts \ {orphan} \/ (accounts' = accounts /\ orphan \in remaining')
    BY <1>6 DEF OrphanUserdel, RemoveAccount, UserdelFails
  <2>2. CallsWhileServing'
    BY <2>1 DEF StartInv, CallsWhileServing, At
  <2>3. OrphansListed'
    BY <2>1 DEF StartInv, OrphansListed
  <2> QED
    BY <2>2, <2>3 DEF StartInv
<1>7. CASE FinishCleanup
  BY <1>7 DEF FinishCleanup, StartInv, CallsWhileServing, OrphansListed
<1> QED
  BY <1>1, <1>2, <1>3, <1>4, <1>5, <1>6, <1>7, NextSteps DEF CleanupStep

\* Whatever fails, a startup that could write the state file leaves a file that
\* lists every account it failed to remove (CleanupOrphans).
THEOREM CleanupKeepsFailuresCorrect == Spec => CleanupKeepsFailures
<1>1. ASSUME IInv, StartInv, [Next]_vars, phase = "cleaning", phase' = "serving", cleanupOnDisconnect
      PROVE  stateFile \intersect accounts \subseteq stateFile'
  <2>1. FinishCleanup
    BY <1>1, NextSteps, StepWhileServing DEF CleanupStep, StartDaemon, OrphanSudoers, OrphanUserdel,
       Crash, vars, startup, StartInv
  <2>2. stateFile \intersect accounts \subseteq {NoUser} \union remaining
    BY <1>1, <2>1 DEF StartInv, OrphansListed, FinishCleanup
  <2>3. stateFile \subseteq User
    BY <1>1 DEF IInv, TypeOK
  <2> QED
    BY <2>1, <2>2, <2>3, NameAssumption DEF FinishCleanup, WriteStateFile
<1>2. IInv /\ StartInv /\ [Next]_vars =>
        [phase = "cleaning" /\ phase' = "serving" /\ cleanupOnDisconnect =>
           stateFile \intersect accounts \subseteq stateFile']_vars
  BY <1>1
<1> QED
  BY <1>2, StartInit, StartNext, Invariance, PTL DEF Spec, CleanupKeepsFailures
-----------------------------------------------------------------------------
(* A later session's permissions.                                          *)

\* What usermod has set stays until the sudoers step is done.
GroupsApplied ==
  \A c \in Conn : At(c, "sudoers") /\ UserOf(c) \in accounts
                   => groups[UserOf(c)] = conn[c].perms.groups

\* Nobody else touches the groups of a user while his lock is held.
LEMMA GroupsAppliedNext ==
  ASSUME "usermod" \notin MayFail, IInv, StartInv, GroupsApplied, [Next]_vars
  PROVE  GroupsApplied'
<1>1. ASSUME NEW c \in Conn, GoroutineStep(c), NEW d \in Conn, At(d, "sudoers")',
             UserOf(d)' \in accounts'
      PROVE  groups'[UserOf(d)'] = conn'[d].perms.groups
  <2>1. CASE d # c
    <3>1. conn'[d] = conn[d]
      BY <1>1, <2>1, StepMoves DEF IInv, TypeOK
    <3>2. At(d, "sudoers") /\ Holds(d) /\ UserOf(d)' = UserOf(d)
      BY <1>1, <3>1 DEF At, Holds, Locked, UserOf
    <3> QED
      BY <1>1, <2>1, <3>1, <3>2, LockProtects DEF GroupsApplied
  <2>2. CASE d = c
    <3>1. Usermod(c)
      BY <1>1, <2>2, StepLabels DEF At, IInv
    <3>2. UserOf(c)' = UserOf(c) /\ conn'[c].perms = conn[c].perms /\ UserOf(c) \in User
      BY <1>1, <3>1, StepMoves, UserType DEF Usermod, IInv, At, TypeOK, CallState, UserOf, Goto
    <3> QED
      BY <1>1, <2>2, <3>1, <3>2 DEF Usermod, Fails, IInv, TypeOK
  <2> QED
    BY <2>1, <2>2
<1>2. CASE CleanupStep \/ Crash
  <2>1. \A d \in Conn : At(d, "idle")'
    BY <1>2 DEF CleanupStep, Crash, StartDaemon, OrphanSudoers, OrphanUserdel, FinishCleanup,
       StartInv, CallsWhileServing, At, Idle
  <2> QED
    BY <2>1 DEF GroupsApplied, At
<1>3. CASE UNCHANGED vars
  BY <1>3 DEF vars, hostVars, GroupsApplied, At, UserOf
<1> QED
  BY <1>1, <1>2, <1>3, NextSteps DEF GroupsApplied

\* If usermod, visudo and the removal of sudoers files do not fail, EnsureUser
\* leaves a later session's own permissions on the host, whoever else is served
\* meanwhile, and also over crashes, failing useradds and userdels.
THEOREM LaterSessionGetsItsPermsCorrect ==
  ASSUME {"usermod", "visudo", "rmsudoers"} \intersect MayFail = {}
  PROVE  Spec => LaterSessionGetsItsPerms
<1>1. Init => GroupsApplied
  BY DEF Init, GroupsApplied, At, Idle
<1>2. ASSUME IInv, StartInv, GroupsApplied, [Next]_vars,
             NEW c \in Conn, EnsureReturns(c), conn[c].call = "later"
      PROVE  /\ UserOf(c) \in accounts' => groups'[UserOf(c)] = conn[c].perms.groups
             /\ sudoers'[UserOf(c)] = conn[c].perms.rule
  <2>1. PICK d \in Conn : GoroutineStep(d)
    BY <1>2, NextSteps DEF EnsureReturns, CleanupStep, Crash, StartDaemon, OrphanSudoers,
       OrphanUserdel, FinishCleanup, Idle, vars
  <2>2. d = c
    BY <1>2, <2>1, StepMoves DEF EnsureReturns, IInv, TypeOK
  <2>3. Sudoers(c)
    BY <1>2, <2>1, <2>2, StepLabels DEF EnsureReturns, IInv, CallOK, StateOK, SyncStateFile, At
  <2>4. UserOf(c) \in User /\ conn[c].perms.rule \in Rules
    BY <2>3, <1>2, UserType DEF Sudoers, At, IInv, TypeOK, CallState
  <2>5. UNCHANGED <<accounts, groups>>
    BY <2>3 DEF Sudoers
  <2>6. sudoers' = [sudoers EXCEPT ![UserOf(c)] = conn[c].perms.rule]
    BY <1>2, <2>3 DEF Sudoers, CreateSudoers, RemoveSudoers, Fails
  <2> QED
    BY <1>2, <2>3, <2>4, <2>5, <2>6 DEF GroupsApplied, Sudoers, IInv, TypeOK
<1>3. IInv /\ StartInv /\ GroupsApplied /\ [Next]_vars =>
        [\A c \in Conn : EnsureReturns(c) /\ conn[c].call = "later" =>
           /\ UserOf(c) \in accounts' => groups'[UserOf(c)] = conn[c].perms.groups
           /\ sudoers'[UserOf(c)] = conn[c].perms.rule]_vars
  BY <1>2
<1>4. IInv /\ StartInv /\ GroupsApplied /\ [Next]_vars => GroupsApplied'
  BY GroupsAppliedNext
<1> QED
  BY <1>1, <1>3, <1>4, StartInit, StartNext, Invariance, PTL
     DEF Spec, LaterSessionGetsItsPerms
-----------------------------------------------------------------------------
(* Nothing outlives the sessions that need it, if removals succeed.        *)

\* Nothing that takes back what was done fails, nor useradd, whose rollback leaves
\* the sudoers file of an earlier session.
Undoes == {"useradd", "rmsudoers", "userdel", "crash"} \intersect MayFail = {}

\* A goroutine acts for the user.
InUse(u) == \E c \in Conn : ~At(c, "idle") /\ UserOf(c) = u

\* What the last session of a user has removed stays away while it holds the lock.
Removed ==
  \A c \in Conn : conn[c].call = "release" =>
    /\ conn[c].pc \in {"userdel", "snapshot", "write"} => sudoers[UserOf(c)] = NoRule
    /\ conn[c].pc \in {"snapshot", "write"} /\ cleanupOnDisconnect => UserOf(c) \notin accounts

\* An account the daemon made is there for a goroutine that acts for its user.
AccountsOnlyWhileUsed ==
  cleanupOnDisconnect => \A u \in accounts \ Preexisting : InUse(u)

\* With SudoersOnlyWhileUsed, inductive.
LeaveInv ==
  /\ phase = "down" => accounts = Preexisting
  /\ \A c \in Conn : ~At(c, "rollback")
  /\ Removed
  /\ SudoersOnlyWhileUsed
  /\ AccountsOnlyWhileUsed

\* There is nothing to leave behind.
LEMMA LeaveInit == Init => LeaveInv
BY DEF Init, LeaveInv, Removed, SudoersOnlyWhileUsed, AccountsOnlyWhileUsed, Idle, At

\* A release goes on from command to command, and nobody else undoes its work.
LEMMA RemovedStep ==
  ASSUME Undoes, IInv, LeaveInv, NEW c \in Conn, GoroutineStep(c), UNCHANGED cleanupOnDisconnect
  PROVE  Removed'
<1> SUFFICES ASSUME NEW d \in Conn, conn'[d].call = "release",
                    conn'[d].pc \in {"userdel", "snapshot", "write"}
             PROVE  /\ sudoers'[UserOf(d)'] = NoRule
                    /\ conn'[d].pc # "userdel" /\ cleanupOnDisconnect => UserOf(d)' \notin accounts'
  BY DEF Removed
<1>1. CASE d # c
  <2>1. conn'[d] = conn[d]
    BY <1>1, StepMoves DEF IInv, TypeOK
  <2>2. Holds(d) /\ UserOf(d)' = UserOf(d)
    BY <2>1 DEF Holds, Locked, UserOf
  <2> QED
    BY <1>1, <2>1, <2>2, LockProtects DEF LeaveInv, Removed
<1>2. CASE d = c
  <2>1. Sudoers(c) \/ ReleaseSudoers(c) \/ Userdel(c) \/ SnapshotSessions(c)
    BY <1>2, StepLabels DEF IInv
  <2>2. ~At(c, "idle")
    BY <2>1 DEF Sudoers, ReleaseSudoers, Userdel, SnapshotSessions, At
  <2>3. UserOf(c)' = UserOf(c) /\ UserOf(c) \in User
    BY <1>2, <2>2, StepMoves, UserType DEF IInv, TypeOK, UserOf
  <2>4. conn[c].call = "release"
    BY <1>2, <2>1 DEF Sudoers, ReleaseSudoers, Userdel, SnapshotSessions, Goto, ReturnToSession,
       ReturnToIdle, IInv, TypeOK, CallState, Idle
  <2>5. CASE Sudoers(c)
    BY <2>4, <2>5 DEF Sudoers, At, IInv, CallOK, StateOK
  <2>6. CASE ReleaseSudoers(c)
    <3>1. sudoers'[UserOf(c)] = NoRule
      BY <2>3, <2>6 DEF ReleaseSudoers, RemoveSudoers, Fails, Undoes, IInv, TypeOK
    <3>2. cleanupOnDisconnect => conn'[c].pc = "userdel"
      BY <2>6 DEF ReleaseSudoers, Goto, IInv, TypeOK, CallState
    <3> QED
      BY <1>2, <2>3, <3>1, <3>2
  <2>7. CASE Userdel(c)
    <3>1. sudoers'[UserOf(c)] = NoRule
      BY <2>4, <2>7 DEF Userdel, At, LeaveInv, Removed
    <3>2. UserOf(c) \notin accounts'
      BY <2>7 DEF Userdel, RemoveAccount, UserdelFails, Fails, Undoes
    <3> QED
      BY <1>2, <2>3, <3>1, <3>2
  <2>8. CASE SnapshotSessions(c)
    BY <1>2, <2>3, <2>4, <2>8 DEF SnapshotSessions, At, LeaveInv, Removed, hostVars
  <2> QED
    BY <2>1, <2>5, <2>6, <2>7, <2>8
<1> QED
  BY <1>1, <1>2

\* A goroutine that has ended leaves its user to another one, or nothing for him.
LEMMA EndLeavesNothing ==
  ASSUME Undoes, IInv, LeaveInv, NEW c \in Conn, GoroutineStep(c), ~At(c, "idle"), At(c, "idle")',
         \A d \in Conn \ {c} : ~At(d, "idle") => UserOf(d) # UserOf(c)
  PROVE  /\ sudoers'[UserOf(c)] = NoRule
         /\ cleanupOnDisconnect => UserOf(c) \notin accounts'
<1>1. SyncStateFile(c) \/ Userdel(c) \/ ReleaseUser(c)
  BY StepLabels DEF At, IInv, LeaveInv, Rollback
<1>2. StateOK(conn[c]) /\ conn[c] \in CallState
  BY DEF IInv, CallOK, TypeOK
<1>3. CASE SyncStateFile(c)
  <2>1. conn[c].call = "release"
    BY <1>2, <1>3 DEF SyncStateFile, At, StateOK, IInv, TypeOK, CallState
  <2> QED
    BY <1>3, <2>1 DEF SyncStateFile, At, LeaveInv, Removed
<1>4. CASE Userdel(c)
  <2>1. conn[c].call = "release"
    BY <1>2, <1>4 DEF Userdel, At, StateOK
  <2>2. UserOf(c) \notin accounts'
    BY <1>4 DEF Userdel, RemoveAccount, UserdelFails, Fails, Undoes
  <2> QED
    BY <1>4, <2>1, <2>2 DEF Userdel, At, LeaveInv, Removed
<1>5. CASE ReleaseUser(c)
  <2>1. Counted(c)
    BY <1>2, <1>5 DEF ReleaseUser, At, StateOK, Counted
  <2>2. UserOf(c) \in User /\ c \in HoldersOf(UserOf(c)) /\ sessions[UserOf(c)] \in Nat \ {0}
    BY <2>1, CountPositive DEF IInv
  <2>3. sessions[UserOf(c)] # 1
    BY <1>5 DEF ReleaseUser, At, IInv, TypeOK, CallState
  <2>4. HoldersOf(UserOf(c)) # {c}
    BY <2>2, <2>3, FS_Singleton DEF IInv, RefCount
  <2>5. PICK d \in Conn \ {c} : Counted(d) /\ UserOf(d) = UserOf(c)
    BY <2>2, <2>4 DEF HoldersOf
  <2>6. ~At(d, "idle")
    BY <2>5 DEF IInv, CallOK, StateOK, Counted, At
  <2> QED
    BY <2>5, <2>6
<1> QED
  BY <1>1, <1>3, <1>4, <1>5

\* A user stays in use as long as one of his goroutines has not ended.
LEMMA InUseStep ==
  ASSUME IInv, NEW c \in Conn, GoroutineStep(c), NEW u \in User, InUse(u)
  PROVE  \/ InUse(u)'
         \/ /\ ~At(c, "idle") /\ At(c, "idle")' /\ UserOf(c) = u
            /\ \A d \in Conn \ {c} : ~At(d, "idle") => UserOf(d) # u
<1>1. PICK s \in CallState : /\ conn' = [conn EXCEPT ![c] = s]
                             /\ ~At(c, "idle") /\ s.pc # "idle" => s.id = conn[c].id
  BY StepMoves DEF IInv
<1>2. \A d \in Conn : conn'[d] = IF d = c THEN s ELSE conn[d]
  BY <1>1 DEF IInv, TypeOK
<1>3. CASE \E d \in Conn \ {c} : ~At(d, "idle") /\ UserOf(d) = u
  BY <1>2, <1>3 DEF InUse, At, UserOf
<1>4. CASE ~At(c, "idle") /\ UserOf(c) = u
  BY <1>1, <1>2, <1>3, <1>4 DEF InUse, At, UserOf
<1> QED
  BY <1>3, <1>4 DEF InUse

\* Every goroutine's step.
LEMMA LeaveStep ==
  ASSUME Undoes, IInv, StartInv, LeaveInv, NEW c \in Conn, GoroutineStep(c)
  PROVE  LeaveInv'
<1>1. phase = "serving" /\ UNCHANGED <<phase, cleanupOnDisconnect>>
  BY StepWhileServing DEF StartInv, startup
<1>2. Removed'
  BY <1>1, RemovedStep
<1>3. ASSUME NEW d \in Conn, At(d, "rollback")'
      PROVE  FALSE
  <2>1. CASE d # c
    BY <1>3, <2>1, StepMoves DEF IInv, TypeOK, At, LeaveInv
  <2>2. CASE d = c
    <3>1. Useradd(c)
      BY <1>3, <2>2, StepLabels DEF At, IInv
    <3> QED
      BY <1>3, <2>2, <3>1 DEF Useradd, Fails, Undoes, Goto, At, IInv, TypeOK, CallState
  <2> QED
    BY <2>1, <2>2
<1>4. ASSUME Holds(c)
      PROVE  UserOf(c) \in User /\ ~At(c, "idle")
  BY <1>4, UserType DEF Holds, Locked, At, IInv
<1>5. ASSUME NEW u \in User, sudoers'[u] # NoRule
      PROVE  InUse(u)'
  <2>1. CASE sudoers[u] # NoRule
    <3>1. InUse(u)
      BY <2>1 DEF LeaveInv, SudoersOnlyWhileUsed, InUse
    <3> QED
      BY <1>5, <3>1, InUseStep, EndLeavesNothing
  <2>2. CASE sudoers[u] = NoRule
    <3>1. Holds(c) /\ UserOf(c) = u
      BY <1>5, <2>2, StepTouches DEF IInv
    <3>2. InUse(u)
      BY <1>4, <3>1 DEF InUse
    <3> QED
      BY <1>5, <3>2, InUseStep, EndLeavesNothing
  <2> QED
    BY <2>1, <2>2
<1>6. ASSUME cleanupOnDisconnect, NEW u \in accounts' \ Preexisting
      PROVE  InUse(u)'
  <2>1. u \in User
    <3>1. Next
      BY DEF Next, GoroutineStep
    <3> QED
      BY <1>6, <3>1, IInvNext DEF IInv, TypeOK
  <2>2. CASE u \in accounts
    <3>1. InUse(u)
      BY <1>6, <2>2 DEF LeaveInv, AccountsOnlyWhileUsed
    <3> QED
      BY <1>6, <2>1, <3>1, InUseStep, EndLeavesNothing
  <2>3. CASE u \notin accounts
    <3>1. Holds(c) /\ UserOf(c) = u
      BY <1>6, <2>1, <2>3, StepTouches DEF IInv
    <3>2. InUse(u)
      BY <1>4, <3>1 DEF InUse
    <3> QED
      BY <1>6, <2>1, <3>2, InUseStep, EndLeavesNothing
  <2> QED
    BY <2>2, <2>3
<1> QED
  BY <1>1, <1>2, <1>3, <1>5, <1>6 DEF LeaveInv, SudoersOnlyWhileUsed, AccountsOnlyWhileUsed, InUse

\* CleanupOrphans only removes, and every other step is quiet here.
LEMMA LeaveNext ==
  ASSUME Undoes, IInv, StartInv, LeaveInv, [Next]_vars
  PROVE  LeaveInv'
<1>1. ASSUME NEW c \in Conn, GoroutineStep(c)
      PROVE  LeaveInv'
  BY <1>1, LeaveStep
<1>2. CASE CleanupStep
  <2>1. /\ UNCHANGED conn
        /\ phase # "serving" /\ phase' # "down"
        /\ phase = "down" \/ (UNCHANGED cleanupOnDisconnect /\ accounts' \subseteq accounts)
        /\ phase = "down" => accounts' = accounts
    BY <1>2 DEF CleanupStep, StartDaemon, OrphanSudoers, OrphanUserdel, FinishCleanup,
       RemoveAccount, UserdelFails, hostVars
  <2>2. \A c \in Conn : At(c, "idle") /\ At(c, "idle")'
    BY <2>1 DEF StartInv, CallsWhileServing, At
  <2>3. \A u \in User : sudoers[u] = NoRule
    BY <2>2 DEF LeaveInv, SudoersOnlyWhileUsed
  <2>4. \A u \in User : sudoers'[u] = NoRule
    BY <1>2, <2>3 DEF CleanupStep, StartDaemon, OrphanSudoers, OrphanUserdel, FinishCleanup,
       RemoveSudoers, hostVars, IInv, TypeOK
  <2>5. AccountsOnlyWhileUsed'
    <3>1. CASE phase = "down"
      BY <2>1, <3>1 DEF LeaveInv, AccountsOnlyWhileUsed
    <3>2. CASE phase # "down"
      BY <2>1, <2>2, <3>2 DEF LeaveInv, AccountsOnlyWhileUsed, InUse
    <3> QED
      BY <3>1, <3>2
  <2>6. Removed'
    BY <2>1, <2>2 DEF Removed, At
  <2> QED
    BY <2>1, <2>2, <2>4, <2>5, <2>6 DEF LeaveInv, SudoersOnlyWhileUsed, At
<1>3. ~Crash
  BY DEF Crash, Fails, Undoes
<1>4. CASE UNCHANGED vars
  BY <1>4 DEF vars, startup, hostVars, LeaveInv, Removed, SudoersOnlyWhileUsed,
     AccountsOnlyWhileUsed, InUse, At, UserOf
<1> QED
  BY <1>1, <1>2, <1>3, <1>4, NextSteps

\* If useradd and the removals do not fail, and the daemon does not die, no account
\* and no sudoers file outlives the sessions of its user, in any order of the calls
\* of EnsureUser and ReleaseUser.
THEOREM HostMatchesSessionsCorrect ==
  ASSUME {"useradd", "rmsudoers", "userdel", "crash"} \intersect MayFail = {}
  PROVE  Spec => []HostMatchesSessions
<1>1. IInv /\ StartInv /\ LeaveInv /\ [Next]_vars => LeaveInv'
  BY LeaveNext DEF Undoes
<1>2. LeaveInv => HostMatchesSessions
  BY DEF LeaveInv, HostMatchesSessions, NothingLeftBehind, SudoersOnlyWhileUsed,
     AccountsOnlyWhileUsed, InUse
<1> QED
  BY <1>1, <1>2, LeaveInit, StartInit, StartNext, Invariance, PTL DEF Spec
=============================================================================
