---------------------------- MODULE UserManager ----------------------------
(***************************************************************************)
(* host.UserManager: the reference-counted Linux accounts that             *)
(* ziti-ssh-host creates for the Ziti identities connected to it in        *)
(* per-identity mode, with the crash recovery of CleanupOrphans.           *)
(*                                                                         *)
(* Each element of Conn is a proxyConn goroutine.  It calls EnsureUser,    *)
(* serves one SSH session and calls ReleaseUser, then stands for the next  *)
(* connection.  A section of code under the global lock m.mu never blocks  *)
(* and is one action; the per-user lock is held across operating system    *)
(* commands, so every command under it is an action of its own.            *)
(*                                                                         *)
(* sessions[u] = 0 and owners[u] = NoId stand for absent map entries.      *)
(***************************************************************************)
EXTENDS Naturals, FiniteSets

CONSTANTS
  Conn,                 \* connection goroutines alive at one time
  Identity,             \* Ziti identities that may dial
  User,                 \* Linux user names
  Derive,               \* ca.DeriveUsername: not injective
  Groups, NoGroups,     \* supplementary group lists, and the empty list
  Rules, NoRule,        \* sudoers rules, and no rule
  Perms,                \* permissions the configuration may resolve to
  NoId, NoUser, Free,   \* an absent identity, user, lock holder
  Preexisting,          \* accounts on the host before the daemon first ran
  MayFail               \* which commands may fail, "crash" included

ASSUME ConnAssumption == IsFiniteSet(Conn) /\ Free \notin Conn
ASSUME NameAssumption ==
  /\ NoId \notin Identity
  /\ NoUser \notin User
  /\ Derive \in [Identity -> User]
  /\ Preexisting \subseteq User
ASSUME PermsAssumption ==
  /\ NoGroups \in Groups
  /\ NoRule \in Rules
  /\ Perms \subseteq [groups: Groups, rule: Rules]
ASSUME FailureAssumption ==
  MayFail \subseteq {"useradd", "usermod", "visudo", "rmsudoers",
                     "userdel", "state", "read", "crash"}

VARIABLES
  \* memory of the daemon
  sessions,   \* user -> number of sessions
  owners,     \* user -> identity holding it
  userLocks,  \* user -> connection holding the per-user lock
  conn,       \* connection -> where its goroutine is, and its locals
  phase,      \* "down", "cleaning" (in CleanupOrphans) or "serving"
  cleanupOnDisconnect,  \* delete the account with the last session?
  orphans,    \* lines of the state file CleanupOrphans has yet to read
  orphan,     \* the user CleanupOrphans is deleting
  remaining,  \* users CleanupOrphans could not delete
  \* the host, which survives a crash of the daemon
  accounts,   \* entries of /etc/passwd
  groups,     \* user -> supplementary groups
  sudoers,    \* user -> rule in /etc/sudoers.d/<user>
  stateFile   \* names in the managed-users file

startup == <<phase, cleanupOnDisconnect, orphans, orphan, remaining>>
hostVars == <<accounts, groups, sudoers, stateFile>>
vars == <<sessions, owners, userLocks, conn, startup, hostVars>>

Fails(op) == op \in MayFail
-----------------------------------------------------------------------------
(* A goroutine's position.  Its call is "first" or "later" while it runs   *)
(* EnsureUser and during the session, "release" from the moment            *)
(* ReleaseUser finds that it must take the account down.                   *)

Unlocked == {"idle", "lock", "session"}
Locked == {"useradd", "rollback", "usermod", "sudoers",
           "snapshot", "write", "rmsudoers", "userdel"}

Idle == [pc |-> "idle", call |-> "none", id |-> NoId,
         perms |-> [groups |-> NoGroups, rule |-> NoRule], snap |-> {}]

UserOf(c) == Derive[conn[c].id]

\* c is one of the sessions counted under its user name.
Counted(c) == conn[c].call \in {"first", "later"}

HoldersOf(u) == {c \in Conn : Counted(c) /\ UserOf(c) = u}

At(c, label) == conn[c].pc = label
Goto(c, label) == conn' = [conn EXCEPT ![c].pc = label]
Unlock(c) == userLocks' = [userLocks EXCEPT ![UserOf(c)] = Free]

\* sessions[u]-- under m.mu, with the owner forgotten at zero.
UncountKeepsOwner(u) ==  \* mutant: delete(m.owners, u) left out
  sessions' = [sessions EXCEPT ![u] = @ - 1] /\ UNCHANGED owners
UncountFreesOwner(u) ==  \* mutant: delete(m.owners, u) outside the if
  /\ sessions' = [sessions EXCEPT ![u] = @ - 1]
  /\ owners' = [owners EXCEPT ![u] = NoId]
Uncount(u) ==
  /\ sessions' = [sessions EXCEPT ![u] = @ - 1]
  /\ owners' = IF sessions[u] = 1 THEN [owners EXCEPT ![u] = NoId] ELSE owners

\* EnsureUser returns nil, or ReleaseUser returns, dropping the user lock.
ReturnToSession(c) == Goto(c, "session") /\ Unlock(c)
ReturnToIdleLocked(c) ==  \* mutant: an early return that skips ul.Unlock()
  conn' = [conn EXCEPT ![c] = Idle] /\ UNCHANGED userLocks
ReturnToIdle(c) == conn' = [conn EXCEPT ![c] = Idle] /\ Unlock(c)
-----------------------------------------------------------------------------
(* EnsureUser.                                                             *)

\* Phase 1, under m.mu.  A user name owned by another identity is refused
\* and the connection closed, which leaves everything as it was.
EnsureUser(c, id, p) ==
  LET u == Derive[id]
      isFirst == sessions[u] = 0
  IN  /\ phase = "serving"
      /\ At(c, "idle")
      /\ owners[u] \in {NoId, id}
      /\ sessions' = [sessions EXCEPT ![u] = @ + 1]
      /\ owners' = IF isFirst THEN [owners EXCEPT ![u] = id] ELSE owners
      /\ conn' = [conn EXCEPT ![c] =
                    [pc |-> "lock", call |-> IF isFirst THEN "first" ELSE "later",
                     id |-> id, perms |-> p, snap |-> {}]]
      /\ UNCHANGED <<userLocks, startup, hostVars>>

\* ul.Lock(), taken after m.mu is dropped and so in any order.
LockUserShared(c) ==  \* mutant: commands run without waiting for the lock
  /\ At(c, "lock")
  /\ userLocks' = [userLocks EXCEPT ![UserOf(c)] = c]
  /\ Goto(c, CASE conn[c].call = "first"   -> "useradd"
               [] conn[c].call = "later"   -> "usermod"
               [] conn[c].call = "release" -> "rmsudoers")
  /\ UNCHANGED <<sessions, owners, startup, hostVars>>
LockUser(c) ==
  /\ At(c, "lock")
  /\ userLocks[UserOf(c)] = Free
  /\ userLocks' = [userLocks EXCEPT ![UserOf(c)] = c]
  /\ Goto(c, CASE conn[c].call = "first"   -> "useradd"
               [] conn[c].call = "later"   -> "usermod"
               [] conn[c].call = "release" -> "rmsudoers")
  /\ UNCHANGED <<sessions, owners, startup, hostVars>>

\* Exit 9, the account exists, counts as success.
Useradd(c) ==
  /\ At(c, "useradd")
  /\ \/ accounts' = accounts \union {UserOf(c)} /\ Goto(c, "usermod")
     \/ Fails("useradd") /\ Goto(c, "rollback") /\ UNCHANGED accounts
  /\ UNCHANGED <<sessions, owners, userLocks, startup, groups, sudoers, stateFile>>

\* useradd failed: under m.mu again, undo phase 1 and return the error.
RollbackFallsThrough(c) ==  \* mutant: no return after the rollback
  /\ At(c, "rollback")
  /\ Uncount(UserOf(c))
  /\ Goto(c, "usermod")
  /\ UNCHANGED <<userLocks, startup, hostVars>>
Rollback(c) ==
  /\ At(c, "rollback")
  /\ Uncount(UserOf(c))
  /\ ReturnToIdle(c)
  /\ UNCHANGED <<startup, hostVars>>

\* usermod -G replaces the whole list; its failure is only logged.
Usermod(c) ==
  /\ At(c, "usermod")
  /\ \/ /\ UserOf(c) \in accounts
        /\ groups' = [groups EXCEPT ![UserOf(c)] = conn[c].perms.groups]
     \/ /\ Fails("usermod") \/ UserOf(c) \notin accounts
        /\ UNCHANGED groups
  /\ Goto(c, "sudoers")
  /\ UNCHANGED <<sessions, owners, userLocks, startup, accounts, sudoers, stateFile>>

\* removeSudoers: a missing file is no error, a failure is only logged.
TruncateSudoers(u) ==  \* mutant: the file is emptied, not removed
  sudoers' = [sudoers EXCEPT ![u] = ""]
RemoveSudoers(u) ==
  \/ sudoers' = [sudoers EXCEPT ![u] = NoRule]
  \/ Fails("rmsudoers") /\ UNCHANGED sudoers

\* createSudoers installs the file by a rename once visudo accepts it.
CreateSudoers(u, rule) ==
  \/ sudoers' = [sudoers EXCEPT ![u] = rule]
  \/ Fails("visudo") /\ UNCHANGED sudoers

\* Only a later session removes the file when it has no rule of its own.
Sudoers(c) ==
  LET rule == conn[c].perms.rule
      later == conn[c].call = "later"
  IN  /\ At(c, "sudoers")
      /\ \/ rule # NoRule /\ CreateSudoers(UserOf(c), rule)
         \/ rule = NoRule /\ later /\ RemoveSudoers(UserOf(c))
         \/ rule = NoRule /\ ~later /\ UNCHANGED sudoers
      /\ IF later THEN ReturnToSession(c)
                  ELSE Goto(c, "snapshot") /\ UNCHANGED userLocks
      /\ UNCHANGED <<sessions, owners, startup, accounts, groups, stateFile>>
-----------------------------------------------------------------------------
(* syncStateFile: the users are collected under m.mu, the file is replaced *)
(* after m.mu is dropped.                                                  *)

SnapshotSessions(c) ==
  /\ At(c, "snapshot")
  /\ conn' = [conn EXCEPT ![c].pc = "write",
                          ![c].snap = {u \in User : sessions[u] > 0}]
  /\ UNCHANGED <<sessions, owners, userLocks, startup, hostVars>>

\* writeStateFile replaces the whole file by a rename, or fails and leaves it.
WriteStateFile(lines) ==
  \/ stateFile' = lines
  \/ Fails("state") /\ UNCHANGED stateFile

\* The last thing EnsureUser and ReleaseUser do; a failure is only logged.
SyncStateFile(c) ==
  /\ At(c, "write")
  /\ WriteStateFile(conn[c].snap)
  /\ IF conn[c].call = "first"
     THEN /\ conn' = [conn EXCEPT ![c].pc = "session", ![c].snap = {}]
          /\ Unlock(c)
     ELSE ReturnToIdle(c)
  /\ UNCHANGED <<sessions, owners, startup, accounts, groups, sudoers>>
-----------------------------------------------------------------------------
(* ReleaseUser, called by OnDisconnect when proxyConn returns.             *)

\* Phase 1, under m.mu.  A count of zero is reported and changes nothing.
ReleaseUser(c) ==
  LET u == UserOf(c)
      last == sessions[u] = 1
  IN  /\ At(c, "session")
      /\ IF sessions[u] > 0 THEN Uncount(u) ELSE UNCHANGED <<sessions, owners>>
      /\ conn' = IF last THEN [conn EXCEPT ![c].pc = "lock", ![c].call = "release"]
                         ELSE [conn EXCEPT ![c] = Idle]
      /\ UNCHANGED <<userLocks, startup, hostVars>>

\* deleteUser, or the path with cleanup disabled, starts with the sudoers file.
ReleaseSudoersIgnoresFlag(c) ==  \* mutant: the account is kept regardless
  /\ At(c, "rmsudoers")
  /\ RemoveSudoers(UserOf(c))
  /\ Goto(c, "snapshot")
  /\ UNCHANGED <<sessions, owners, userLocks, startup, accounts, groups, stateFile>>
ReleaseSudoers(c) ==
  /\ At(c, "rmsudoers")
  /\ RemoveSudoers(UserOf(c))
  /\ Goto(c, IF cleanupOnDisconnect THEN "userdel" ELSE "snapshot")
  /\ UNCHANGED <<sessions, owners, userLocks, startup, accounts, groups, stateFile>>

\* userdel -r removes the account and, with it, its group memberships.
RemoveAccount(u) ==
  /\ accounts' = accounts \ {u}
  /\ groups' = [groups EXCEPT ![u] = NoGroups]

\* A userdel that exits non-zero: the account does not exist, it still has
\* processes, or it is gone but its home could not be removed.
UserdelFails(u) ==
  /\ Fails("userdel") \/ u \notin accounts
  /\ RemoveAccount(u) \/ UNCHANGED <<accounts, groups>>

\* On an error ReleaseUser returns at once, leaving the state file alone.
Userdel(c) ==
  /\ At(c, "userdel")
  /\ \/ /\ UserOf(c) \in accounts
        /\ RemoveAccount(UserOf(c))
        /\ Goto(c, "snapshot")
        /\ UNCHANGED userLocks
     \/ UserdelFails(UserOf(c)) /\ ReturnToIdle(c)
  /\ UNCHANGED <<sessions, owners, startup, sudoers, stateFile>>
-----------------------------------------------------------------------------
(* CleanupOrphans runs at startup, before any connection is accepted.      *)

\* The environment says whether accounts are deleted, at each start anew; if
\* not, every line of the state file is skipped.  An unreadable file is logged
\* by the caller, which goes on to serve.
StartDaemon ==
  /\ phase = "down"
  /\ cleanupOnDisconnect' \in BOOLEAN
  /\ \/ /\ phase' = "cleaning"
        /\ orphans' = IF cleanupOnDisconnect' THEN stateFile ELSE {}
     \/ Fails("read") /\ phase' = "serving" /\ UNCHANGED orphans
  /\ UNCHANGED <<sessions, owners, userLocks, conn, orphan, remaining, hostVars>>

OrphanSudoers(u) ==
  /\ phase = "cleaning"
  /\ orphan = NoUser
  /\ u \in orphans
  /\ orphan' = u
  /\ orphans' = orphans \ {u}
  /\ RemoveSudoers(u)
  /\ UNCHANGED <<sessions, owners, userLocks, conn, phase, cleanupOnDisconnect,
                 remaining, accounts, groups, stateFile>>

OrphanUserdelForgets ==  \* mutant: remaining never appended to
  /\ phase = "cleaning"
  /\ orphan # NoUser
  /\ \/ orphan \in accounts /\ RemoveAccount(orphan)
     \/ UserdelFails(orphan)
  /\ orphan' = NoUser
  /\ UNCHANGED <<sessions, owners, userLocks, conn, phase, cleanupOnDisconnect,
                 orphans, remaining, sudoers, stateFile>>
OrphanUserdel ==
  /\ phase = "cleaning"
  /\ orphan # NoUser
  /\ \/ orphan \in accounts /\ RemoveAccount(orphan) /\ UNCHANGED remaining
     \/ UserdelFails(orphan) /\ remaining' = remaining \union {orphan}
  /\ orphan' = NoUser
  /\ UNCHANGED <<sessions, owners, userLocks, conn, phase, cleanupOnDisconnect,
                 orphans, sudoers, stateFile>>

FinishCleanup ==
  /\ phase = "cleaning"
  /\ orphans = {} /\ orphan = NoUser
  /\ WriteStateFile(remaining)
  /\ phase' = "serving"
  /\ UNCHANGED <<sessions, owners, userLocks, conn, cleanupOnDisconnect, orphans,
                 orphan, remaining, accounts, groups, sudoers>>

\* The process ends at any point: killed, or out of its drain timeout.
Crash ==
  /\ Fails("crash")
  /\ phase # "down"
  /\ phase' = "down"
  /\ sessions' = [u \in User |-> 0]
  /\ owners' = [u \in User |-> NoId]
  /\ userLocks' = [u \in User |-> Free]
  /\ conn' = [c \in Conn |-> Idle]
  /\ orphans' = {} /\ orphan' = NoUser /\ remaining' = {}
  /\ UNCHANGED <<cleanupOnDisconnect, hostVars>>
-----------------------------------------------------------------------------
Init ==
  /\ sessions = [u \in User |-> 0]
  /\ owners = [u \in User |-> NoId]
  /\ userLocks = [u \in User |-> Free]
  /\ conn = [c \in Conn |-> Idle]
  /\ phase = "down"
  /\ cleanupOnDisconnect = FALSE
  /\ orphans = {} /\ orphan = NoUser /\ remaining = {}
  /\ accounts = Preexisting
  /\ groups = [u \in User |-> NoGroups]
  /\ sudoers = [u \in User |-> NoRule]
  /\ stateFile = {}

\* The steps a goroutine takes by itself once it has been called.
CallStep(c) ==
  \/ Useradd(c) \/ Rollback(c) \/ Usermod(c) \/ Sudoers(c)
  \/ SnapshotSessions(c) \/ SyncStateFile(c)
  \/ ReleaseSudoers(c) \/ Userdel(c)

CleanupStep ==
  \/ StartDaemon \/ OrphanUserdel \/ FinishCleanup
  \/ \E u \in User : OrphanSudoers(u)

Next ==
  \/ \E c \in Conn :
       \/ \E id \in Identity, p \in Perms : EnsureUser(c, id, p)
       \/ LockUser(c) \/ CallStep(c) \/ ReleaseUser(c)
  \/ CleanupStep
  \/ Crash

Spec == Init /\ [][Next]_vars
-----------------------------------------------------------------------------
(* Fairness: a goroutine that can take its next step takes it (commands    *)
(* and file operations end), sync.Mutex hands a lock to every waiter in    *)
(* the end (its starvation mode), and CleanupOrphans runs on.  Nothing     *)
(* makes a client connect or disconnect, or the daemon crash.              *)

Fairness ==
  /\ \A c \in Conn : WF_vars(CallStep(c)) /\ SF_vars(LockUser(c))
  /\ WF_vars(CleanupStep)

FairSpec == Spec /\ Fairness
-----------------------------------------------------------------------------
(* Properties.                                                             *)

CallState ==
  [pc: Unlocked \union Locked, call: {"none", "first", "later", "release"},
   id: Identity \union {NoId}, perms: [groups: Groups, rule: Rules],
   snap: SUBSET User]

\* Every variable has its type.
TypeOK ==
  /\ sessions \in [User -> Nat]
  /\ owners \in [User -> Identity \union {NoId}]
  /\ userLocks \in [User -> Conn \union {Free}]
  /\ conn \in [Conn -> CallState]
  /\ phase \in {"down", "cleaning", "serving"}
  /\ cleanupOnDisconnect \in BOOLEAN
  /\ orphans \in SUBSET User
  /\ orphan \in User \union {NoUser}
  /\ remaining \in SUBSET User
  /\ accounts \in SUBSET User
  /\ groups \in [User -> Groups]
  /\ sudoers \in [User -> Rules]
  /\ stateFile \in SUBSET User

\* m.sessions counts exactly the connections between EnsureUser's increment
\* and their release or rollback, whatever fails on the way: the count can
\* neither leak nor reach zero under a live session ("session accounting bug").
RefCount == \A u \in User : sessions[u] = Cardinality(HoldersOf(u))

\* All connections counted under a user name act for the identity recorded in
\* m.owners, and no identity is recorded once the last of them is gone: no
\* identity inherits, or is locked out of, another one's account.
OneOwner ==
  /\ \A c \in Conn : Counted(c) => owners[UserOf(c)] = conn[c].id
  /\ \A u \in User : owners[u] # NoId => HoldersOf(u) # {}

\* The per-user lock is held by precisely the goroutine running commands for
\* that user: two never touch one account together and no path keeps the lock.
LockDiscipline ==
  \A u \in User, c \in Conn :
    userLocks[u] = c <=> conn[c].pc \in Locked /\ UserOf(c) = u

\* When no connection is left and no removal failed, none of the accounts and
\* sudoers files the daemon made is left either, in whatever order concurrent
\* calls of EnsureUser and ReleaseUser took the lock.
NothingLeftBehind ==
  (phase = "serving" /\ \A c \in Conn : At(c, "idle")) =>
    /\ cleanupOnDisconnect => accounts \subseteq Preexisting
    /\ \A u \in User : sudoers[u] = NoRule

\* A sudoers file outlives the sessions of its user no longer than it takes
\* the last ReleaseUser to run, also when accounts are kept.
SudoersOnlyWhileUsed ==
  \A u \in User : sudoers[u] # NoRule =>
    \E c \in Conn : ~At(c, "idle") /\ UserOf(c) = u

\* While removals succeed, what the daemon put on the host is what its
\* sessions need: nothing of it outlives them, in any order of their calls.
HostMatchesSessions == NothingLeftBehind /\ SudoersOnlyWhileUsed

EnsureReturns(c) == conn[c].pc # "session" /\ conn'[c].pc = "session"

\* What a later session's EnsureUser leaves on the host is its own configured
\* permissions: nothing another goroutine did since its usermod shows through.
LaterSessionGetsItsPerms ==
  [][\A c \in Conn : EnsureReturns(c) /\ conn[c].call = "later" =>
       /\ UserOf(c) \in accounts' => groups'[UserOf(c)] = conn[c].perms.groups
       /\ sudoers'[UserOf(c)] = conn[c].perms.rule]_vars

\* A startup that could write the state file never forgets a listed account
\* it failed to remove: the file it leaves lists every one that still exists.
CleanupKeepsFailures ==
  [][phase = "cleaning" /\ phase' = "serving" /\ cleanupOnDisconnect =>
       stateFile \intersect accounts \subseteq stateFile']_vars

\* Every call of EnsureUser and ReleaseUser ends, and with it the wait for
\* the per-user lock, unless the daemon goes down.
CallsReturn ==
  \A c \in Conn : (conn[c].pc \notin {"idle", "session"}) ~>
                  (conn[c].pc \in {"idle", "session"})

\* CleanupOrphans ends, whatever it cannot delete: the daemon begins to serve,
\* or goes down again.
CleanupEnds == phase = "cleaning" ~> phase # "cleaning"

\* No call of the user manager, at startup or for a connection, holds up its
\* caller for good, whatever fails: not for a lock, not for a retry.
EveryCallEnds == CallsReturn /\ CleanupEnds

Lease == INSTANCE AccountLease WITH
           holders <- [u \in User |-> HoldersOf(u)], owner <- owners

\* The counts and owner records implement the leases of AccountLease.
LeaseRefinement == Lease!Spec
-----------------------------------------------------------------------------
(* What comments and documents say, and the code does not do: TLC refutes  *)
(* each of them.                                                           *)

\* "by the time EnsureUser returns nil, the Linux user exists" (host.go:493).
EnsureUserBarrier ==
  [][\A c \in Conn : EnsureReturns(c) => UserOf(c) \in accounts']_vars

\* The account is deleted when the count reaches zero (host.go:584), so never
\* while the session of a connection is open.
ActiveAccountKept ==
  [][\A u \in accounts \ accounts' :
       ~ \E c \in Conn : At(c, "session") /\ UserOf(c) = u]_vars

\* The users of severed sessions "are cleaned up by CleanupOrphans on the next
\* startup" (docs/operations.md:326), their sudoers files "regardless" of
\* whether accounts are kept (line 43).
SeveredSudoersRemoved ==
  [][phase = "cleaning" /\ phase' = "serving" =>
       \A u \in stateFile : sudoers'[u] = NoRule]_vars

\* "no risk of divergence between the file and the map" (host.go:886): a user
\* with open sessions, all of whose calls have returned, is in the state file.
SettledUserRecorded ==
  \A u \in User :
    (HoldersOf(u) # {} /\ \A c \in HoldersOf(u) : At(c, "session"))
      => u \in stateFile

\* "Keep in remaining so we try again on the next restart": an account the
\* last startup could not delete, unused since, stays listed.
FailedOrphanKept ==
  phase = "serving" =>
    \A u \in remaining \intersect accounts :
      (\A c \in Conn : At(c, "idle") \/ UserOf(c) # u) => u \in stateFile

\* "All exported methods are safe for concurrent use": the read of m.sessions
\* for a later session's log line (host.go:498), made without m.mu, is never
\* concurrent with a write of that map.
NoSessionsRace ==
  \A c, d \in Conn :
    ~ /\ At(c, "usermod") /\ conn[c].call = "later"
      /\ conn[d].pc \in {"rollback", "session"}

\* "Omit to grant no sudo access": when EnsureUser returns to a first session
\* without a rule, no sudoers file is in place.
NoRuleNoSudo ==
  [][\A c \in Conn : EnsureReturns(c) /\ conn[c].perms.rule = NoRule
       => sudoers'[UserOf(c)] = NoRule]_vars

\* "Groups and sudoers are only applied on the first session": as long as a
\* user is in use, a later session's call changes neither.
FirstConnectionWins ==
  [][\A c \in Conn : conn[c].call = "later" /\ conn'[c] # conn[c]
       => UNCHANGED <<groups, sudoers>>]_vars
=============================================================================
