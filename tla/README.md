# Verification of ziti-ssh

TLA+ models of the programs in this repository, TLC configurations that check
them on small instances, and TLAPS proofs for every instance. The models are
written from the Go sources; documents are only used to state what the programs
promise. Paths below are relative to the repository, `main.go` alone is
`cmd/ziti-ssh-host/main.go`, and `host.go` is `host/host.go`.

Run a model with `tlc -config um_core.cfg MCUserManager.tla`, check a proof with
`tlapm UserManagerProofs.tla`. `PROJECT.json` lists the runs, the mutants that
each property catches, the source lines behind each definition, the hazards and
the theorems.

## 1. Inventory

### The host daemon, `ziti-ssh-host run`

| component | state | operations | talks to |
|---|---|---|---|
| process (`runProxy`, `Proxy`, `proxyConn`) | listeners, two WaitGroups, signal channel, goroutines per connection | bind, clean up, accept, pipe, close on signal, drain | Ziti SDK, sshd, UserManager through OnConnect and OnDisconnect |
| `UserManager` | `sessions`, `owners`, `userLocks`; state file; the host's accounts, groups, sudoers files | EnsureUser, ReleaseUser, CleanupOrphans | `useradd`, `usermod`, `visudo`, `userdel`; called by every connection goroutine |
| permission configs (`serviceState`) | one config pointer per service | load at startup, reload on service-changed, Resolve | SDK events, OnConnect |
| trusted CAs (`refreshTrustedCAs`) | TrustedUserCAKeys, cached controller URLs, `ztAPIs` in the identity file | `Authenticate`, event listener, poller, `ReloadSSHD` | controllers over TLS, sshd |

`ziti-ssh-host enroll` is another process: it writes the identity, the key file
and the sshd drop-in that names it, and reloads sshd, once or again while the
daemon runs. `inspect` prints what it reads.

What is hard here: the daemon runs one goroutine per connection, and two or
more of them share one Linux account, whose creation and deletion are slow
external commands that can fail. Bookkeeping is under a global lock, commands
under a lock per user, and decisions taken under one are carried out under the
other. The process can die between any two commands. Configs change while
connections use them. Two goroutines, and enroll, write one file without a
lock, and enroll can stop between any two of its files.

What makes it correct: counts match connections on every path; one identity
per account at a time; no lock kept; nothing left on the host that no session
needs; a later session gets its own permissions; a drain that ends cleanly has
really ended every session; a good config reaches connections; sshd always
trusts some CA, and in the end those of the cluster, as long as the host knows
of a controller that is still in it.

### The signing server, `ziti-ssh-ca run`

State: the CA key, one rate limiter per identity (`internal/ratelimit`), the
connections in flight. Operations: answer with the CA key, sign a key, evict
idle limiters, drain on a signal. Hard: rates below one per minute, eviction,
deadlines, the drain. Correct: no identity is signed for more often than its
burst and rate; idle entries go; certificates name the identity the network
attests and no other; every handler ends.

### The clients, `ziti-ssh` and `ziti-scp`

| component | state | operations | talks to |
|---|---|---|---|
| login (`runSign`, `runConnect`, `runProxy`, `runSCP`) | where the command is, which of its logins | load the identity, OIDC, authenticate with a timeout, work | identity file, `internal/oidc`, Ziti SDK |
| `internal/oidc` | a callback server on a fixed port, a channel for the token, the browser's cookie | open the browser, callback, timeout, shutdown | browser, identity provider, flows of other commands |
| identity file (`config`, `enroll`) | one JSON document | `AtomicWriteFile`, `PersistZtAPIs`, enroll | every command of the user, at the same time |
| certificates | a key and its short-lived certificate | obtain, renew | `ziti-ssh-ca` |
| sessions and forwards | an SSH connection, forwarded ports, SOCKS connections | run a session, forward | sshd |
| transfers (`client/sftp.go`) | the destination tree, the walk | upload, download, with `-r` and `-p` | SFTP server |

Hard: a certificate that expires between check and use; goroutines that outlive
their session, or the timeout of the call that runs in them; a tab, a cookie and
a port shared by logins that do not know of each other; a read, change and
write of a file others write too; a process killed or power lost in the middle
of a write; a walk of which any operation may fail.

Correct: nobody waits on a copy that has ended, no listener outlives its
session; a token is that of the login that asked for it; the port is given
back; nobody ever reads part of an identity, and nobody but an enrollment
changes whose it is; a copy that reports success has written every file to its
end, and one that fails leaves at most the file it was at half-written, and
nothing elsewhere.

### The rest

The dialogues of `mfa` and the output of `list` and `inspect`, the config tool of
`ziti-ssh-ca`, packaging, scripts and suites: see section 5.

## 2. Modules

| module | models | extends, uses |
|---|---|---|
| `AccountLease` | abstract: who holds a Linux user name, and for which identity | |
| `UserManager` | `EnsureUser`, `ReleaseUser`, `syncStateFile`, `CleanupOrphans`, crashes | refines `AccountLease` |
| `HostDaemon` | `runProxy`, `Proxy`, `proxyConn`, signals and drain | uses `AccountLease` for the user manager |
| `PermReload` | `serviceState`, startup load, service-changed, and the connections in between | |
| `Usernames` | `ca.DeriveUsername` | |
| `Permissions` | `loadPermissionsConfig`'s check and `Resolve` | `Usernames` |
| `TrustedCAs` | controller events, poller, `refreshTrustedCAs`, `ReloadSSHD`, `ziti-ssh-host enroll` | |
| `TokenBucket` | abstract: one bucket per identity, never forgotten | |
| `RateLimit` | `ratelimit.Map` with its eviction sweep | refines `TokenBucket` |
| `CAServer` | `ziti-ssh-ca run`: `handleConn`, `SignCert`, accept loop, drain | |
| `CertClient` | `runSign`, `CertNeedsRefresh`, `NewCertSigner` of commands that share a key | extends `CAServer` |
| `PortForward` | `ziti-ssh connect` with `-L`, `-R`, `-D`: forwards, handlers, `biCopy`, shell | |
| `AtomicFile` | abstract: a file that is replaced whole, and what a power loss may bring back | |
| `FileWrite` | `AtomicWriteFile`, `atomicWriteFile`, `writeStateFile`, step by step | refines `AtomicFile` |
| `IdentityFile` | `PersistZtAPIs`, `runEnroll` of the clients | extends `FileWrite` |
| `OIDCFlow` | `runFlow`: server, tab, cookie, token, timeout | |
| `ClientLogin` | the logins of a command, `AddCredentials`, `RunWithTimeout` | extends `IdentityFile`, `OIDCFlow` |
| `FileTransfer` | the arguments of `ziti-scp`, `uploadAll`, `downloadAll` and below | |
| `UserManagerProofs`, `HostDaemonProofs`, `TrustedCAsProofs`, `RateLimitProofs`, `CertClientProofs`, `ClientLoginProofs` | theorems | extend the module they are named for |
| `PermissionProofs` | theorems about the permissions of an identity | extends `PermReload`, `Permissions` |
| `SessionProofs` | theorems about what a client does over its SSH connection | extends `PortForward`, `FileTransfer` |
| `MC...` | instances for TLC | |

`HostDaemon` and `UserManager` meet in `AccountLease`: the first uses its
actions as the effect of EnsureUser and ReleaseUser, the second is shown to
implement it, by TLC (`LeaseRefinement`) and by proof. `CAServer` and `RateLimit`
meet in the same way in the bucket of tokens per identity, which the first uses
and `TokenBucket` states with its rate. `ClientLogin` is composed of the files and
the browser flows: its steps are theirs, together with those of the commands
that own them, whose end takes listeners and flows along.

Operators whose comment begins with "mutant" are bugs a change could plausibly
introduce; each property is violated by at least one of them. They take no
part in `Next`.

### Correspondence

**UserManager.** A connection goroutine is an element of `Conn` with a program
counter and its locals. A section under `m.mu` is one action (it never blocks):
`EnsureUser` and `ReleaseUser` are their phases 1, `Rollback` the second use of
`m.mu` after a failed `useradd`, `SnapshotSessions` that of `syncStateFile`. The
per-user lock is taken by `LockUser`, and each command under it is an action,
with success and failure as disjuncts: `Useradd`, `Usermod`, `Sudoers`,
`SyncStateFile`, `ReleaseSudoers`, `Userdel`. `createSudoers` and
`writeStateFile` end in a rename and so happen or do not. Absent map entries are
0 and `NoId`. A connection that OnConnect refuses takes no step: it leaves
everything as it was. `ZITI_USER_CLEANUP` is read at each start, as a choice in
`StartDaemon`. `Crash` loses the memory and keeps the host. The entries of
`userLocks` are never removed in the code; here they are there from the start.

**HostDaemon.** `main` is the position of `runProxy`; `Listen` to
`InstallHandler` are its startup in the order of the code, `HandlerWakes` and
`CloseListener` the signal goroutine (which restores the default action of the
signal first), `AllProxiesReturned`, `Drained` and `DrainTimeout` the end. Per
connection, `Accept` is `wg.Add(1)` and the `go` statement, `OnConnect` to
`OnDisconnectReturns` are `proxyConn` with its deferred calls, and `CopierEnds`
the two copying goroutines with their channel of capacity two. The end of the
process takes all its memory with it.

**PermReload.** `LoadAtStartup`, `Subscribe`, `TakeEvent` and `Set` follow
`main.go` 886-965; a reload reads the SDK's cache when its event is handled.
`OnConnect` reads the config and `EnsureUser` applies it later, as the code does.
A config may be bad at startup already, which leaves the fallbacks. Whether the
last session takes the account with it is `Cleanup`, on which no property of `pr`
depends.

**Permissions.** Each iteration of the loop over the Go map is an action on a
key still to be visited, so every order of the map is a behaviour.

**TrustedCAs.** The two callers of `refreshTrustedCAs` and `enroll` each have a
job: one dial at a time, then the comparison with the file, the rename and the
reload, or for `enroll` the check that there is a key, the key file, the drop-in
and the reload. Nothing orders the steps of the three, and enroll is a process
of its own: `Crash` ends the callers only, `EnrollFails` only enroll. Dials go in
one fixed order, as they touch nothing shared. `Enroll` is the enrollment at the
controller with the write of the identity, whose steps are in `FileWrite`. A
behaviour begins on a host with nothing but the program: no identity, no keys,
no drop-in, and the daemon fails to start until there is an identity. `daemon` is
the position of `runProxy`: `Start` gives the SDK the controllers that the
identity names (`known`), in `"auth"` the listener is registered and `Authenticate` is
running, and only after that the poller is there. The event is that of a
controller the SDK reached (`Reachable`) and tells it of all others. Without one in
the cluster there is no event and no list; `AuthenticateFails` ends the daemon, and
the next one begins with what is in the file. An `Authenticate` that fails in any
other way, or runs out of time while the listener is at work, is a `Crash`. A
socket-activated sshd (`socket`) reads drop-in and key file anew for each
connection; the others read them at a reload.

**FileWrite, IdentityFile.** A writer is one call that may be in progress: of a
command's listener or of an enrollment. `FillTemp` is everything up to the
rename, since nobody else knows the name of the temporary file; `Rename` and
`SyncDir` are apart because a process can die, power can fail and another writer
can rename in between. `disk` is what a power loss may leave: a rename reaches
the disk with the sync of the directory, or with `WriteBack` at any time, and a
file renamed before its data were synced may come back torn. `ReadIdentity`
reads the document whole and keeps it, as `PersistZtAPIs` does, until the
rename. `overtaken` observes which commands read before an enrollment replaced
the file; it is no part of the code.

**OIDCFlow, ClientLogin.** `flow[f]` is the position of one call of `runFlow`,
`server[f]` its HTTP server and the goroutine that shuts it down. A tab goes to
`/login` of whichever server has the port, to the provider, and back to
whichever server has the port by then; the relying party of zitadel/oidc is
external, with a cookie that only the flow that set it can read, because
`runFlow` makes its keys anew. `login` observes which server a token came by.
`main[c]` is the position of a command; `FlowsOf` gives it one or two logins (a
`connect` without a fresh certificate signs first), each with a flow or, when no
issuer is set, without. `AuthTimeout` leaves the SDK's call running: `Event` and
`Listener` go on until `Exit`.

**FileTransfer.** `stack` is the recursion of `uploadDir` and `downloadDir`, `args`
what the loop over the sources has left. One iteration is one action; a copy is
three, `OpenFile` truncating the destination, `Copy` filling it and `CloseFile`, the
deferred Close, whose error the code drops: what it leaves is `"unclosed"`, and the
walk goes on. `Chtimes` is
part of `FileTimes` and `LeaveDir`; its failures are ignored, as in the code, and
observed in `untimed`. Contents are the source they come from, permissions that
to write to a directory. `Put` is what the file systems do by themselves: a new
entry changes the time of its directory.

**RateLimit.** Every use of the map is under its mutex and one action. Time is
in ticks; the limiter of `golang.org/x/time/rate` is external and kept as credit
in ticks. `elapsed` and `spent` observe a window that may begin at any moment,
they are no part of the code.

**CAServer, CertClient.** `main` is the position of `run`, `conn[c].pc` that of
one `handleConn`, from `queued` before `Accept` to `closed` after its deferred
calls; the other fields are what goes over the connection. What an answer is
matters, not its bytes: the CA key, the line of the limiter, or a certificate
with the identity, the principal and the time it has left. A malformed key is a
`KeyLine` whose `SignCert` fails. The 30 s of a request and of the drain may
pass at any moment. `End` closes all connections and forgets the buckets, as
the end of the process does. `EventControllerUrlsUpdated` writes to the identity
file and takes no part. In `CertClient`, `Ours` are slots for `sign` and
`connect` commands of one home directory, which have one key and one
certificate file and may use different identities; `Other` are other clients of the
service, with a name or without. A certificate ages only while none is on
its way: a tick stands for minutes, a request lasts 30 s at most.

**PortForward.** `main` is `runConnect` from the first forward on: `waiting` in
`wg.Wait`, `returned`, or `exited` when the status of the shell is passed to
`os.Exit`. The three forwards differ in what listens and what dials: `-R`
listens over the SSH connection and dials locally, `-L` and `-D` the other way
round, `-D` after a SOCKS5 handshake, abstracted to its outcome. The goroutine
that waits for the context and closes the listener is `CloseListener`. Handlers
are not in the WaitGroup, in the code as in the model. Losing the SSH
connection is `TransportLost`.

## 3. Runs

| run | instance | states | shows |
|---|---|---|---|
| `um_core` | 3 connections, 2 identities colliding on 1 user, every failure, crashes, fair | 98 k | `RefCount`, `OneOwner`, `LockDiscipline`, `LeaseRefinement`, `CleanupKeepsFailures`, `EveryCallEnds` |
| `um_host` | 3 connections, 2 users, 2 permission sets, failing state-file writes | 1.0 M | `HostMatchesSessions`, `LaterSessionGetsItsPerms` |
| `hd` | 2 services, 2 connections, 2 identities or no name, every failure, fair | 129 k | WaitGroups, leases, drain, accepting, termination |
| `pr` | 2 services, 1 connection, 2 configs and a bad one, also at startup, fair | 25 k | `InSync`, `GoodConfigArrives` |
| `pm` | keys of 1 or 2 characters out of 5, configs of up to 3 keys; names of up to 4 out of 6, short ones with a wildcard | 960 k | precedence, shape of user names |
| `tc` | 2 controllers with a key each, 2 enrollments, 2 changes, 1 failure of any kind, fair | 1.0 M | no lock-out, no stale sshd, convergence |
| `rl` | 2 identities, burst 2, a token in 2 ticks, TTL 4, windows of 5 ticks, fair | 38 k | rate, buckets, eviction |
| `ca` | a `ziti-ssh` user and another client, burst 1, per-identity, restarts, fair | 61 k | certificates name the caller, only the drain timeout cuts off, handlers and `runSign` return |
| `fw` | a forward of each kind, 1 connection at a time, with a shell and with `-N`, fair | 123 k | result of the shell, release of ports and connections |
| `login` | 1 command with 2 logins and a flow for each, 1 enrollment, kills and power losses, fair | 135 k | the file is whole and keeps its identity, tokens, port, the command gets on |
| `xfer` | 14 command lines over trees with a shared name, links, a read-only directory and an unsafe name; 6 destinations; every failure | 8.7 k | success is complete, failure is local |
| `um_active` | smallest that shows it | | section 6 |

Why the bounds are enough. Three connections of one user give a first session,
a later one and a release that all wait for the same lock, which is as many
roles as the code has; two users give two syncs of the state file that cross;
two identities on one user give a refusal while the other is opening, in use,
failing or closing. Two connections and two services are enough for a drain
with one session on each listener. For `Resolve`, the comparison is between
two patterns at a time, so three keys show every order around a best one. For
the key file, two controllers that join or leave twice show a refresh on an old
list that crosses a newer one, a cluster that moves on from the only controller
an identity names, and one that comes back to it; with one
failure every step is the one that fails, for any cause; the first enrollment
meets the daemon starting, the second at every step of either caller, with the
files as the first has left them. The two safety properties are proved for any
controllers, for CAs that several of them share, and for both kinds of sshd, so the run
keeps to distinct keys and a long-running sshd; `Socket = {FALSE, TRUE}` holds as
well, with 1.7 M states. A command
with two logins has an older flow, tab, token and listener of its own beside
the new ones, which is what another command would be to it, but for the time at
which it dies; the proofs cover any number of both. A walk treats each entry
alike, so trees two deep, with each kind of entry at each place, meet every
error path of it. For the
bucket, the window spans a refill of the whole bucket and an eviction; the
theorems hold for every rate. Two clients of the CA are a request in service
beside one that is queued, refused or silent, and a certificate with one tick
to live is fresh, then expired. Handlers of forwarded connections share nothing
but the context, so one at a time meets every state of its forward.

`MayFail`, `MayHappen`, `MaxFaults`, `MaxChanges`, `MaxTokens`, `MaxWindow`,
`MaxLen`, `Depth` (how deep the trees are, which the proofs leave open), and the sets `Enroller`, `Flow`, `Job` and `AtDst` are the bounds on the
environment. `um_host` has no failing removals and no crash,
`pr` no update during startup, and `rl` an idle TTL that covers the refill of a
bucket, because otherwise their properties are false (section 6). Deadlock is
checked everywhere but in `pm`, `fw` and `xfer`, whose program ends, and in `tc`,
where every enrollment may have failed and there is nothing left to start.

Fairness. A goroutine whose next step is possible takes it (weak fairness);
commands and file operations end. `sync.Mutex` hands itself to every waiter in
the end, by its starvation mode: strong fairness of `LockUser`. The SDK's event
emitter and the select loops serve each event, and tickers and `time.After`
fire. No fairness makes a client connect, a session end, a signal arrive, a
command succeed or the daemon crash. `tc` also assumes that the service
manager restarts the daemon, that `Authenticate` returns or runs out of time, and
that a TLS dial ends. It does not assume that the daemon ever reaches a controller:
`HostFollowsCluster` has that as its hypothesis, of the controllers that the host
knows at the time and no others. `fw` assumes that `net.Listen`, the request
for a remote port and `DialContext` return, and that a copy ends once both its
connections are closed. No client need ever finish its SOCKS5 request, which
has no deadline and heeds no context: `Released` leaves those handlers out. In
`login` the goroutines run, and the two minutes of a flow and the timer of
`RunWithTimeout` pass; nobody need log in, the provider, the controller and the
disk need not answer, and a session may go on for ever. In `um_core` fairness
is that of the goroutines and of `CleanupOrphans`.

## 4. Proofs

For any number of connections, users, identities and permissions, and any set
of failures, `UserManagerProofs` proves `TypeOK`, `RefCount`, `OneOwner`,
`LockDiscipline` and that `UserManager` implements `AccountLease`. The inductive
invariant is

    IInv == TypeOK /\ CallOK /\ RefCount /\ OneOwner /\ LockDiscipline

where `CallOK` says which calls can be at which position: without it nothing
rules out a goroutine that rolls back an increment it never made, or releases a
count twice. `RefCount` and `OneOwner` need each other (the owner goes with the
last of the count), and the counts are sets of goroutines, so the proof goes by
how one step of one goroutine changes `HoldersOf` (`HoldersUpdate`), and groups
the steps that leave it alone (`QuietSteps`). The refinement adds that a step
that counts is a `Lease`, one that uncounts a `GiveBack`, and a crash `EndAll`.
Assumptions: `Conn` is finite, `Derive` is a function from identities to users,
and the null values are none of the values they stand for.

Three more follow from that invariant and what the user lock protects
(`LockProtects`: until a goroutine gives up the lock, nobody else makes or removes
the account, its groups or its sudoers file). `CleanupKeepsFailures` holds
whatever fails: during `CleanupOrphans` there are no calls (`CallsWhileServing`),
and an account in the state file that still exists is among those to visit or
those kept (`OrphansListed`). `LaterSessionGetsItsPerms` needs that `usermod`,
`visudo` and the removal of a sudoers file do not fail; useradd, userdel and
crashes may. From `Usermod` on, the groups are those of the session (`GroupsApplied`).
`HostMatchesSessions` needs that `useradd`, the two removals and the daemon do
not fail, and holds over every failure of the others. Its strengthening,
`LeaveInv`, says of each account and each sudoers file who will still remove
it: a session that is counted, or the call that took the count to zero and has
yet to come to its removal (`Undoes`). Each hypothesis is needed: with the failure
it excludes, TLC finds the property violated.

`RateLimitProofs` proves `TypeOK`, and, **if the idle TTL is at least the time a
bucket takes to fill**, `RateBound` and `BucketRefinement`. The argument is that
an entry unused for n ticks has at least n ticks of credit (`Refilled`), so the
sweep only forgets full buckets (`SweptIsFull`), and that what was allowed and
what is left never exceed what there can be (`Conserved`). The hypothesis is
needed: without it `RateBound` fails (section 6).

`ClientLoginProofs` proves, for any number of commands, logins, flows and
enrollments, that a file written by writers that all sync first is an atomic
one (`FileWriteRefinement`), that the identity file is such a file
(`LoginFileRefinement`), `LoginIdentityKept`, and `LoginTokenFromOwnLogin`. The
first two rest on `FileInv`: no torn document is in the file or on the disk, and
a writer that is past its start holds a whole one. The refinement then maps a
rename to `Put`, a sync or a write-back to `Settle`, and everything else to a
stutter or `PowerLoss`. `IdentityKept` needs `IdentityInv`: a command that is about
to write, and that no enrollment has overtaken, holds the identity that is in
the file now. Without it the rename says nothing of the read it began with. For
the tokens, `FlowInv` says that a tab in exchange has come back to the server its
login began at, and that tokens in a channel are from its own server: the cookie
is what makes it inductive. The hypothesis `Synced = Writer` is needed, as section
6 shows with `Synced = {}`; the assumptions are that documents are identities
with a list, and that the null values are none of them.

`HostDaemonProofs` proves `WaitGroupCounts`, `LeaseWhileConnected`,
`DrainIsComplete` and `AcceptedWhileServing` for any services, any finite set of
connections and any choice of what fails. The first two are inductive beside the
types, once it is known that only a caller with a name is in EnsureUser
(`NamedWhileEnsuring`). `DrainIsComplete` follows from them: a drain that ends has
a WaitGroup of zero, hence no goroutine, hence no lease. `ProxiesWhileServing`
bounds the life of the accept loops, which `AcceptedWhileServing` needs.

`TrustedCAsProofs` proves `NeverLockedOut` and `SshdCurrent` for any controllers
and keys and any number of failures. `NeverLockedOut` needs `SomeKey`, which
says what each job may carry from one step into the next: a key set about to be
written is not empty, an enrollment about to write the drop-in has found a file
with keys. `SshdCurrent` is inductive with the types, and `QuietBeforeLogin`: the
listener is idle until the first event, and the poller until the daemon is logged
in, so an `Authenticate` that fails cuts neither off between a rename and its reload.

`PermissionProofs` proves `InSync` **if no config changes during startup** (`"early"
\notin MayHappen`); section 6 shows that it fails otherwise. `StartupInSync` carries
the hypothesis through loading and cleanup, and `ReloadInSync` says that a config
read by the handler is the newest or that another event is due, because the cache
changes before its event is delivered. A config that was bad at startup takes no
part until a good one replaces it, which is an event.

It also proves, for any configs, names of any length and any limit on user names,
the two properties of `Permissions`. `DocumentedPrecedence` needs `BestSoFar`: in the middle of the loop
the result is a pattern already visited that none of those visited outranks, so
the order of the Go map does not matter. What `path.Match` matches is left open.
`UsernameShape` follows the four steps of `DeriveUsername`, each of which keeps what
the ones before have established (`SanitizedKept` and the lemmas beside it).
The characters are those of `Usernames`,
one or two of each class that the code tells apart.

`CertClientProofs` proves `IssuedToCaller` and `OnlyDrainTimeoutCutsOff` for any
identities, any finite set of clients, and both modes. The first needs `ConnsOK`
(what the server has computed for a connection is of its caller) and, for the
client, `AwaitsItsOwn` and `SigningUnused`: `runSign` reads the answer from the
connection it dialed, which nobody else can have reused. For the second,
`WaitGroupCounts` excludes that `Drained` fires over a handler, and `ServingInTime`
that a process ends in any other way while there is one.

`SessionProofs` proves `ReturnsShellResult` for any finite set of forwards:
while `runConnect` waits, the WaitGroup counts the forwards that have not returned
and the shell until its deferred `wg.Done` (`WaitGroupCounts`), and a shell that
has reported has left its result in the channel (`ReportStays`), so the select
that does not block finds it.

It also proves `FailureIsLocal` and `SuccessIsComplete` of the transfers, for any
trees, any destination, any command line and any failures. A tree is not
taken apart recursively: a *way down* (`Trails`) is a sequence of nodes, each in the
listing of the one before, and both properties speak of all ways down a source.
That `LocalInv` is inductive takes only that a way down can be extended by an
entry (`LongerTrail`); beside the types it says that each frame of the stack, and
the file in `cur`, is where a way down its source leads (`FrameOK`, `Copying`).
`SuccessInv` says that nothing is forgotten (`Accounted`): what a way leads to has
arrived, or a later source takes its path, or it is still before the walk: an
entry it goes by is to come (`Ahead`), its directory is open (`Open`), or its file is
being copied (`InCopy`). That no entry is written over by another of the same
source rests on `NamesDetermineTrail`: as a listing has each name once, the names
on a way down say which it is. This is an induction along the way, done as
`UpTo`, by a least counterexample. That times come last, after the contents of a
directory, shows in `LeaveDirSucceeds`. A Close that fails changes neither where a
file came from nor its times (`CloseEffect`), so both properties hold over it; they
say of a file that all of it was written, not that all of it is still there, which
is `SuccessIsWhole` and fails (section 6). Assumed of the file systems is
`TreeAssumption` (listings are finite trees with distinct names, files list
nothing; a link met in a directory is never followed, so a link to a directory
above it counts as one that lists nothing), and of the command line that it names
nodes of them, at least one. What stands at
the end of a source on the command line is the user's own choice: `safeName` guards
the names below it, and `FailureIsLocal` says so.

Types are proved where the invariants rest on them: `TypeOK` of `UserManager`,
`RateLimit`, `HostDaemon`, `TrustedCAs` and `CertClient` (the last three are stated
by no run), and in part for `PermReload` (`ConfigTyped`), `Permissions` (`ResolveInv`),
`PortForward` (`ForwardInv`) and `FileTransfer` (`TransferTypes`).

Only model-checked: all liveness, as `ENABLED`, on which fairness rests, is out of
the prover's reach; and what the recursive function in `Matches` computes, which
the proofs leave open and `pm` evaluates. Every safety invariant and every action
property of a passing run is the property of a theorem.

## 5. Not modelled, and the plan

Polling inside one operation is abstracted to its outcomes. Shared mode of the
daemon is per-identity mode with callers without names. `ValidateSudoersRule` is
a check of one string. Which certificate of a chain `intCAFromController` picks
is abstracted to the key of its controller.

Not modelled: `mfa` and `list`, each a call of the SDK and a dialogue that keeps
nothing (`mfa remove` waits on a channel for a listener of the SDK's
authentication with a second factor, whose order of calls this repository does
not define); `inspect`, which prints what it reads; the config tool of
`ziti-ssh-ca`, which calls the controller's REST interface one request after the
other and stops at the first that fails; packaging, scripts, suites. A `connect`
without forwards is one blocking call of `RunSession` or `RunCommand`;
`ForwardAgent` and the SSH protocol are the library's.

To come: the safety half of the liveness properties, which the prover can reach
(that somebody who can act always exists: of a user lock, the goroutine that
holds it; of a drain, a handler that can still step; of a forward, a listener whose
watcher is there), and types in full for `PermReload`, `PortForward`, `OIDCFlow`.

## 6. Where code and documents disagree

One has a run of its own:

| run | what happens | said where |
|---|---|---|
| `um_active` | the last release decides to delete under `m.mu`, then waits for the user lock; a session that opens meanwhile is served, then loses its account | host.go:583-584, `host/host_test.go`:457 |

The others are stated in the last section of each module. To reproduce one,
copy a configuration of the module, set the constants as below and name the
definition as its only INVARIANT or PROPERTY, under the specification it has
there (without fairness, unless it is said). For `UserManager`
start from `um_active.cfg`.

| module: definition | constants | said where |
|---|---|---|
| `UserManager`: `EnsureUserBarrier` | | host.go:493, EnsureUser returns once the user exists: a later session may take the lock first |
| `SeveredSudoersRemoved` | `MayFail = {"crash"}` | docs/operations.md:326 and 43: with accounts kept (the default), sudoers files of severed sessions stay after a restart |
| `SettledUserRecorded` | `TwoIds`, `DeriveTwo`, two users | host.go:886, no divergence of state file and map: two syncs cross |
| `FailedOrphanKept` | the same, `MayFail = {"userdel", "crash"}` | host.go:676, kept for the next restart: the next sync drops it |
| `NoSessionsRace` | | host.go:417, safe for concurrent use: line 498 reads the map without `m.mu` |
| `NoRuleNoSudo` | `TwoPerms`, `MayFail = {"rmsudoers"}` | docs/configuration.md:198, no rule, no sudo: a first session leaves an old file |
| `FirstConnectionWins` | `TwoPerms` | host.go:456, docs/operations.md:110: later sessions apply groups and sudoers |
| `SudoersOnlyWhileUsed` | `MayFail = {"useradd"}` | docs/operations.md:43: the rollback of a first session, as the last one out, leaves the file of a later one |
| `NothingLeftBehind` | `MayFail = {"crash"}` | docs/operations.md:44: an account made just before a crash is not in the state file |
| `HostDaemon`: `FirstSignalDrains` | 1 service, 1 connection | docs/operations.md:322-325: proxies run before the signal handler is installed |
| `PermReload`: `InSync` | `MayHappen = {"early"}` | docs/operations.md:56: an update between the load and the listener is missed |
| `OpenSessionUnaffected`, `UpdatedPermissionsApply` | `Conn2` | docs/operations.md:78: sessions share one account, and permissions are read before the wait for the lock |
| `PermsOfAnOpenSession` | `Conn2` | docs/operations.md:82: permissions of a closed session stay while another is open |
| `Permissions`: `ScoreDeterminesWinner` | | host.go:64-67: equal scores are decided by the order of a Go map |
| `ValidLinuxUsername` | | `ca/ca.go`:93: a leading `-` is kept |
| `TrustedCAs`: `MemberStaysTrusted` | `MayFail = {"dial"}`; or `MayFail = {}` | main.go:547: a member that cannot be reached, or that an older list lacks, loses its key until the next refresh |
| `SshdConverges` | `MayFail = {"reload"}`, under `FairSpec` | docs/operations.md:255, 260: a failed reload of sshd is not retried, as the next refresh finds the file unchanged |
| `RestartFindsCluster` | `MayFail = {}` | docs/operations.md:259: the poller does not persist what it learns |
| `EnrolledHostFollows` | `MayFail = {}`, under `FairSpec` | docs/operations.md:234 and 264; `config/ztapis.go`:31-33: the only controller the identity names leaves before the daemon has reached it, `Authenticate` fails at every restart, and the host needs another enrollment |
| `KeptFileIsRead` | | docs/operations.md:240: an enrollment that stops before the drop-in has spent its token, and the daemon then keeps a file that sshd does not read |
| `IdentityFile`: `IdentityPreserved` | `login.cfg` | `config/ztapis.go`:43: an enrollment between the read and the rename of `PersistZtAPIs` is undone |
| `FileWrite`: `FileRefinement` | `login.cfg`, `Synced = {}` | host.go:302, old or new file fully intact: `refreshTrustedCAs` (main.go:550-570) renames without a sync, and a power loss may leave the key file empty |
| `OIDCFlow`: `WaitsWithServer` | `login.cfg` | `internal/oidc/oidc.go`:20-22: with the port in use, the flow waits its two minutes without a server |
| `CertClient`: `ValidCertKept` | `ca.cfg`, `Id <- JustAlice`, `Derive <- DeriveAlice`, `Caller <- OneUser`, `Ours = {c1, c2}`, `Other = {}`, `TTL = 2`, `Margin = 1` | `cmd/ziti-ssh/main.go`:313, docs/usage.md:57: `runSign` takes any line for a certificate; the refusal of the limiter, `error: rate limit exceeded`, is stored over one that is valid, `connect` then offers the bare key, and `sign` reports no error |
| `FileTransfer`: `SuccessIsWhole` | `xfer.cfg` | `client/sftp.go`:42: "copies files": the error of the deferred Close (199, 344) is dropped, and the copy of a file that is not whole reports success; with `"close"` taken out of `MayFail` it holds |
| `ReadOnlyDirArrives` | `xfer.cfg`, `MayFail = {}` | docs/usage.md:324: with `-p` a directory without write permission is created so before its contents, and the download fails |
| `EachUserItsOwn` | `xfer.cfg` | `cmd/ziti-scp/main.go`:414: sources of one host with different users are all fetched as the first one's |
| `GoesIntoDirectory` | `xfer.cfg` | `client/sftp.go`:98-99: when the Stat of the destination fails, a directory counts as none |
| `RateLimit`: `RateBound` | `Period = 6`, `Burst = 1`, `IdleTTL = 2`, `MaxWindow = 12` | docs/configuration.md:77, `cmd/ziti-ssh-ca/main.go`:237: when the rate is low, eviction after ten minutes refills a bucket early |
| `PortForward`: `NoShellBlocksUntilSignal` | | docs/usage.md:132: with `-N`, the command ends when every forward has failed |

The documents also say `usermod -aG` (docs/operations.md:39,
docs/configuration.md:129 and 197), while the code runs `usermod -G`, which
replaces the list of groups; the model follows the code.

In `ValidCertKept` two commands of one user share a token. One is enough if the
lifetime of a certificate is the default of five minutes, at which `connect`
renews it: then every `connect` asks the CA.

Two more show in the models without a property. The sync of the directory in
`AtomicWriteFile` is best effort, while its comment (`config/atomic.go`:27-29)
promises that the rename survives a power loss: `SyncDir` has both outcomes, and
`AtomicFile` promises a whole file, not the newest. And an upload with `-p` does
not set the permissions of directories, which docs/usage.md:324 says it preserves:
`EnterDir` gives a mode to a new directory only for a download.
