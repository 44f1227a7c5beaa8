----------------------------- MODULE TrustedCAs -----------------------------
(***************************************************************************)
(* How ziti-ssh-host makes sshd trust the CAs of the Ziti cluster: enroll, *)
(* which writes the identity, the key file and the drop-in that names it,  *)
(* and run, whose listener for EventControllerUrlsUpdated and poll         *)
(* goroutine both call refreshTrustedCAs.  Nothing orders the steps of the *)
(* three, which are also two processes.                                    *)
(*                                                                         *)
(* The key file is only written by this program, a line per key, without   *)
(* comments or duplicates; its order matters neither to sshPubKeySetsEqual *)
(* nor to sshd, so it is a set of keys, empty when there is no file.  The  *)
(* cluster, the event and the controllers' answers are external.           *)
(***************************************************************************)
EXTENDS Naturals

CONSTANTS
  Ctrl,       \* controllers that may be part of the cluster
  Key,        \* public keys of intermediate CAs
  KeyOf,      \* the key in the chain a controller presents; may be shared
  MayFail,    \* what may fail
  MaxFaults,  \* bound on the failures of one behaviour
  MaxChanges, \* bound on the changes of the cluster
  MaxTokens,  \* bound on the one-time enrollment tokens of this host
  Socket      \* may sshd be socket-activated?  a set of Booleans

ASSUME CAAssumption ==
  /\ Ctrl # {}
  /\ KeyOf \in [Ctrl -> Key]
  /\ MayFail \subseteq {"dial", "list", "persist", "read", "write", "reload",
                     "enroll", "crash"}
  /\ MaxFaults \in Nat /\ MaxChanges \in Nat /\ MaxTokens \in Nat
  /\ Socket \in (SUBSET BOOLEAN) \ {{}}

VARIABLES
  \* outside
  members,  \* controllers in the cluster
  socket,   \* has every connection an sshd of its own?
  sshd,     \* CA keys sshd trusts, since it last read its configuration
  tokens,   \* enrollment tokens not yet used
  \* on disk
  file,     \* keys in the file that enroll makes TrustedUserCAKeys
  conf,     \* is there a drop-in that names that file?
  ztAPIs,   \* controllers named in the identity file, if there is one
  \* in the daemon
  daemon,   \* "down", "auth" until Authenticate has returned, then "run"
  known,    \* controllers the SDK goes to, if it runs
  cached,   \* cachedCtrlURLs
  job,      \* the calls of refreshTrustedCAs, and enroll
  \* bounds
  faults, changes

hostVars == <<socket, sshd, file, conf, ztAPIs>>
daemonVars == <<daemon, known, cached>>
vars == <<members, tokens, hostVars, daemonVars, job, faults, changes>>

Callers == {"event", "poll"}
Jobs == Callers \union {"enroll"}
NoJob == [pc |-> "idle", todo |-> {}, keys |-> {}]

KeysOf(S) == {KeyOf[c] : c \in S}

\* What an sshd that reads its configuration comes to trust.
Trusted(keys, named) == IF named THEN keys ELSE {}

At(j, label) == job[j].pc = label
Goto(j, label) == job' = [job EXCEPT ![j].pc = label]
Finish(j) == job' = [job EXCEPT ![j] = NoJob]

\* collectClusterCAs begins with the controllers of urls.
Refresh(j, urls) ==
  job' = [job EXCEPT ![j] = [pc |-> "dial", todo |-> urls, keys |-> {}]]

\* One more failure of the kind, as long as there may be one.
Fault(kind) == kind \in MayFail /\ faults < MaxFaults /\ faults' = faults + 1
NoFault == UNCHANGED faults
-----------------------------------------------------------------------------
(* The cluster.                                                            *)

Join(c) == c \notin members /\ members' = members \union {c}
Leave(c) == c \in members /\ members # {c} /\ members' = members \ {c}

ClusterChanges ==
  /\ changes < MaxChanges
  /\ changes' = changes + 1
  /\ \E c \in Ctrl : Join(c) \/ Leave(c)
  /\ UNCHANGED <<tokens, hostVars, daemonVars, job, faults>>
-----------------------------------------------------------------------------
(* The two callers of refreshTrustedCAs.                                   *)

\* A controller that is no longer part of the cluster lets nobody log in.
Reachable == known \intersect members # {}

\* The event comes from a controller: in Authenticate, for which the listener
\* is there early enough, and at every renewal of the session.  It carries the
\* controllers at that time.  A failure to persist them is only logged.
ControllerUrlsUpdated ==
  /\ daemon # "down"
  /\ Reachable
  /\ At("event", "idle")
  /\ known' = members /\ cached' = members
  /\ \/ ztAPIs' = members /\ NoFault
     \/ Fault("persist") /\ UNCHANGED ztAPIs
  /\ Refresh("event", members)
  /\ UNCHANGED <<members, tokens, socket, sshd, file, conf, daemon, changes>>

\* A tick of the poll: a controller is asked for all, or the cached ones used.
Tick ==
  /\ daemon = "run"
  /\ At("poll", "idle")
  /\ \/ Reachable /\ NoFault /\ Refresh("poll", members)
     \/ /\ (~Reachable /\ NoFault) \/ Fault("list")
        /\ IF cached = {} THEN Finish("poll") ELSE Refresh("poll", cached)
  /\ UNCHANGED <<members, tokens, hostVars, daemonVars, changes>>
-----------------------------------------------------------------------------
(* refreshTrustedCAs.                                                      *)

\* The next controller of collectClusterCAs, in the order of its list, which is
\* the same for all lists here: one that cannot be reached is skipped.  A
\* controller that left may still answer.
Dial(j) ==
  LET c == CHOOSE c \in job[j].todo : TRUE IN
  /\ At(j, "dial")
  /\ job[j].todo # {}
  /\ \/ /\ job' = [job EXCEPT ![j].todo = @ \ {c}, ![j].keys = @ \union {KeyOf[c]}]
        /\ NoFault
     \/ /\ job' = [job EXCEPT ![j].todo = @ \ {c}]
        /\ (c \notin members /\ NoFault) \/ Fault("dial")
  /\ UNCHANGED <<members, tokens, hostVars, daemonVars, changes>>

\* With no key at all the refresh fails, with the keys already in the file it
\* is done.
CompareEvenNone(j) ==  \* mutant: no error for an empty result
  /\ At(j, "dial") /\ j \in Callers
  /\ job[j].todo = {}
  /\ \/ NoFault /\ IF job[j].keys = file
                   THEN Finish(j)
                   ELSE Goto(j, "write")
     \/ Fault("read") /\ Finish(j)
  /\ UNCHANGED <<members, tokens, hostVars, daemonVars, changes>>
CompareNeedsFile(j) ==  \* mutant: a file that does not exist is a read error
  /\ At(j, "dial") /\ j \in Callers
  /\ job[j].todo = {}
  /\ \/ NoFault /\ IF file = {} \/ job[j].keys \in {{}, file}
                   THEN Finish(j)
                   ELSE Goto(j, "write")
     \/ Fault("read") /\ Finish(j)
  /\ UNCHANGED <<members, tokens, hostVars, daemonVars, changes>>
Compare(j) ==
  /\ At(j, "dial") /\ j \in Callers
  /\ job[j].todo = {}
  /\ \/ NoFault /\ IF job[j].keys \in {{}, file}
                   THEN Finish(j)
                   ELSE Goto(j, "write")
     \/ Fault("read") /\ Finish(j)
  /\ UNCHANGED <<members, tokens, hostVars, daemonVars, changes>>

\* The file is replaced by a rename, by both programs; a socket-activated sshd
\* reads it for the next connection.
Write(j) ==
  /\ At(j, "write")
  /\ \/ /\ file' = job[j].keys
        /\ sshd' = IF socket THEN Trusted(file', conf) ELSE sshd
        /\ job' = [job EXCEPT ![j] = [NoJob EXCEPT !.pc = IF j = "enroll" THEN "conf" ELSE "reload"]]
        /\ NoFault
     \/ Fault("write") /\ Finish(j) /\ UNCHANGED <<sshd, file>>
  /\ UNCHANGED <<members, tokens, socket, conf, ztAPIs, daemonVars, changes>>

\* ReloadSSHD: sshd -t, then a reload, at which sshd reads what is there now.
\* A socket-activated sshd is left alone, and has nothing to read anew.
ReloadIfAlone(j) ==  \* mutant: no reload while the other caller is at work
  /\ At(j, "reload")
  /\ \/ /\ IF \E k \in Jobs \ {j} : ~At(k, "idle") THEN UNCHANGED sshd
                                                   ELSE sshd' = Trusted(file, conf)
        /\ NoFault
     \/ Fault("reload") /\ UNCHANGED sshd
  /\ Finish(j)
  /\ UNCHANGED <<members, tokens, socket, file, conf, ztAPIs, daemonVars, changes>>
Reload(j) ==
  /\ At(j, "reload")
  /\ \/ sshd' = Trusted(file, conf) /\ NoFault
     \/ Fault("reload") /\ UNCHANGED sshd
  /\ Finish(j)
  /\ UNCHANGED <<members, tokens, socket, file, conf, ztAPIs, daemonVars, changes>>

RefreshStep(j) == Dial(j) \/ Compare(j) \/ Write(j) \/ Reload(j)
-----------------------------------------------------------------------------
(* enroll, which an administrator runs with a token, and again beside the   *)
(* daemon after the CA of a controller has changed.                        *)

\* The "ctrls" claim of the token, all controllers when it was issued, or else its
\* issuer.
ControllersFromToken(issuer) == {members, {issuer}}

\* The issuer accepts the token once, and the identity file names that controller;
\* when the enrollment or AtomicWriteFile fails there is none.
Enroll ==
  /\ tokens > 0
  /\ At("enroll", "idle")
  /\ tokens' = tokens - 1
  /\ \/ /\ \E issuer \in members :
             /\ ztAPIs' = {issuer}
             /\ \E urls \in ControllersFromToken(issuer) : Refresh("enroll", urls)
        /\ NoFault
     \/ Fault("enroll") /\ UNCHANGED <<ztAPIs, job>>
  /\ UNCHANGED <<members, socket, sshd, file, conf, daemonVars, changes>>

\* collectClusterCAs has tried every controller of the token; no key is an error.
Collected ==
  /\ At("enroll", "dial")
  /\ job["enroll"].todo = {}
  /\ IF job["enroll"].keys = {} THEN Finish("enroll") ELSE Goto("enroll", "write")
  /\ NoFault
  /\ UNCHANGED <<members, tokens, hostVars, daemonVars, changes>>

\* WriteSSHConfig: the drop-in after the key file.
WriteConf ==
  /\ At("enroll", "conf")
  /\ conf' = TRUE
  /\ sshd' = IF socket THEN Trusted(file, TRUE) ELSE sshd
  /\ Goto("enroll", "reload")
  /\ NoFault
  /\ UNCHANGED <<members, tokens, socket, file, ztAPIs, daemonVars, changes>>

\* Any step fails, or the command is killed: it ends and leaves what it has done.
EnrollFails ==
  /\ ~At("enroll", "idle")
  /\ Fault("enroll")
  /\ Finish("enroll")
  /\ UNCHANGED <<members, tokens, hostVars, daemonVars, changes>>

EnrollStep == Collected \/ WriteConf \/ RefreshStep("enroll")
-----------------------------------------------------------------------------
(* The daemon.                                                             *)

\* The service manager starts it.  Without an identity file it ends at once.
Start ==
  /\ daemon = "down"
  /\ ztAPIs # {}
  /\ daemon' = "auth" /\ known' = ztAPIs
  /\ UNCHANGED <<members, tokens, hostVars, cached, job, faults, changes>>

\* A daemon that has had the event is logged in, and Authenticate returns.
Authenticate ==
  /\ daemon = "auth"
  /\ Reachable \/ cached # {}
  /\ daemon' = "run"
  /\ UNCHANGED <<members, tokens, hostVars, known, cached, job, faults, changes>>

\* The process ends, with both callers and what the SDK has learned.
Ends ==
  /\ daemon' = "down" /\ known' = {} /\ cached' = {}
  /\ job' = [j \in Jobs |-> IF j \in Callers THEN NoJob ELSE job[j]]
  /\ UNCHANGED <<members, tokens, hostVars, changes>>

\* No controller that the SDK knows lets it log in, and runProxy returns.
AuthenticateFails ==
  /\ daemon = "auth" /\ ~Reachable /\ cached = {}
  /\ Ends
  /\ NoFault

\* So it does when Authenticate fails later or runs out of time, whatever the
\* listener is at.
Crash == daemon # "down" /\ Ends /\ Fault("crash")

\* A host with the program installed.
Init ==
  /\ members \in (SUBSET Ctrl) \ {{}}
  /\ socket \in Socket
  /\ tokens = MaxTokens
  /\ ztAPIs = {} /\ file = {} /\ conf = FALSE
  /\ sshd = {}
  /\ daemon = "down" /\ known = {} /\ cached = {}
  /\ job = [j \in Jobs |-> NoJob]
  /\ faults = 0 /\ changes = 0

DaemonStep == Start \/ Authenticate \/ AuthenticateFails
ListenerStep == ControllerUrlsUpdated \/ RefreshStep("event")
PollStep == Tick \/ RefreshStep("poll")

Next ==
  \/ ClusterChanges
  \/ Enroll \/ EnrollStep \/ EnrollFails
  \/ ListenerStep \/ PollStep
  \/ DaemonStep \/ Crash

Spec == Init /\ [][Next]_vars

\* The session is renewed, the ticker ticks, calls and commands end (the TLS
\* dial by the timeout of TCP, Authenticate by its own), and the service manager
\* restarts the daemon.
Fairness ==
  WF_vars(DaemonStep) /\ WF_vars(ListenerStep) /\ WF_vars(PollStep) /\ WF_vars(EnrollStep)

FairSpec == Spec /\ Fairness
-----------------------------------------------------------------------------
(* Properties.                                                             *)

\* Every variable has its type.
TypeOK ==
  /\ members \in SUBSET Ctrl
  /\ sshd \in SUBSET Key /\ file \in SUBSET Key
  /\ ztAPIs \in SUBSET Ctrl /\ known \in SUBSET Ctrl /\ cached \in SUBSET Ctrl
  /\ daemon \in {"down", "auth", "run"} /\ conf \in BOOLEAN /\ socket \in BOOLEAN
  /\ tokens \in 0..MaxTokens
  /\ job \in [Jobs -> [pc: {"idle", "dial", "write", "conf", "reload"},
                       todo: SUBSET Ctrl, keys: SUBSET Key]]
  /\ faults \in 0..MaxFaults /\ changes \in 0..MaxChanges

\* However many controllers cannot be reached, by whichever program, and
\* wherever an enrollment stops: sshd is never pointed at a file without keys,
\* and once it trusts a CA it never ends up without any.
NeverLockedOut ==
  /\ [](conf => file # {})
  /\ [][sshd # {} => sshd' # {}]_vars

\* As long as nothing has failed sshd has loaded what is there now, or is about
\* to: refreshes and enrollments that cross do not leave it with older keys.
SshdCurrent ==
  faults = 0 => \/ sshd = Trusted(file, conf)
                \/ At("enroll", "conf")
                \/ \E j \in Jobs : At(j, "reload")

\* The file gets the keys of precisely the controllers of the cluster, and the
\* identity file their names.
Follows == <>[](file = KeysOf(members) /\ ztAPIs = members)

\* The daemon has, or would be started with, a controller of the cluster.
CanReach ==
  (IF daemon = "down" THEN ztAPIs ELSE known) \intersect members # {}

\* Both files of the host follow the cluster in the end: the keys sshd reads are
\* "eventually consistent with the live cluster membership" (operations.md:264),
\* whatever stale lists and keys were still on their way, and from whatever a
\* complete, partial or repeated enrollment left there; unless the cluster has
\* moved on from all controllers that the host knows of, for good.
HostFollowsCluster == []<>CanReach => Follows
-----------------------------------------------------------------------------
(* What comments and documents say, and the code does not do: TLC refutes  *)
(* each of them.                                                           *)

\* "If the set has changed, the file is rewritten and sshd is reloaded"
\* (docs/operations.md:260), which "keeps TrustedUserCAKeys current": in the
\* end sshd trusts the controllers of the cluster, once it is told of the file and
\* as long as the daemon reaches one.
SshdConverges == <>conf /\ []<>CanReach => <>[](sshd = KeysOf(members))

\* sshd gets to trust all controllers "automatically at both enrollment time and
\* during the lifetime of the daemon" (docs/operations.md:240): a daemon that
\* keeps the file has an sshd that reads it.
KeptFileIsRead == daemon = "run" /\ file # {} /\ At("enroll", "idle") => conf

\* Keys are removed when their controller is "no longer in cluster"
\* (main.go:547): not while it is a member.
MemberStaysTrusted ==
  [][\A c \in members : KeyOf[c] \in file => KeyOf[c] \in file']_vars

\* The identity file "always reflects the live cluster membership so that a
\* process restart can bootstrap" (docs/operations.md:259): once the daemon has
\* caught up with the cluster, the file names one of its controllers.
RestartFindsCluster ==
  file = KeysOf(members) /\ (\A j \in Jobs : At(j, "idle")) /\ cached # {}
    => ztAPIs \intersect members # {}

\* The cluster can be replaced one controller after the other "without manual
\* intervention on SSH hosts" (docs/operations.md:234), and a host is
\* "eventually consistent" with it, once it is enrolled (docs/operations.md:264).
EnrolledHostFollows == <>(ztAPIs # {}) => Follows
=============================================================================
