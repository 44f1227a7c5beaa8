----------------------------- MODULE HostDaemon -----------------------------
(***************************************************************************)
(* ziti-ssh-host run, in per-identity mode: the life of the process        *)
(* (runProxy), one Proxy goroutine per Ziti service, one proxyConn         *)
(* goroutine per connection with its two copying goroutines, and the       *)
(* graceful shutdown on SIGTERM or SIGINT.                                 *)
(*                                                                         *)
(* UserManager is used through what it promises, the leases of             *)
(* AccountLease: EnsureUser takes one or fails, ReleaseUser gives it back. *)
(* The Ziti listener is external: it hands out queued connections, also    *)
(* for a while after it was closed, and may fail by itself.                *)
(***************************************************************************)
EXTENDS Naturals, FiniteSets

CONSTANTS
  Service,     \* Ziti services the daemon binds
  Conn,        \* connections alive at one time
  Identity,    \* Ziti identities that may dial
  User,        \* Linux user names
  Derive,      \* ca.DeriveUsername
  NoId,        \* the name of a caller that has none
  NoService,   \* the service of an unused connection
  MayFail      \* what may fail: "listen", "listener", "ensure", "sshd"

ASSUME DaemonAssumption ==
  /\ IsFiniteSet(Conn)
  /\ NoId \notin Identity
  /\ NoService \notin Service
  /\ Derive \in [Identity -> User]
  /\ MayFail \subseteq {"listen", "listener", "ensure", "sshd"}

VARIABLES
  main,      \* where runProxy is, or how the process ended
  listener,  \* service -> "unbound", "open" or "closed"
  proxies,   \* services whose Proxy goroutine runs (counted by wg)
  notify,    \* is sigCh registered for the signals?
  sigCh,     \* is there a signal in sigCh (of capacity one)?
  handler,   \* the signal goroutine: "unborn", "waiting" or "closing"
  toClose,   \* listeners the signal goroutine has yet to close
  conn,      \* connection -> its goroutine, service, caller and copiers
  connWg,    \* the WaitGroup of connections
  holders,   \* user -> connections that lease it
  owner      \* user -> identity they act for

signals == <<notify, sigCh, handler, toClose>>
leases == <<holders, owner>>
vars == <<main, listener, proxies, signals, conn, connWg, leases>>

Accounts == INSTANCE AccountLease

Fails(what) == what \in MayFail
Ended == {"drained", "timeout", "error", "killed"}
-----------------------------------------------------------------------------
(* Connections.                                                            *)

\* copiers counts the copying goroutines that run, done what is in the channel
\* they report on; svc is the listener that holds a queued connection.
Unused == [pc |-> "none", svc |-> NoService, id |-> NoId, copiers |-> 0, done |-> 0]

At(c, label) == conn[c].pc = label
Goto(c, label) == conn' = [conn EXCEPT ![c].pc = label]
UserOf(c) == Derive[conn[c].id]

\* The goroutine of c runs: accepted and not yet returned.
InFlight(c) ==
  conn[c].pc \in {"accepted", "ensuring", "connected", "piping", "closing", "releasing"}

\* A client dials a bound service; a caller may have no name.
Dial(c, s, id) ==
  /\ main \notin Ended
  /\ At(c, "none")
  /\ listener[s] = "open"
  /\ conn' = [conn EXCEPT ![c] = [Unused EXCEPT !.pc = "queued", !.svc = s, !.id = id]]
  /\ UNCHANGED <<main, listener, proxies, signals, connWg, leases>>

\* Proxy accepts, adds to the WaitGroup and starts the goroutine.
AcceptAddsLater(c) ==  \* mutant: wg.Add(1) left to the goroutine, not yet run
  /\ At(c, "queued")
  /\ conn[c].svc \in proxies
  /\ conn' = [conn EXCEPT ![c].pc = "accepted", ![c].svc = NoService]
  /\ UNCHANGED <<main, listener, proxies, signals, connWg, leases>>
Accept(c) ==
  /\ At(c, "queued")
  /\ conn[c].svc \in proxies
  /\ conn' = [conn EXCEPT ![c].pc = "accepted", ![c].svc = NoService]
  /\ connWg' = connWg + 1
  /\ UNCHANGED <<main, listener, proxies, signals, leases>>

\* proxyConn returns: src.Close, then wg.Done.
Return(c) == Goto(c, "closed") /\ connWg' = connWg - 1

\* OnConnect calls EnsureUser, which refuses a user another identity owns.
\* Without a caller name no hook is called.
OnConnect(c) ==
  /\ At(c, "accepted")
  /\ \/ conn[c].id = NoId /\ Goto(c, "connected") /\ UNCHANGED <<connWg, leases>>
     \/ /\ conn[c].id # NoId
        /\ Accounts!Lease(c, conn[c].id)
        /\ Goto(c, "ensuring") /\ UNCHANGED connWg
     \/ /\ conn[c].id # NoId
        /\ owner[UserOf(c)] \notin {NoId, conn[c].id}
        /\ Return(c) /\ UNCHANGED leases
  /\ UNCHANGED <<main, listener, proxies, signals>>

\* EnsureUser returns: an error has undone the lease and ends the connection
\* with no call of OnDisconnect.
OnConnectReturns(c) ==
  /\ At(c, "ensuring")
  /\ \/ Goto(c, "connected") /\ UNCHANGED <<connWg, leases>>
     \/ Fails("ensure") /\ Accounts!GiveBack(c, UserOf(c)) /\ Return(c)
  /\ UNCHANGED <<main, listener, proxies, signals>>

\* net.Dial to sshd; a failure returns through the deferred OnDisconnect.
DialSshdNoDefer(c) ==  \* mutant: OnDisconnect deferred only after the dial
  /\ At(c, "connected")
  /\ \/ /\ conn' = [conn EXCEPT ![c].pc = "piping", ![c].copiers = 2]
        /\ UNCHANGED connWg
     \/ Fails("sshd") /\ Return(c)
  /\ UNCHANGED <<main, listener, proxies, signals, leases>>
DialSshd(c) ==
  /\ At(c, "connected")
  /\ \/ conn' = [conn EXCEPT ![c].pc = "piping", ![c].copiers = 2]
     \/ Fails("sshd") /\ Goto(c, "closing")
  /\ UNCHANGED <<main, listener, proxies, signals, connWg, leases>>

\* One direction ends, at the latest when both connections are closed, and
\* reports on the done channel, which has room for both.
CopierEndsUnbuffered(c) ==  \* mutant: done made without a buffer
  /\ conn[c].copiers > 0
  /\ At(c, "piping") /\ conn[c].done = 0
  /\ conn' = [conn EXCEPT ![c].copiers = @ - 1, ![c].done = @ + 1]
  /\ UNCHANGED <<main, listener, proxies, signals, connWg, leases>>
CopierEnds(c) ==
  /\ conn[c].copiers > 0
  /\ conn[c].done < 2
  /\ conn' = [conn EXCEPT ![c].copiers = @ - 1, ![c].done = @ + 1]
  /\ UNCHANGED <<main, listener, proxies, signals, connWg, leases>>

\* <-done: the first direction to end closes the connection.
SessionEnds(c) ==
  /\ At(c, "piping")
  /\ conn[c].done > 0
  /\ conn' = [conn EXCEPT ![c].pc = "closing", ![c].done = @ - 1]
  /\ UNCHANGED <<main, listener, proxies, signals, connWg, leases>>

\* The deferred OnDisconnect: ReleaseUser gives the lease back at once and
\* returns when the account is taken down.
OnDisconnect(c) ==
  /\ At(c, "closing")
  /\ \/ conn[c].id = NoId /\ UNCHANGED leases
     \/ conn[c].id # NoId /\ Accounts!GiveBack(c, UserOf(c))
  /\ Goto(c, "releasing")
  /\ UNCHANGED <<main, listener, proxies, signals, connWg>>

OnDisconnectReturns(c) ==
  /\ At(c, "releasing")
  /\ Return(c)
  /\ UNCHANGED <<main, listener, proxies, signals, leases>>

\* The copiers have seen both connections closed: nothing of c is left.
Forget(c) ==
  /\ At(c, "closed")
  /\ conn[c].copiers = 0
  /\ conn' = [conn EXCEPT ![c] = Unused]
  /\ UNCHANGED <<main, listener, proxies, signals, connWg, leases>>
-----------------------------------------------------------------------------
(* runProxy.                                                               *)

\* The process ends and everything in its memory with it.
End(how) ==
  /\ main' = how
  /\ listener' = [s \in Service |-> "unbound"]
  /\ proxies' = {}
  /\ notify' = FALSE /\ sigCh' = FALSE /\ handler' = "unborn" /\ toClose' = {}
  /\ conn' = [c \in Conn |-> Unused]
  /\ connWg' = 0
  /\ Accounts!EndAll

\* One listener per service; if one cannot be had, the others are closed.
Listen(s) ==
  /\ main = "binding"
  /\ listener[s] = "unbound"
  /\ \/ /\ listener' = [listener EXCEPT ![s] = "open"]
        /\ main' = IF \A t \in Service \ {s} : listener[t] # "unbound"
                   THEN "cleanup" ELSE main
        /\ UNCHANGED <<proxies, signals, conn, connWg, leases>>
     \/ Fails("listen") /\ End("error")

\* CleanupOrphans, before any connection is accepted.
CleanupOrphans ==
  /\ main = "cleanup"
  /\ main' = "starting"
  /\ UNCHANGED <<listener, proxies, signals, conn, connWg, leases>>

StartProxies ==
  /\ main = "starting"
  /\ main' = "notifying"
  /\ proxies' = Service
  /\ UNCHANGED <<listener, signals, conn, connWg, leases>>

InstallHandler ==
  /\ main = "notifying"
  /\ main' = "serving"
  /\ notify' = TRUE
  /\ handler' = "waiting"
  /\ UNCHANGED <<listener, proxies, sigCh, toClose, conn, connWg, leases>>

\* SIGTERM or SIGINT: into the channel if it is registered (and lost if one is
\* there already), else the default action.
Signal ==
  /\ main \notin Ended
  /\ IF notify
     THEN sigCh' = TRUE /\ UNCHANGED <<main, listener, proxies, notify, handler,
                                       toClose, conn, connWg, leases>>
     ELSE End("killed")

\* The signal goroutine takes the signal and restores the default action.
HandlerWakes ==
  /\ handler = "waiting"
  /\ sigCh
  /\ sigCh' = FALSE
  /\ notify' = FALSE
  /\ handler' = "closing"
  /\ toClose' = Service
  /\ UNCHANGED <<main, listener, proxies, conn, connWg, leases>>

CloseListenerFirstOnly(s) ==  \* mutant: the loop returns after one listener
  /\ s \in toClose
  /\ toClose' = {}
  /\ listener' = [listener EXCEPT ![s] = "closed"]
  /\ UNCHANGED <<main, proxies, notify, sigCh, handler, conn, connWg, leases>>
CloseListener(s) ==
  /\ s \in toClose
  /\ toClose' = toClose \ {s}
  /\ listener' = [listener EXCEPT ![s] = "closed"]
  /\ UNCHANGED <<main, proxies, notify, sigCh, handler, conn, connWg, leases>>

\* A listener the SDK gives up by itself.
ListenerFails(s) ==
  /\ Fails("listener")
  /\ listener[s] = "open"
  /\ listener' = [listener EXCEPT ![s] = "closed"]
  /\ UNCHANGED <<main, proxies, signals, conn, connWg, leases>>

\* Accept fails on a closed listener and Proxy returns; what was still queued
\* is never accepted.
ProxyReturns(s) ==
  /\ s \in proxies
  /\ listener[s] = "closed"
  /\ proxies' = proxies \ {s}
  /\ conn' = [c \in Conn |-> IF At(c, "queued") /\ conn[c].svc = s THEN Unused ELSE conn[c]]
  /\ UNCHANGED <<main, listener, signals, connWg, leases>>

\* wg.Wait() returns; signal.Stop(sigCh).
AllProxiesReturnedEarly ==  \* mutant: wg.Wait() dropped
  /\ main = "serving"
  /\ main' = "draining"
  /\ notify' = FALSE
  /\ UNCHANGED <<listener, proxies, sigCh, handler, toClose, conn, connWg, leases>>
AllProxiesReturned ==
  /\ main = "serving"
  /\ proxies = {}
  /\ main' = "draining"
  /\ notify' = FALSE
  /\ UNCHANGED <<listener, proxies, sigCh, handler, toClose, conn, connWg, leases>>

\* connWg.Wait() returns before the drain timeout.
Drained == main = "draining" /\ connWg = 0 /\ End("drained")

DrainTimeout == main = "draining" /\ End("timeout")

Restart ==
  /\ main \in Ended
  /\ main' = "binding"
  /\ UNCHANGED <<listener, proxies, signals, conn, connWg, leases>>
-----------------------------------------------------------------------------
Init ==
  /\ main = "binding"
  /\ listener = [s \in Service |-> "unbound"]
  /\ proxies = {}
  /\ notify = FALSE /\ sigCh = FALSE /\ handler = "unborn" /\ toClose = {}
  /\ conn = [c \in Conn |-> Unused]
  /\ connWg = 0
  /\ Accounts!Init

\* What the goroutines of a connection do by themselves.  The end of a session
\* is the client's or sshd's doing: copiers end by themselves only afterwards.
ConnStep(c) ==
  \/ Accept(c) \/ OnConnect(c) \/ OnConnectReturns(c) \/ DialSshd(c)
  \/ SessionEnds(c) \/ OnDisconnect(c) \/ OnDisconnectReturns(c) \/ Forget(c)

MainStep ==
  \/ CleanupOrphans \/ StartProxies \/ InstallHandler
  \/ HandlerWakes \/ AllProxiesReturned \/ DrainTimeout
  \/ \E s \in Service : Listen(s) \/ CloseListener(s) \/ ProxyReturns(s)

Next ==
  \/ \E c \in Conn :
       \/ \E s \in Service, id \in Identity \union {NoId} : Dial(c, s, id)
       \/ ConnStep(c)
       \/ CopierEnds(c)
  \/ MainStep \/ Drained
  \/ Signal
  \/ \E s \in Service : ListenerFails(s)
  \/ Restart

Spec == Init /\ [][Next]_vars

\* Goroutines run on; time.After fires.  Nothing makes a client dial, a session
\* end, a signal arrive, a listener fail or the service manager restart us.
Fairness ==
  /\ WF_vars(MainStep)
  /\ \A c \in Conn : WF_vars(ConnStep(c))
  /\ \A c \in Conn : WF_vars(At(c, "closed") /\ CopierEnds(c))

FairSpec == Spec /\ Fairness
-----------------------------------------------------------------------------
(* Properties.                                                             *)

\* Every variable has its type.
TypeOK ==
  /\ main \in {"binding", "cleanup", "starting", "notifying", "serving", "draining"}
             \union Ended
  /\ listener \in [Service -> {"unbound", "open", "closed"}]
  /\ proxies \subseteq Service
  /\ notify \in BOOLEAN /\ sigCh \in BOOLEAN
  /\ handler \in {"unborn", "waiting", "closing"}
  /\ toClose \subseteq Service
  /\ conn \in [Conn -> [pc: {"none", "queued", "accepted", "ensuring", "connected",
                             "piping", "closing", "releasing", "closed"},
                        svc: Service \union {NoService}, id: Identity \union {NoId},
                        copiers: 0..2, done: 0..2]]
  /\ connWg \in Nat
  /\ holders \in [User -> SUBSET Conn]
  /\ owner \in [User -> Identity \union {NoId}]

\* The connection WaitGroup counts exactly the running goroutines, however
\* each of them returned: it can neither end a drain early nor hold it up.
WaitGroupCounts == connWg = Cardinality({c \in Conn : InFlight(c)})

\* A connection leases its user from EnsureUser to OnDisconnect and at no other
\* time: every way out of proxyConn gives back exactly what OnConnect took.
LeaseWhileConnected ==
  \A c \in Conn, u \in User :
    c \in holders[u] <=>
      /\ conn[c].pc \in {"ensuring", "connected", "piping", "closing"}
      /\ conn[c].id # NoId /\ UserOf(c) = u

\* "All connections drained, exiting cleanly" is true: no goroutine is left and
\* no user is leased when the process ends that way.
DrainIsComplete ==
  [][main' = "drained" /\ main # "drained" =>
       /\ \A c \in Conn : ~InFlight(c)
       /\ \A u \in User : holders[u] = {}]_vars

\* Connections are accepted only after CleanupOrphans and before the drain, so
\* neither races with a session that begins.
AcceptedWhileServing ==
  [][\A c \in Conn : InFlight(c)' /\ ~InFlight(c)
       => main \in {"notifying", "serving"}]_vars

\* A signal the daemon took ends the process, whatever sessions are open.
SignalEnds == sigCh ~> main \in Ended

\* Both copying goroutines of a closed connection end: none is left blocked on
\* the done channel nobody reads any more.
CopiersEnd == \A c \in Conn : At(c, "closed") ~> At(c, "none")
-----------------------------------------------------------------------------
(* What a document says and the code does not do.                          *)

\* docs/operations.md:322-325: SIGTERM and SIGINT are handled gracefully, the
\* sessions in flight may finish.  Only a second signal may cut them off.
FirstSignalDrains ==
  [][main' = "killed" /\ (\E c \in Conn : InFlight(c)) => handler = "closing"]_vars
=============================================================================
