-------------------------- MODULE HostDaemonProofs --------------------------
(***************************************************************************)
(* Proofs about HostDaemon, for any services, any finite set of            *)
(* connections, any identities and users, and any choice of what may fail. *)
(***************************************************************************)
EXTENDS HostDaemon, FiniteSetTheorems, TLAPS

ConnState ==
  [pc: {"none", "queued", "accepted", "ensuring", "connected",
        "piping", "closing", "releasing", "closed"},
   svc: Service \union {NoService}, id: Identity \union {NoId},
   copiers: 0..2, done: 0..2]

\* TypeOK but for the WaitGroup, whose type follows from what it counts.
ProcessTyped ==
  /\ main \in {"binding", "cleanup", "starting", "notifying", "serving", "draining"}
             \union Ended
  /\ listener \in [Service -> {"unbound", "open", "closed"}]
  /\ proxies \subseteq Service
  /\ notify \in BOOLEAN /\ sigCh \in BOOLEAN
  /\ handler \in {"unborn", "waiting", "closing"}
  /\ toClose \subseteq Service

ConnTyped == conn \in [Conn -> ConnState]

LeaseTyped ==
  /\ holders \in [User -> SUBSET Conn]
  /\ owner \in [User -> Identity \union {NoId}]

\* EnsureUser is only called for a caller with a name.
NamedWhileEnsuring == \A c \in Conn : At(c, "ensuring") => conn[c].id # NoId

\* Proxy goroutines run from StartProxies until wg.Wait has returned.
ProxiesWhileServing == proxies # {} => main \in {"notifying", "serving"}

IInv ==
  /\ ProcessTyped /\ ConnTyped /\ LeaseTyped
  /\ WaitGroupCounts
  /\ LeaseWhileConnected
  /\ NamedWhileEnsuring
  /\ ProxiesWhileServing

ConnAction(c) ==
  \/ \E s \in Service, id \in Identity \union {NoId} : Dial(c, s, id)
  \/ ConnStep(c)
  \/ CopierEnds(c)
-----------------------------------------------------------------------------
(* The types.                                                              *)

LEMMA UnusedType == Unused \in ConnState
  BY DEF Unused, ConnState

\* The end of the process (End) leaves every variable at its type.
LEMMA EndTyped ==
  ASSUME NEW how \in Ended, End(how)
  PROVE  ProcessTyped' /\ ConnTyped' /\ LeaseTyped'
  BY UnusedType DEF ProcessTyped, ConnTyped, LeaseTyped, End, Accounts!EndAll

\* Every action of proxyConn leaves its connection in a state.
LEMMA ConnActionTyped ==
  ASSUME ConnTyped, NEW c \in Conn, ConnAction(c)
  PROVE  ConnTyped'
<1> USE DEF ConnTyped, ConnState
<1>1. ASSUME NEW s \in Service, NEW id \in Identity \union {NoId}, Dial(c, s, id)
      PROVE  ConnTyped'
  <2>1. [Unused EXCEPT !.pc = "queued", !.svc = s, !.id = id] \in ConnState
    BY UnusedType
  <2> QED
    BY <1>1, <2>1 DEF Dial
<1>2. CASE CopierEnds(c)
  BY <1>2 DEF CopierEnds
<1>3. CASE Accept(c)
  <2>1. conn' = [conn EXCEPT ![c] = [conn[c] EXCEPT !.pc = "accepted", !.svc = NoService]]
    BY <1>3 DEF Accept
  <2>2. [conn[c] EXCEPT !.pc = "accepted", !.svc = NoService] \in ConnState
    OBVIOUS
  <2> QED
    BY <2>1, <2>2
<1>4. CASE OnConnect(c)
  <2>1. \E label \in {"connected", "ensuring", "closed"} : conn' = [conn EXCEPT ![c].pc = label]
    BY <1>4 DEF OnConnect, Goto, Return
  <2> QED
    BY <2>1
<1>5. CASE OnConnectReturns(c)
  <2>1. conn' = [conn EXCEPT ![c].pc = "connected"] \/ conn' = [conn EXCEPT ![c].pc = "closed"]
    BY <1>5 DEF OnConnectReturns, Goto, Return
  <2> QED
    BY <2>1
<1>6. CASE DialSshd(c)
  <2>1. \/ conn' = [conn EXCEPT ![c].pc = "closing"]
        \/ conn' = [conn EXCEPT ![c].pc = "piping", ![c].copiers = 2]
    BY <1>6 DEF DialSshd, Goto
  <2> QED
    BY <2>1
<1>7. CASE SessionEnds(c)
  BY <1>7 DEF SessionEnds
<1>8. CASE OnDisconnect(c)
  BY <1>8 DEF OnDisconnect, Goto
<1>9. CASE OnDisconnectReturns(c)
  BY <1>9 DEF OnDisconnectReturns, Return, Goto
<1>10. CASE Forget(c)
  BY <1>10, UnusedType DEF Forget
<1> QED
  BY <1>1, <1>2, <1>3, <1>4, <1>5, <1>6, <1>7, <1>8, <1>9, <1>10 DEF ConnAction, ConnStep

\* proxyConn has only its own connection.
LEMMA ConnActionAlone ==
  ASSUME ConnTyped, NEW c \in Conn, ConnAction(c)
  PROVE  \A d \in Conn \ {c} : conn'[d] = conn[d]
  BY DEF ConnAction, ConnStep, Dial, CopierEnds, Accept, OnConnect, OnConnectReturns,
     DialSshd, SessionEnds, OnDisconnect, OnDisconnectReturns, Forget, Goto, Return, ConnTyped

\* A lease taken or given back is one of a user (AccountLease).
LEMMA ConnActionLeaseTyped ==
  ASSUME ConnTyped, LeaseTyped, NEW c \in Conn, ConnAction(c)
  PROVE  LeaseTyped'
<1> USE DEF LeaseTyped
<1>1. ASSUME NEW u, Accounts!GiveBack(c, u)
      PROVE  LeaseTyped'
  BY <1>1 DEF Accounts!GiveBack
<1>2. ASSUME Accounts!Lease(c, conn[c].id), conn[c].id # NoId
      PROVE  LeaseTyped'
  BY <1>2, DaemonAssumption DEF Accounts!Lease, ConnTyped, ConnState
<1>3. CASE UNCHANGED leases
  BY <1>3 DEF leases
<1> QED
  BY <1>1, <1>2, <1>3 DEF ConnAction, ConnStep, Dial, CopierEnds, Accept, OnConnect,
     OnConnectReturns, DialSshd, SessionEnds, OnDisconnect, OnDisconnectReturns, Forget

\* Only runProxy, the signals and the listeners change the process.
LEMMA ConnActionProcess ==
  ASSUME NEW c \in Conn, ConnAction(c)
  PROVE  UNCHANGED <<main, listener, proxies, signals>>
  BY DEF ConnAction, ConnStep, Dial, CopierEnds, Accept, OnConnect, OnConnectReturns,
     DialSshd, SessionEnds, OnDisconnect, OnDisconnectReturns, Forget

\* A step of the process that does not end it: of runProxy, the handler of the
\* signals, a listener, or Restart.
ProcessStep ==
  \/ CleanupOrphans \/ StartProxies \/ InstallHandler \/ HandlerWakes
  \/ AllProxiesReturned \/ Restart
  \/ \E s \in Service : CloseListener(s) \/ ProxyReturns(s) \/ ListenerFails(s)
                        \/ (Listen(s) /\ ~\E how \in Ended : End(how))
  \/ Signal /\ ~\E how \in Ended : End(how)

\* Every step is of the process, ends it, or is of a connection.
LEMMA NextSplit ==
  ASSUME [Next]_vars
  PROVE  \/ UNCHANGED vars
         \/ \E c \in Conn : ConnAction(c)
         \/ ProcessStep
         \/ \E how \in Ended : End(how)
<1>1. CASE MainStep
  BY <1>1 DEF MainStep, ProcessStep, DrainTimeout, Ended
<1>2. CASE Drained
  BY <1>2 DEF Drained, Ended
<1>3. CASE Signal
  BY <1>3 DEF ProcessStep
<1> QED
  BY <1>1, <1>2, <1>3 DEF Next, ConnAction, ProcessStep

\* What such a step may do to the process, and to connections: those still
\* queued at a listener whose Proxy returned are dropped.
LEMMA ProcessStepTyped ==
  ASSUME ProcessTyped, ConnTyped, ProcessStep
  PROVE  /\ ProcessTyped'
         /\ ConnTyped'
         /\ UNCHANGED <<connWg, holders, owner>>
         /\ \A c \in Conn : UNCHANGED conn[c] \/ (At(c, "queued") /\ conn'[c] = Unused)
<1> USE DEF ProcessTyped, ConnTyped, signals, leases
<1>1. CASE CleanupOrphans
  BY <1>1 DEF CleanupOrphans
<1>2. CASE StartProxies
  BY <1>2 DEF StartProxies
<1>3. CASE InstallHandler
  BY <1>3 DEF InstallHandler
<1>4. CASE HandlerWakes
  BY <1>4 DEF HandlerWakes
<1>5. CASE AllProxiesReturned
  BY <1>5 DEF AllProxiesReturned
<1>6. CASE Restart
  BY <1>6 DEF Restart
<1>7. ASSUME NEW s \in Service, CloseListener(s)
      PROVE  ProcessTyped' /\ UNCHANGED <<conn, connWg, holders, owner>>
  BY <1>7 DEF CloseListener
<1>8. ASSUME NEW s \in Service, ProxyReturns(s)
      PROVE  /\ ProcessTyped'
             /\ ConnTyped'
             /\ UNCHANGED <<connWg, holders, owner>>
             /\ \A c \in Conn : UNCHANGED conn[c] \/ (At(c, "queued") /\ conn'[c] = Unused)
  BY <1>8, UnusedType DEF ProxyReturns
<1>9. ASSUME NEW s \in Service, ListenerFails(s)
      PROVE  ProcessTyped' /\ UNCHANGED <<conn, connWg, holders, owner>>
  BY <1>9 DEF ListenerFails
<1>10. ASSUME NEW s \in Service, Listen(s), ~\E how \in Ended : End(how)
       PROVE  ProcessTyped' /\ UNCHANGED <<conn, connWg, holders, owner>>
  BY <1>10 DEF Listen, Ended
<1>11. CASE Signal /\ ~\E how \in Ended : End(how)
  BY <1>11 DEF Signal, Ended
<1> QED
  BY <1>1, <1>2, <1>3, <1>4, <1>5, <1>6, <1>7, <1>8, <1>9, <1>10, <1>11 DEF ProcessStep
-----------------------------------------------------------------------------
(* The WaitGroup.                                                          *)

Running == {c \in Conn : InFlight(c)}

LEMMA RunningFinite == IsFiniteSet(Running)
  BY DaemonAssumption, FS_Subset DEF Running

\* A step after which the same goroutines run leaves the count right.
LEMMA CountSame ==
  ASSUME WaitGroupCounts, connWg' = connWg, \A c \in Conn : InFlight(c)' <=> InFlight(c)
  PROVE  WaitGroupCounts'
<1>1. Running' = Running
  BY DEF Running
<1> QED
  BY <1>1 DEF WaitGroupCounts, Running

\* So does one that starts a goroutine and counts it, as Accept does.
LEMMA CountStarted ==
  ASSUME WaitGroupCounts, NEW c \in Conn, connWg' = connWg + 1,
         ~InFlight(c), InFlight(c)',
         \A d \in Conn \ {c} : InFlight(d)' <=> InFlight(d)
  PROVE  WaitGroupCounts'
<1>1. Running' = Running \union {c} /\ c \notin Running
  BY DEF Running
<1>2. Cardinality(Running') = Cardinality(Running) + 1
  BY <1>1, RunningFinite, FS_AddElement
<1> QED
  BY <1>2 DEF WaitGroupCounts, Running

\* And one that ends a goroutine and uncounts it, as Return does.
LEMMA CountReturned ==
  ASSUME WaitGroupCounts, NEW c \in Conn, connWg' = connWg - 1,
         InFlight(c), ~InFlight(c)',
         \A d \in Conn \ {c} : InFlight(d)' <=> InFlight(d)
  PROVE  WaitGroupCounts'
<1>1. Running' = Running \ {c} /\ c \in Running
  BY DEF Running
<1>2. Cardinality(Running') = Cardinality(Running) - 1
  BY <1>1, RunningFinite, FS_RemoveElement
<1> QED
  BY <1>2 DEF WaitGroupCounts, Running

\* The five ways out of proxyConn, and the rest of it, keep the count.
LEMMA ConnActionCounts ==
  ASSUME ConnTyped, WaitGroupCounts, NEW c \in Conn, ConnAction(c)
  PROVE  WaitGroupCounts'
<1> USE DEF ConnTyped, ConnState, InFlight, At
<1>0. \A d \in Conn \ {c} : conn'[d] = conn[d]
  BY ConnActionAlone
<1>1. CASE Accept(c)
  BY <1>0, <1>1, CountStarted DEF Accept
<1>2. CASE Return(c) /\ InFlight(c)
  BY <1>0, <1>2, CountReturned DEF Return, Goto
<1>3. CASE connWg' = connWg /\ (InFlight(c)' <=> InFlight(c))
  BY <1>0, <1>3, CountSame
<1>4. CASE \E s \in Service, id \in Identity \union {NoId} : Dial(c, s, id)
  BY <1>3, <1>4 DEF Dial, Unused
<1>5. CASE CopierEnds(c)
  BY <1>3, <1>5 DEF CopierEnds
<1>6. CASE OnConnect(c)
  BY <1>2, <1>3, <1>6 DEF OnConnect, Goto
<1>7. CASE OnConnectReturns(c)
  BY <1>2, <1>3, <1>7 DEF OnConnectReturns, Goto
<1>8. CASE DialSshd(c)
  BY <1>3, <1>8 DEF DialSshd, Goto
<1>9. CASE SessionEnds(c)
  BY <1>3, <1>9 DEF SessionEnds
<1>10. CASE OnDisconnect(c)
  BY <1>3, <1>10 DEF OnDisconnect, Goto
<1>11. CASE OnDisconnectReturns(c)
  BY <1>2, <1>11 DEF OnDisconnectReturns
<1>12. CASE Forget(c)
  BY <1>3, <1>12 DEF Forget, Unused
<1> QED
  BY <1>1, <1>4, <1>5, <1>6, <1>7, <1>8, <1>9, <1>10, <1>11, <1>12 DEF ConnAction, ConnStep
-----------------------------------------------------------------------------
(* The leases.                                                             *)

\* What a connection leases is what the hooks of proxyConn have taken for it.
Leases(c, u) ==
  /\ conn[c].pc \in {"ensuring", "connected", "piping", "closing"}
  /\ conn[c].id # NoId /\ UserOf(c) = u

\* Each way through proxyConn gives back precisely what OnConnect took.
LEMMA ConnActionLeases ==
  ASSUME ConnTyped, LeaseTyped, LeaseWhileConnected, NamedWhileEnsuring,
         NEW c \in Conn, ConnAction(c)
  PROVE  LeaseWhileConnected' /\ NamedWhileEnsuring'
<1> USE DEF ConnTyped, ConnState, At, UserOf
<1>0. \A d \in Conn \ {c} : conn'[d] = conn[d]
  BY ConnActionAlone
<1>1. \A d \in Conn, u \in User : d \in holders[u] <=> Leases(d, u)
  BY DEF LeaseWhileConnected, Leases
<1>2. ASSUME \A u \in User : /\ \A d \in Conn \ {c} : d \in holders'[u] <=> d \in holders[u]
                             /\ c \in holders'[u] <=> Leases(c, u)'
      PROVE  LeaseWhileConnected'
  BY <1>0, <1>1, <1>2 DEF LeaseWhileConnected, Leases
<1>3. ASSUME conn'[c].pc = "ensuring" => conn'[c].id # NoId
      PROVE  NamedWhileEnsuring'
  BY <1>0, <1>3 DEF NamedWhileEnsuring
<1>4. ASSUME UNCHANGED leases, \A u \in User : Leases(c, u)' <=> Leases(c, u)
      PROVE  LeaseWhileConnected'
  BY <1>1, <1>2, <1>4 DEF leases
<1>5. ASSUME Accounts!GiveBack(c, UserOf(c)), \A u \in User : ~Leases(c, u)',
             conn[c].id # NoId, Leases(c, UserOf(c))
      PROVE  LeaseWhileConnected'
  <2>1. UserOf(c) \in User
    BY <1>5, DaemonAssumption
  <2>2. \A u \in User : holders'[u] = IF u = UserOf(c) THEN holders[u] \ {c} ELSE holders[u]
    BY <1>5, <2>1 DEF Accounts!GiveBack, LeaseTyped
  <2>3. \A u \in User \ {UserOf(c)} : c \notin holders[u]
    BY <1>1 DEF Leases
  <2> QED
    BY <1>2, <1>5, <2>2, <2>3
<1>6. CASE \E s \in Service, id \in Identity \union {NoId} : Dial(c, s, id)
  BY <1>3, <1>4, <1>6 DEF Dial, Unused, Leases
<1>7. CASE CopierEnds(c)
  BY <1>3, <1>4, <1>7 DEF CopierEnds, Leases, NamedWhileEnsuring
<1>8. CASE Accept(c)
  BY <1>3, <1>4, <1>8 DEF Accept, Leases
<1>9. CASE OnConnect(c)
  <2>1. CASE conn[c].id = NoId /\ Goto(c, "connected") /\ UNCHANGED leases
    BY <1>3, <1>4, <1>9, <2>1 DEF OnConnect, Goto, Leases
  <2>2. CASE conn[c].id # NoId /\ Accounts!Lease(c, conn[c].id) /\ Goto(c, "ensuring")
    <3>1. UserOf(c) \in User
      BY <2>2, DaemonAssumption
    <3>2. \A u \in User : holders'[u] = IF u = UserOf(c) THEN holders[u] \union {c} ELSE holders[u]
      BY <2>2, <3>1 DEF Accounts!Lease, LeaseTyped
    <3>3. \A u \in User : c \notin holders[u]
      BY <2>2 DEF Accounts!Lease
    <3>4. conn'[c] = [conn[c] EXCEPT !.pc = "ensuring"]
      BY <2>2 DEF Goto
    <3>5. \A u \in User : Leases(c, u)' <=> u = UserOf(c)
      BY <2>2, <3>4 DEF Leases
    <3> QED
      BY <1>2, <1>3, <2>2, <3>2, <3>3, <3>4, <3>5
  <2>3. CASE Return(c) /\ UNCHANGED leases
    BY <1>3, <1>4, <1>9, <2>3 DEF OnConnect, Return, Goto, Leases
  <2> QED
    BY <1>9, <2>1, <2>2, <2>3 DEF OnConnect
<1>10. CASE OnConnectReturns(c)
  <2>1. CASE Goto(c, "connected") /\ UNCHANGED leases
    BY <1>3, <1>4, <1>10, <2>1 DEF OnConnectReturns, Goto, Leases
  <2>2. CASE Accounts!GiveBack(c, UserOf(c)) /\ Return(c)
    BY <1>3, <1>5, <1>10, <2>2 DEF OnConnectReturns, Return, Goto, Leases, NamedWhileEnsuring
  <2> QED
    BY <1>10, <2>1, <2>2 DEF OnConnectReturns
<1>11. CASE DialSshd(c)
  BY <1>3, <1>4, <1>11 DEF DialSshd, Goto, Leases
<1>12. CASE SessionEnds(c)
  BY <1>3, <1>4, <1>12 DEF SessionEnds, Leases
<1>13. CASE OnDisconnect(c)
  <2>1. CASE conn[c].id = NoId /\ UNCHANGED leases
    BY <1>3, <1>4, <1>13, <2>1 DEF OnDisconnect, Goto, Leases
  <2>2. CASE conn[c].id # NoId /\ Accounts!GiveBack(c, UserOf(c))
    BY <1>3, <1>5, <1>13, <2>2 DEF OnDisconnect, Goto, Leases
  <2> QED
    BY <1>13, <2>1, <2>2 DEF OnDisconnect
<1>14. CASE OnDisconnectReturns(c)
  BY <1>3, <1>4, <1>14 DEF OnDisconnectReturns, Return, Goto, Leases
<1>15. CASE Forget(c)
  BY <1>3, <1>4, <1>15 DEF Forget, Unused, Leases
<1> QED
  BY <1>6, <1>7, <1>8, <1>9, <1>10, <1>11, <1>12, <1>13, <1>14, <1>15 DEF ConnAction, ConnStep
-----------------------------------------------------------------------------
(* The invariant.                                                          *)

\* Nothing runs and nothing is leased when a process begins (Init).
LEMMA InitInv == Init => IInv
<1> SUFFICES ASSUME Init PROVE IInv
  OBVIOUS
<1>1. ProcessTyped /\ ConnTyped /\ LeaseTyped
  BY UnusedType DEF Init, ProcessTyped, ConnTyped, LeaseTyped, Accounts!Init
<1>2. Running = {}
  BY DEF Init, Running, InFlight, Unused
<1>3. WaitGroupCounts
  BY <1>2, FS_EmptySet DEF Init, WaitGroupCounts, Running
<1>4. LeaseWhileConnected /\ NamedWhileEnsuring /\ ProxiesWhileServing
  BY DEF Init, Accounts!Init, LeaseWhileConnected, NamedWhileEnsuring, ProxiesWhileServing,
     At, Unused
<1> QED
  BY <1>1, <1>3, <1>4 DEF IInv

\* Nor is anything left when it has ended (End).
LEMMA EndInv ==
  ASSUME NEW how \in Ended, End(how)
  PROVE  IInv'
<1>1. ProcessTyped' /\ ConnTyped' /\ LeaseTyped'
  BY EndTyped
<1>2. Running' = {}
  BY DEF End, Running, InFlight, Unused
<1>3. WaitGroupCounts'
  BY <1>2, FS_EmptySet DEF End, WaitGroupCounts, Running
<1>4. LeaseWhileConnected' /\ NamedWhileEnsuring' /\ ProxiesWhileServing'
  BY DEF End, Accounts!EndAll, LeaseWhileConnected, NamedWhileEnsuring, ProxiesWhileServing,
     At, Unused
<1> QED
  BY <1>1, <1>3, <1>4 DEF IInv

\* The steps of the process leave goroutines, counts and leases alone.
LEMMA ProcessStepInv ==
  ASSUME IInv, ProcessStep
  PROVE  IInv'
<1>1. /\ ProcessTyped' /\ ConnTyped'
      /\ UNCHANGED <<connWg, holders, owner>>
      /\ \A c \in Conn : UNCHANGED conn[c] \/ (At(c, "queued") /\ conn'[c] = Unused)
  BY ProcessStepTyped DEF IInv
<1>2. WaitGroupCounts'
  <2>1. \A c \in Conn : InFlight(c)' <=> InFlight(c)
    BY <1>1 DEF InFlight, At, Unused
  <2> QED
    BY <1>1, <2>1, CountSame DEF IInv
<1>3. LeaseWhileConnected' /\ NamedWhileEnsuring'
  <2>1. \A c \in Conn, u \in User : Leases(c, u)' <=> Leases(c, u)
    BY <1>1 DEF Leases, UserOf, At, Unused
  <2> QED
    BY <1>1, <2>1 DEF IInv, LeaseWhileConnected, Leases, NamedWhileEnsuring, At, Unused
<1>4. ProxiesWhileServing'
  BY DEF IInv, ProxiesWhileServing, ProcessTyped, ProcessStep, CleanupOrphans, StartProxies,
     InstallHandler, HandlerWakes, AllProxiesReturned, Restart, CloseListener, ProxyReturns,
     ListenerFails, Listen, Signal, Ended
<1> QED
  BY <1>1, <1>2, <1>3, <1>4 DEF IInv, LeaseTyped

LEMMA StepInv == IInv /\ [Next]_vars => IInv'
<1> SUFFICES ASSUME IInv, [Next]_vars PROVE IInv'
  OBVIOUS
<1>1. CASE UNCHANGED vars
  BY <1>1 DEF vars, signals, leases, IInv, ProcessTyped, ConnTyped, LeaseTyped, WaitGroupCounts,
     LeaseWhileConnected, NamedWhileEnsuring, ProxiesWhileServing, InFlight, At, UserOf
<1>2. ASSUME NEW c \in Conn, ConnAction(c)
      PROVE  IInv'
  <2>1. ProcessTyped' /\ ProxiesWhileServing'
    BY <1>2, ConnActionProcess DEF IInv, ProcessTyped, ProxiesWhileServing, signals
  <2>2. ConnTyped' /\ LeaseTyped'
    BY <1>2, ConnActionTyped, ConnActionLeaseTyped DEF IInv
  <2>3. WaitGroupCounts'
    BY <1>2, ConnActionCounts DEF IInv
  <2>4. LeaseWhileConnected' /\ NamedWhileEnsuring'
    BY <1>2, ConnActionLeases DEF IInv
  <2> QED
    BY <2>1, <2>2, <2>3, <2>4 DEF IInv
<1> QED
  BY <1>1, <1>2, NextSplit, ProcessStepInv, EndInv

\* The invariant implies the types, that of the WaitGroup by what it counts.
LEMMA InvTypeOK == IInv => TypeOK
  BY RunningFinite, FS_CardinalityType
     DEF IInv, TypeOK, ProcessTyped, ConnTyped, ConnState, LeaseTyped, WaitGroupCounts, Running
-----------------------------------------------------------------------------
(* The theorems.                                                           *)

\* Every variable has its type (HostDaemon).
THEOREM DaemonTypeOK == Spec => []TypeOK
  BY InitInv, StepInv, InvTypeOK, PTL DEF Spec

\* The WaitGroup of connections counts exactly the proxyConn goroutines that run.
THEOREM DaemonWaitGroupCounts == Spec => []WaitGroupCounts
<1>1. IInv => WaitGroupCounts
  BY DEF IInv
<1> QED
  BY <1>1, InitInv, StepInv, PTL DEF Spec

\* A connection leases its user from OnConnect to OnDisconnect, on every way.
THEOREM DaemonLeaseWhileConnected == Spec => []LeaseWhileConnected
<1>1. IInv => LeaseWhileConnected
  BY DEF IInv
<1> QED
  BY <1>1, InitInv, StepInv, PTL DEF Spec

\* A drain that says it is complete has ended every session (runProxy's end).
THEOREM DaemonDrainIsComplete == Spec => DrainIsComplete
<1>1. ASSUME IInv, [Next]_vars, main' = "drained", main # "drained"
      PROVE  (\A c \in Conn : ~InFlight(c)) /\ (\A u \in User : holders[u] = {})
  <2>1. Drained
    <3>1. ~\E c \in Conn : ConnAction(c)
      BY <1>1, ConnActionProcess
    <3>2. ~MainStep /\ ~Signal /\ ~Restart
      BY <1>1 DEF MainStep, CleanupOrphans, StartProxies, InstallHandler, HandlerWakes,
         AllProxiesReturned, DrainTimeout, Listen, CloseListener, ProxyReturns, Signal,
         Restart, End
    <3> QED
      BY <1>1, <3>1, <3>2 DEF Next, ConnAction, vars, ListenerFails
  <2>2. Running = {}
    BY <1>1, <2>1, RunningFinite, FS_EmptySet DEF IInv, WaitGroupCounts, Running, Drained
  <2>3. \A c \in Conn : ~InFlight(c)
    BY <2>2 DEF Running
  <2>4. \A u \in User : holders[u] = {}
    BY <1>1, <2>3 DEF IInv, LeaseTyped, LeaseWhileConnected, InFlight
  <2> QED
    BY <2>3, <2>4
<1>2. IInv /\ [Next]_vars =>
        [main' = "drained" /\ main # "drained" =>
           /\ \A c \in Conn : ~InFlight(c)
           /\ \A u \in User : holders[u] = {}]_vars
  BY <1>1
<1> QED
  BY <1>2, InitInv, StepInv, PTL DEF Spec, DrainIsComplete

\* Connections begin only between CleanupOrphans and the drain (StartProxies,
\* AllProxiesReturned).
THEOREM DaemonAcceptedWhileServing == Spec => AcceptedWhileServing
<1>1. ASSUME IInv, [Next]_vars, NEW c \in Conn, InFlight(c)', ~InFlight(c)
      PROVE  main \in {"notifying", "serving"}
  <2>1. ~UNCHANGED vars
    BY <1>1 DEF vars, InFlight
  <2>2. ~ProcessStep
    BY <1>1, ProcessStepTyped DEF IInv, InFlight, At, Unused
  <2>3. ~\E how \in Ended : End(how)
    BY <1>1 DEF End, InFlight, Unused
  <2>4. PICK d \in Conn : ConnAction(d)
    BY <1>1, <2>1, <2>2, <2>3, NextSplit
  <2>5. c = d
    BY <1>1, <2>4, ConnActionAlone DEF IInv, InFlight
  <2>6. CASE Accept(d)
    BY <1>1, <2>6 DEF Accept, IInv, ProxiesWhileServing
  <2>7. CASE \E s \in Service, id \in Identity \union {NoId} : Dial(d, s, id)
    BY <1>1, <2>5, <2>7 DEF Dial, Unused, InFlight, IInv, ConnTyped
  <2>8. CASE CopierEnds(d)
    BY <1>1, <2>5, <2>8 DEF CopierEnds, InFlight, IInv, ConnTyped, ConnState
  <2>9. CASE Forget(d)
    BY <1>1, <2>5, <2>9 DEF Forget, Unused, InFlight, IInv, ConnTyped
  <2>10. CASE \/ OnConnect(d) \/ OnConnectReturns(d) \/ DialSshd(d)
              \/ SessionEnds(d) \/ OnDisconnect(d) \/ OnDisconnectReturns(d)
    BY <1>1, <2>5, <2>10 DEF OnConnect, OnConnectReturns, DialSshd, SessionEnds, OnDisconnect,
       OnDisconnectReturns, InFlight, At
  <2> QED
    BY <2>4, <2>6, <2>7, <2>8, <2>9, <2>10 DEF ConnAction, ConnStep
<1>2. IInv /\ [Next]_vars =>
        [\A c \in Conn : InFlight(c)' /\ ~InFlight(c) => main \in {"notifying", "serving"}]_vars
  BY <1>1
<1> QED
  BY <1>2, InitInv, StepInv, PTL DEF Spec, AcceptedWhileServing
=============================================================================
