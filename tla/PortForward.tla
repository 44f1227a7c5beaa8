----------------------------- MODULE PortForward -----------------------------
(***************************************************************************)
(* ziti-ssh connect with -L, -R and -D: the tail of runConnect, one        *)
(* goroutine and one watcher per forward, one handler per forwarded        *)
(* connection with its two copying goroutines, and the shell, if any.      *)
(*                                                                         *)
(* They are tied together by one context, cancelled by a signal, by the    *)
(* end of the shell or by the return of runConnect, and by one WaitGroup,  *)
(* which counts the forwards and the shell but not the handlers.           *)
(***************************************************************************)
EXTENDS Integers, FiniteSets

CONSTANTS
  Forward,   \* the forwards asked for
  Kind,      \* forward -> "local", "remote" or "dynamic"
  Conn,      \* forwarded connections alive at one time
  NoForward  \* the forward of an unused connection

ASSUME ForwardAssumption ==
  /\ Kind \in [Forward -> {"local", "remote", "dynamic"}]
  /\ NoForward \notin Forward
  /\ IsFiniteSet(Forward)

VARIABLES
  main,       \* "waiting" in wg.Wait, "returned", "exited" (os.Exit)
  transport,  \* is the SSH connection up?
  sigCh,      \* is there a signal in sigCh (of capacity one)?
  watcher,    \* is the signal goroutine still there?
  cancelled,  \* is fwdCtx done?
  wg,         \* the WaitGroup
  forward,    \* forward -> "starting", "accepting" or "returned"
  listener,   \* forward -> "none", "open" or "closed"
  shell,      \* "none" (-N), "running", "reported", "cancelled", "done"
  errCh,      \* has sessionErrCh the result of the shell?
  result,     \* what runConnect returned: "none", "nil" or "shell"
  conn        \* connection -> its forward, handler and copiers

session == <<shell, errCh, result>>
vars == <<main, transport, sigCh, watcher, cancelled, wg, forward, listener, session, conn>>

Unused == [fwd |-> NoForward, pc |-> "none", copiers |-> 0, done |-> 0]
At(k, label) == conn[k].pc = label
Goto(k, label) == conn' = [conn EXCEPT ![k].pc = label]
Running == main = "waiting"

\* The process is gone, and all it had open: runConnect has returned with its
\* deferred calls, or os.Exit was called.
End(how, res) ==
  /\ main' = how /\ result' = res
  /\ cancelled' = TRUE /\ watcher' = FALSE
  /\ forward' = [f \in Forward |-> "returned"]
  /\ listener' = [f \in Forward |-> "closed"]
  /\ conn' = [k \in Conn |-> Unused]
  /\ UNCHANGED <<transport, sigCh, wg, shell, errCh>>
-----------------------------------------------------------------------------
(* RunLocalForward, RunRemoteForward, RunDynamicProxy.                     *)

\* A port may be taken or refused; -R asks over the SSH connection.
Listen(f) ==
  /\ Running
  /\ forward[f] = "starting"
  /\ \/ /\ Kind[f] = "remote" => transport
        /\ forward' = [forward EXCEPT ![f] = "accepting"]
        /\ listener' = [listener EXCEPT ![f] = "open"]
        /\ UNCHANGED wg
     \/ /\ forward' = [forward EXCEPT ![f] = "returned"]
        /\ wg' = wg - 1
        /\ UNCHANGED listener
  /\ UNCHANGED <<main, transport, sigCh, watcher, cancelled, session, conn>>

\* The watcher: <-ctx.Done(), then ln.Close().  What was queued is reset.
CloseListenerLocalOnly(f) ==  \* mutant: no watcher in RunRemoteForward
  /\ cancelled
  /\ Kind[f] # "remote"
  /\ listener[f] = "open"
  /\ listener' = [listener EXCEPT ![f] = "closed"]
  /\ conn' = [k \in Conn |-> IF At(k, "queued") /\ conn[k].fwd = f THEN Unused ELSE conn[k]]
  /\ UNCHANGED <<main, transport, sigCh, watcher, cancelled, wg, forward, session>>
CloseListener(f) ==
  /\ cancelled
  /\ listener[f] = "open"
  /\ listener' = [listener EXCEPT ![f] = "closed"]
  /\ conn' = [k \in Conn |-> IF At(k, "queued") /\ conn[k].fwd = f THEN Unused ELSE conn[k]]
  /\ UNCHANGED <<main, transport, sigCh, watcher, cancelled, wg, forward, session>>

Accept(k) ==
  /\ At(k, "queued")
  /\ forward[conn[k].fwd] = "accepting"
  /\ Goto(k, IF Kind[conn[k].fwd] = "dynamic" THEN "handshake" ELSE "dialing")
  /\ UNCHANGED <<main, transport, sigCh, watcher, cancelled, wg, forward, listener, session>>

\* Accept returns an error: of a closed listener, of -R without the SSH
\* connection, or any other.  The listener is left to the watcher.
AcceptFails(f) ==
  /\ Running
  /\ forward[f] = "accepting"
  /\ forward' = [forward EXCEPT ![f] = "returned"]
  /\ wg' = wg - 1
  /\ UNCHANGED <<main, transport, sigCh, watcher, cancelled, listener, session, conn>>

AcceptMustFail(f) == listener[f] = "closed" \/ (Kind[f] = "remote" /\ ~transport)
-----------------------------------------------------------------------------
(* The handlers.                                                           *)

ClientConnects(k, f) ==
  /\ Running
  /\ At(k, "none")
  /\ listener[f] = "open"
  /\ Kind[f] = "remote" => transport
  /\ conn' = [conn EXCEPT ![k] = [Unused EXCEPT !.fwd = f, !.pc = "queued"]]
  /\ UNCHANGED <<main, transport, sigCh, watcher, cancelled, wg, forward, listener, session>>

\* SOCKS5: the handshake is read with no deadline and heeds no context.
Handshake(k) ==
  /\ At(k, "handshake")
  /\ Goto(k, "dialing") \/ Goto(k, "closed")
  /\ UNCHANGED <<main, transport, sigCh, watcher, cancelled, wg, forward, listener, session>>

\* DialContext; -L and -D through the SSH connection.  It may fail, and may
\* succeed although the context has just ended.
DialTarget(k) ==
  /\ At(k, "dialing")
  /\ \/ /\ transport \/ Kind[conn[k].fwd] = "remote"
        /\ conn' = [conn EXCEPT ![k].pc = "copying", ![k].copiers = 2]
     \/ Goto(k, "closed")
  /\ UNCHANGED <<main, transport, sigCh, watcher, cancelled, wg, forward, listener, session>>

\* One direction ends and reports on the done channel, which has room for both.
CopierEnds(k) ==
  /\ conn[k].copiers > 0
  /\ conn[k].done < 2
  /\ conn' = [conn EXCEPT ![k].copiers = @ - 1, ![k].done = @ + 1]
  /\ UNCHANGED <<main, transport, sigCh, watcher, cancelled, wg, forward, listener, session>>

\* biCopy: the first direction to end or the context ends both; the deferred
\* calls close both connections.
BiCopyReturns(k) ==
  /\ At(k, "copying")
  /\ conn[k].done > 0 \/ cancelled
  /\ Goto(k, "closed")
  /\ UNCHANGED <<main, transport, sigCh, watcher, cancelled, wg, forward, listener, session>>

Forget(k) ==
  /\ At(k, "closed")
  /\ conn[k].copiers = 0
  /\ conn' = [conn EXCEPT ![k] = Unused]
  /\ UNCHANGED <<main, transport, sigCh, watcher, cancelled, wg, forward, listener, session>>
-----------------------------------------------------------------------------
(* runConnect.                                                             *)

\* SIGINT or SIGTERM; one that comes after the goroutine has gone stays in
\* sigCh, for nobody.
Signal ==
  /\ Running
  /\ sigCh' = TRUE
  /\ UNCHANGED <<main, transport, watcher, cancelled, wg, forward, listener, session, conn>>

\* The signal goroutine: the first of a signal and the end of the context.
WatcherWakes ==
  /\ Running
  /\ watcher
  /\ \/ sigCh /\ sigCh' = FALSE /\ cancelled' = TRUE
     \/ cancelled /\ UNCHANGED <<sigCh, cancelled>>
  /\ watcher' = FALSE
  /\ UNCHANGED <<main, transport, wg, forward, listener, session, conn>>

\* The shell or the command ends: with status zero or an error of the
\* connection, its goroutine reports; otherwise os.Exit ends everything.
ShellEnds ==
  /\ Running
  /\ shell = "running"
  /\ \/ /\ shell' = "reported" /\ errCh' = TRUE
        /\ UNCHANGED <<main, transport, sigCh, watcher, cancelled, wg, forward, listener, result, conn>>
     \/ transport /\ End("exited", "none")

\* Its deferred calls: fwdCancel, then wg.Done.
ShellCancels ==
  /\ Running
  /\ shell = "reported"
  /\ shell' = "cancelled"
  /\ cancelled' = TRUE
  /\ UNCHANGED <<main, transport, sigCh, watcher, wg, forward, listener, errCh, result, conn>>

ShellDone ==
  /\ Running
  /\ shell = "cancelled"
  /\ shell' = "done"
  /\ wg' = wg - 1
  /\ UNCHANGED <<main, transport, sigCh, watcher, cancelled, forward, listener, errCh, result, conn>>

\* wg.Wait returns; the result of the shell is returned if it is there.
WaitReturns ==
  /\ Running
  /\ wg = 0
  /\ End("returned", IF errCh THEN "shell" ELSE "nil")

TransportLost ==
  /\ Running
  /\ transport
  /\ transport' = FALSE
  /\ UNCHANGED <<main, sigCh, watcher, cancelled, wg, forward, listener, session, conn>>
-----------------------------------------------------------------------------
\* wg.Add(1) for each forward, and for the shell.
CountedForwardsOnly(sh) == Cardinality(Forward)  \* mutant: the shell is not counted
Counted(sh) == Cardinality(Forward) + IF sh = "none" THEN 0 ELSE 1

Init ==
  /\ main = "waiting"
  /\ transport = TRUE
  /\ sigCh = FALSE
  /\ watcher = TRUE
  /\ cancelled = FALSE
  /\ forward = [f \in Forward |-> "starting"]
  /\ listener = [f \in Forward |-> "none"]
  /\ shell \in {"none", "running"}
  /\ wg = Counted(shell)
  /\ errCh = FALSE
  /\ result = "none"
  /\ conn = [k \in Conn |-> Unused]

ForwardStep(f) == Listen(f) \/ CloseListener(f) \/ (AcceptMustFail(f) /\ AcceptFails(f))
HandlerStep(k) ==
  \/ Accept(k) \/ DialTarget(k) \/ BiCopyReturns(k) \/ Forget(k)
  \/ At(k, "closed") /\ CopierEnds(k)
MainStep ==
  WatcherWakes \/ ShellCancels \/ ShellDone \/ WaitReturns \/ (~transport /\ ShellEnds)

Next ==
  \/ \E f \in Forward : ForwardStep(f) \/ AcceptFails(f)
  \/ \E k \in Conn :
       \/ \E f \in Forward : ClientConnects(k, f)
       \/ HandlerStep(k) \/ Handshake(k) \/ CopierEnds(k)
  \/ MainStep \/ ShellEnds \/ Signal \/ TransportLost

Spec == Init /\ [][Next]_vars

\* Goroutines run on, net.Listen and DialContext return, and a copier ends once
\* its connections are closed.  Nothing makes a client come, finish its
\* handshake or go, the shell end, a signal arrive or the connection break.
Fairness ==
  /\ \A f \in Forward : WF_vars(Listen(f)) /\ WF_vars(CloseListener(f))
                        /\ WF_vars(AcceptMustFail(f) /\ AcceptFails(f))
  /\ \A k \in Conn : WF_vars(HandlerStep(k))
  /\ WF_vars(MainStep)

FairSpec == Spec /\ Fairness
-----------------------------------------------------------------------------
(* Properties.                                                             *)

\* With a shell, what connect returns is how the shell ended: it never returns
\* over an open shell, nor before its result is there to be read.
ReturnsShellResult == main = "returned" /\ shell # "none" => result = "shell"

\* All that a forward holds but the clients that never finish a SOCKS5 request.
Released ==
  /\ \A f \in Forward : forward[f] = "returned" /\ listener[f] # "open"
  /\ \A k \in Conn : At(k, "none") \/ At(k, "handshake")

\* A signal, or the end of the shell, lets go of every port and of every
\* forwarded connection, also those of a forward that had failed, and ends the
\* command unless a shell is still open.
CancelReleases ==
  sigCh \/ cancelled ~> /\ Released
                        /\ main # "waiting" \/ shell = "running"
-----------------------------------------------------------------------------
(* What the documents say and the code does not do.                        *)

\* docs/usage.md:132: with -N the process blocks until Ctrl-C is pressed.
NoShellBlocksUntilSignal ==
  [][main' = "returned" /\ shell = "none" => cancelled]_vars
=============================================================================
