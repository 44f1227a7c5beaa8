------------------------------ MODULE CAServer ------------------------------
(***************************************************************************)
(* ziti-ssh-ca run: one goroutine per connection (handleConn) that answers *)
(* one request, the rate limiter they share, and the shutdown.             *)
(*                                                                         *)
(* The actions are those of the server; CertClient composes them with the  *)
(* clients at the other end of the connections.  The limiter is a bucket   *)
(* of tokens per identity, which RateLimit is shown to implement.  When    *)
(* the 30 s deadline of a request or of the drain passes is left open.     *)
(***************************************************************************)
EXTENDS Naturals, FiniteSets

CONSTANTS
  Conn,        \* connections alive at one time
  Id,          \* Ziti identities
  Mode,        \* --mode: "shared" or "per-identity"
  Principal,   \* --principal
  Derive,      \* ca.DeriveUsername
  TTL,         \* --cert-ttl, in ticks
  Burst,       \* --rate-burst
  NoId,        \* the name of a caller that has none
  NoLine,      \* nothing was sent
  EmptyLine, KeyLine,    \* requests; a malformed key is a KeyLine that fails
  CAKeyLine, LimitLine   \* answers that are not certificates

Request == {EmptyLine, KeyLine}
Principals == {Principal} \union {Derive[id] : id \in Id}
Cert == [id: Id, principal: Principals, left: 0..TTL]
Answer == Cert \union {CAKeyLine, LimitLine}

ASSUME CAAssumption ==
  /\ IsFiniteSet(Conn)
  /\ Mode \in {"shared", "per-identity"}
  /\ NoId \notin Id
  /\ TTL \in Nat \ {0}
  /\ Burst \in Nat \ {0}
  /\ NoLine \notin Request \union Answer
  /\ CAKeyLine \notin Cert /\ LimitLine \notin Cert

VARIABLES
  main,      \* where run is, or how the process ended
  listener,  \* "unbound", "open" or "closed"
  sigCh,     \* is there a signal in sigCh (of capacity one)?
  watcher,   \* the signal goroutine: "unborn", "waiting" or "done"
  conn,      \* connection -> its goroutine, caller, request, answer, client end
  wg,        \* the WaitGroup of the handlers
  tokens     \* identity -> tokens left to it

process == <<main, listener, sigCh, watcher>>
serverVars == <<process, conn, wg, tokens>>

Ended == {"drained", "timeout", "error", "killed"}
-----------------------------------------------------------------------------
(* Connections.                                                            *)

\* open: the client's end; pc: the goroutine of handleConn.
Unused == [pc |-> "none", id |-> NoId, line |-> NoLine, answer |-> NoLine, open |-> FALSE]

At(c, label) == conn[c].pc = label
Goto(c, label) == conn' = [conn EXCEPT ![c].pc = label]
Serving(c) == conn[c].pc \in {"accepted", "reading", "granted", "writing"}

\* A closed connection is forgotten once the client has closed its end too;
\* until then what matters is the answer.
Closed(r) ==
  IF r.open THEN [r EXCEPT !.pc = "closed", !.line = NoLine] ELSE Unused

\* handleConn returns: conn.Close, then wg.Done.
ReturnLeavesOpen(c) ==  \* mutant: conn.Close is not deferred but follows the answer
  /\ conn' = [conn EXCEPT ![c] = IF @.open THEN [@ EXCEPT !.pc = "none"] ELSE Unused]
  /\ wg' = wg - 1
Return(c) == conn' = [conn EXCEPT ![c] = Closed(@)] /\ wg' = wg - 1

AcceptAddsLater(c) ==  \* mutant: wg.Add(1) left to the goroutine, not yet run
  /\ main = "serving"
  /\ At(c, "queued")
  /\ Goto(c, "accepted")
  /\ UNCHANGED <<process, wg, tokens>>
Accept(c) ==
  /\ main = "serving"
  /\ At(c, "queued")
  /\ Goto(c, "accepted")
  /\ wg' = wg + 1
  /\ UNCHANGED <<process, tokens>>

\* A caller without a name is turned away, and so is one whose connection
\* takes no deadline.  A derived user name is never empty (Usernames).
Identify(c) ==
  /\ At(c, "accepted")
  /\ \/ conn[c].id # NoId /\ Goto(c, "reading") /\ UNCHANGED wg
     \/ conn[c].id = NoId /\ Return(c)
     \/ ~conn[c].open /\ Return(c)
  /\ UNCHANGED <<process, tokens>>

\* The deadline passes before a line has come, or the client is gone.
ReadFailsOnEOF(c) ==  \* mutant: no SetDeadline
  /\ At(c, "reading")
  /\ ~conn[c].open
  /\ Return(c)
  /\ UNCHANGED <<process, tokens>>
ReadFails(c) ==
  /\ At(c, "reading")
  /\ conn[c].line = NoLine \/ ~conn[c].open
  /\ Return(c)
  /\ UNCHANGED <<process, tokens>>

\* limiter.Allow
Take(id) == tokens[id] > 0 /\ tokens' = [tokens EXCEPT ![id] = @ - 1]
Refused(id) == tokens[id] = 0 /\ UNCHANGED tokens

\* What is on its way to a client that is gone does not matter.
Reply(c, line) ==
  conn' = [conn EXCEPT ![c].pc = "writing", ![c].line = NoLine,
                       ![c].answer = IF conn[c].open THEN line ELSE NoLine]

\* An empty line asks for the CA key and costs nothing; any other, well formed
\* or not, costs a token.
ReadLine(c) ==
  /\ At(c, "reading")
  /\ conn[c].line # NoLine
  /\ \/ conn[c].line = EmptyLine /\ Reply(c, CAKeyLine) /\ UNCHANGED tokens
     \/ conn[c].line # EmptyLine /\ Take(conn[c].id) /\ Goto(c, "granted")
     \/ conn[c].line # EmptyLine /\ Refused(conn[c].id) /\ Reply(c, LimitLine)
  /\ UNCHANGED <<process, wg>>

EffectivePrincipal(id) == IF Mode = "per-identity" THEN Derive[id] ELSE Principal

SignedForFlag(id) ==  \* mutant: the operator's principal in both modes
  [id |-> id, principal |-> Principal, left |-> TTL]
Signed(id) == [id |-> id, principal |-> EffectivePrincipal(id), left |-> TTL]

\* ParseAuthorizedKey, SignCert: if either fails there is no answer.
SignCert(c) ==
  /\ At(c, "granted")
  /\ \/ Reply(c, Signed(conn[c].id)) /\ UNCHANGED wg
     \/ Return(c)
  /\ UNCHANGED <<process, tokens>>

\* The answer is written, unless the deadline has passed, and the handler returns.
Finish(c) ==
  /\ At(c, "writing")
  /\ \E sent \in {conn[c].answer, NoLine} :
       conn' = [conn EXCEPT ![c] = Closed([@ EXCEPT !.answer = sent])]
  /\ wg' = wg - 1
  /\ UNCHANGED <<process, tokens>>
-----------------------------------------------------------------------------
(* run.                                                                    *)

\* The process ends: what it had not answered is not answered, and what it knew
\* of past requests is forgotten.
End(how) ==
  /\ main' = how
  /\ listener' = "unbound"
  /\ sigCh' = FALSE /\ watcher' = "unborn"
  /\ conn' = [c \in Conn |->
                IF At(c, "none") THEN Unused
                ELSE Closed(IF At(c, "closed") THEN conn[c] ELSE [conn[c] EXCEPT !.answer = NoLine])]
  /\ wg' = 0
  /\ tokens' = [id \in Id |-> Burst]

\* The CA key, the identity, authenticate and listen; then the signal handler.
Bind ==
  /\ main = "starting"
  /\ \/ main' = "bound" /\ listener' = "open" /\ UNCHANGED <<sigCh, watcher, conn, wg, tokens>>
     \/ End("error")

InstallHandler ==
  /\ main = "bound"
  /\ main' = "serving"
  /\ watcher' = "waiting"
  /\ UNCHANGED <<listener, sigCh, conn, wg, tokens>>

\* SIGTERM or SIGINT.  The registration outlives the goroutine, so that a
\* signal that comes later changes nothing: it goes into sigCh and stays there.
Signal ==
  \/ main \in {"starting", "bound"} /\ End("killed")
  \/ /\ watcher = "waiting"
     /\ sigCh' = TRUE
     /\ UNCHANGED <<main, listener, watcher, conn, wg, tokens>>

WatcherStopsServing ==  \* mutant: STOPPING=1 is sent and the listener left open
  /\ watcher = "waiting" /\ sigCh
  /\ sigCh' = FALSE /\ watcher' = "done"
  /\ UNCHANGED <<main, listener, conn, wg, tokens>>
CloseListener ==
  /\ watcher = "waiting" /\ sigCh
  /\ sigCh' = FALSE /\ watcher' = "done"
  /\ listener' = "closed"
  /\ UNCHANGED <<main, conn, wg, tokens>>

\* A listener the SDK gives up by itself.
ListenerFails ==
  /\ listener = "open"
  /\ listener' = "closed"
  /\ UNCHANGED <<main, sigCh, watcher, conn, wg, tokens>>

\* Accept fails: the limiter's sweep is stopped, and the drain begins.  What
\* was still queued is never accepted.
AcceptFails ==
  /\ main = "serving"
  /\ listener = "closed"
  /\ main' = "draining"
  /\ conn' = [c \in Conn |-> IF At(c, "queued") THEN Closed(conn[c]) ELSE conn[c]]
  /\ UNCHANGED <<listener, sigCh, watcher, wg, tokens>>

Drained == main = "draining" /\ wg = 0 /\ End("drained")

DrainTimeout == main = "draining" /\ End("timeout")

Restart ==
  /\ main \in Ended
  /\ main' = "starting"
  /\ UNCHANGED <<listener, sigCh, watcher, conn, wg, tokens>>
-----------------------------------------------------------------------------
ServerInit ==
  /\ main = "starting"
  /\ listener = "unbound"
  /\ sigCh = FALSE /\ watcher = "unborn"
  /\ conn = [c \in Conn |-> Unused]
  /\ wg = 0
  /\ tokens = [id \in Id |-> Burst]

Handle(c) ==
  \/ Accept(c) \/ Identify(c) \/ ReadFails(c) \/ ReadLine(c) \/ SignCert(c) \/ Finish(c)

Run == Bind \/ InstallHandler \/ CloseListener \/ AcceptFails \/ Drained \/ DrainTimeout

ServerTypeOK ==
  /\ main \in {"starting", "bound", "serving", "draining"} \union Ended
  /\ listener \in {"unbound", "open", "closed"}
  /\ sigCh \in BOOLEAN
  /\ watcher \in {"unborn", "waiting", "done"}
  /\ conn \in [Conn -> [pc: {"none", "queued", "accepted", "reading", "granted", "writing",
                             "closed"},
                        id: Id \union {NoId}, line: Request \union {NoLine},
                        answer: Answer \union {NoLine}, open: BOOLEAN]]
  /\ wg \in Nat
  /\ tokens \in [Id -> 0..Burst]
=============================================================================
