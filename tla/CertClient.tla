----------------------------- MODULE CertClient -----------------------------
(***************************************************************************)
(* The certificate a user's ziti-ssh commands share: ziti-ssh sign and     *)
(* connect processes of one home directory, each with a connection to the  *)
(* CA server of CAServer, and other clients of its service.                *)
(*                                                                         *)
(* The certificate is a file next to the key: connect reads it to see if   *)
(* it must be renewed, runSign replaces it, and connect reads it again to  *)
(* log in.  Nothing locks it in between.                                   *)
(***************************************************************************)
EXTENDS CAServer

CONSTANTS
  Ours,    \* connections of ziti-ssh processes
  Other,   \* connections of other clients
  Caller,  \* the Ziti identity each client uses
  Margin   \* connect renews a certificate with less than this left, in ticks

ASSUME ClientAssumption ==
  /\ Conn = Ours \union Other
  /\ Caller \in [Conn -> Id]
  /\ Margin \in Nat

VARIABLES
  client,  \* process -> where it is, and the line it was sent
  file     \* <key>-cert.pub: a line, or NoLine if there is none

vars == <<serverVars, client, file>>

Idle == [pc |-> "idle", line |-> NoLine]

In(c, label) == client[c].pc = label
Become(c, label) == client' = [client EXCEPT ![c].pc = label]
Stop(c) == client' = [client EXCEPT ![c] = Idle]

\* The client's end of its connection is closed.
HangUp(c) ==
  conn' = [conn EXCEPT ![c] = IF At(c, "closed") THEN Unused
                              ELSE [@ EXCEPT !.open = FALSE, !.answer = NoLine]]
-----------------------------------------------------------------------------
(* connect and sign.                                                       *)

\* Missing, not a certificate, or about to expire.  Time has gone by since it
\* was signed: less than left ticks are left.
CertNeedsRefresh == file \notin Cert \/ file.left <= Margin

\* A process is begun: the slot is free once the server has let go of the last
\* connection of it.
Free(c) == In(c, "idle") /\ At(c, "none")

Connect(c) ==
  /\ Free(c)
  /\ Become(c, IF CertNeedsRefresh THEN "signing" ELSE "loading")
  /\ UNCHANGED <<serverVars, file>>

Sign(c) ==
  /\ Free(c)
  /\ Become(c, "signing")
  /\ UNCHANGED <<serverVars, file>>

Queue(c, id, line) ==
  /\ listener = "open"
  /\ conn' = [conn EXCEPT ![c] = [Unused EXCEPT !.pc = "queued", !.id = id, !.line = line,
                                                !.open = TRUE]]

\* The key, authenticate and dial, each of which may fail or time out; the line
\* of the .pub file is sent.
Dial(c) ==
  /\ In(c, "signing")
  /\ \/ Queue(c, Caller[c], KeyLine) /\ Become(c, "awaiting")
     \/ Stop(c) /\ UNCHANGED conn
  /\ UNCHANGED <<process, wg, tokens, file>>

\* One line is read, with no deadline, and any line will do.
Receive(c) ==
  /\ In(c, "awaiting")
  /\ At(c, "closed")
  /\ conn' = [conn EXCEPT ![c] = Unused]
  /\ IF conn[c].answer = NoLine
     THEN Stop(c)
     ELSE client' = [client EXCEPT ![c] = [pc |-> "storing", line |-> conn[c].answer]]
  /\ UNCHANGED <<process, wg, tokens, file>>

\* AtomicWriteFile; then sign is done and connect goes on.
Store(c) ==
  /\ In(c, "storing")
  /\ \/ /\ file' = client[c].line
        /\ Stop(c) \/ client' = [client EXCEPT ![c] = [pc |-> "loading", line |-> NoLine]]
     \/ Stop(c) /\ UNCHANGED file
  /\ UNCHANGED serverVars

\* NewCertSigner: what is not a certificate is passed over in silence, and the
\* bare key is offered.
NewCertSigner(c) ==
  /\ In(c, "loading")
  /\ Become(c, IF file \in Cert THEN "certified" ELSE "bare")
  /\ UNCHANGED <<serverVars, file>>

Disconnect(c) ==
  /\ In(c, "certified") \/ In(c, "bare")
  /\ Stop(c)
  /\ UNCHANGED <<serverVars, file>>

\* The process is killed, or another client of the service goes away.
Abort(c) ==
  /\ client[c].pc \in {"awaiting", "storing", "loading", "other"}
  /\ Stop(c)
  /\ HangUp(c)
  /\ UNCHANGED <<process, wg, tokens, file>>
-----------------------------------------------------------------------------
(* Other clients, such as ziti-ssh-host enroll: with a name or without,    *)
(* they send any line, or none, and look at no answer.                     *)

OtherDials(c) ==
  /\ Free(c)
  /\ \E id \in {Caller[c], NoId} : Queue(c, id, NoLine)
  /\ Become(c, "other")
  /\ UNCHANGED <<process, wg, tokens, file>>

OtherSends(c) ==
  /\ In(c, "other")
  /\ At(c, "reading") /\ conn[c].line = NoLine
  /\ \E line \in Request : conn' = [conn EXCEPT ![c].line = line]
  /\ UNCHANGED <<process, wg, tokens, client, file>>
-----------------------------------------------------------------------------
\* A token comes back.
Refill(id) ==
  /\ tokens[id] < Burst
  /\ tokens' = [tokens EXCEPT ![id] = @ + 1]
  /\ UNCHANGED <<process, conn, wg, client, file>>

\* A tick of the clock certificates are measured by, much longer than a request
\* takes.
InFlight(c) == conn[c].answer \in Cert \/ client[c].line \in Cert

Age ==
  /\ file \in Cert /\ file.left > 0
  /\ \A c \in Conn : ~InFlight(c)
  /\ file' = [file EXCEPT !.left = @ - 1]
  /\ UNCHANGED <<serverVars, client>>

Init ==
  /\ ServerInit
  /\ client = [c \in Conn |-> Idle]
  /\ file = NoLine

ClientStep(c) ==
  Dial(c) \/ Receive(c) \/ Store(c) \/ NewCertSigner(c) \/ Disconnect(c)

ServerStep(A) == A /\ UNCHANGED <<client, file>>

Next ==
  \/ \E c \in Ours : Connect(c) \/ Sign(c) \/ ClientStep(c)
  \/ \E c \in Other : OtherDials(c) \/ OtherSends(c)
  \/ \E c \in Conn : Abort(c) \/ ServerStep(Handle(c))
  \/ ServerStep(Run) \/ ServerStep(Signal) \/ ServerStep(ListenerFails) \/ ServerStep(Restart)
  \/ (\E id \in Id : Refill(id))
  \/ Age

Spec == Init /\ [][Next]_vars

\* Goroutines run on, the deadlines fire, and a command goes on by itself.
\* Nothing makes a user start or kill one, another client send its line, a
\* signal arrive or the service manager restart the server.
Fairness ==
  /\ WF_vars(ServerStep(Run))
  /\ \A c \in Conn : WF_vars(ServerStep(Handle(c)))
  /\ \A c \in Ours : WF_vars(ClientStep(c))

FairSpec == Spec /\ Fairness
-----------------------------------------------------------------------------
(* Properties.                                                             *)

\* Every variable has its type.
TypeOK ==
  /\ ServerTypeOK
  /\ client \in [Conn -> [pc: {"idle", "signing", "awaiting", "storing", "loading",
                               "certified", "bare", "other"},
                          line: Answer \union {NoLine}]]
  /\ file \in Answer \union {NoLine}

\* A certificate names the identity that dialed and lets it in under its own
\* user name only, and no client gets that of another, whatever else is asked
\* of the server meanwhile.
IssuedToCaller ==
  /\ \A c \in Conn : conn[c].answer \in Cert =>
       /\ conn[c].answer.id = conn[c].id
       /\ Mode = "per-identity" => conn[c].answer.principal = Derive[conn[c].id]
  /\ \A c \in Conn : In(c, "storing") /\ client[c].line \in Cert => client[c].line.id = Caller[c]

\* A handler the server has begun is cut off by the drain timeout and by
\* nothing else: not by a signal, however many come, nor by a drain that ends
\* too early.
OnlyDrainTimeoutCutsOff ==
  [][main' \in Ended /\ main \notin Ended /\ (\E c \in Conn : Serving(c))
       => main' = "timeout"]_vars

\* Every handler returns, also when its client neither sends nor hangs up.
HandlersReturn == \A c \in Conn : Serving(c) ~> ~Serving(c)

\* runSign returns, although it waits for the CA with no deadline of its own:
\* the server closes every connection, answered or not, and so does its end.
SignReturns == \A c \in Ours : In(c, "signing") ~> In(c, "idle") \/ In(c, "loading")
-----------------------------------------------------------------------------
(* What a comment says and the code does not do.                           *)

\* cmd/ziti-ssh/main.go:313: runSign obtains a signed certificate from the CA
\* and writes it to disk.  So a certificate that is valid should never be
\* replaced by something that is none.
ValidCertKept == [][(file \in Cert /\ file.left > 0) => file' \in Cert]_vars
=============================================================================
