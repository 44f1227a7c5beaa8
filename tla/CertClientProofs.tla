-------------------------- MODULE CertClientProofs --------------------------
(***************************************************************************)
(* Proofs about CAServer and CertClient, for any finite set of clients of  *)
(* the CA, any identities and user names, both modes, and any rate limit.  *)
(***************************************************************************)
EXTENDS CertClient, FiniteSetTheorems, TLAPS

ConnState ==
  [pc: {"none", "queued", "accepted", "reading", "granted", "writing", "closed"},
   id: Id \union {NoId}, line: Request \union {NoLine},
   answer: Answer \union {NoLine}, open: BOOLEAN]

ClientState ==
  [pc: {"idle", "signing", "awaiting", "storing", "loading", "certified", "bare", "other"},
   line: Answer \union {NoLine}]

\* TypeOK but for the connections and their WaitGroup.
ProcessTyped ==
  /\ main \in {"starting", "bound", "serving", "draining"} \union Ended
  /\ listener \in {"unbound", "open", "closed"}
  /\ sigCh \in BOOLEAN
  /\ watcher \in {"unborn", "waiting", "done"}
  /\ tokens \in [Id -> 0..Burst]
  /\ client \in [Conn -> ClientState]
  /\ file \in Answer \union {NoLine}

\* A connection whose line is read has a caller, and its certificate is of him.
ConnOK(r) ==
  /\ r \in ConnState
  /\ r.pc \in {"reading", "granted"} => r.id # NoId
  /\ r.answer \in Cert =>
       /\ r.answer.id = r.id
       /\ Mode = "per-identity" => r.answer.principal = Derive[r.id]

ConnsOK == conn \in [Conn -> ConnState] /\ \A c \in Conn : ConnOK(conn[c])

\* runSign holds its connection, with its own identity, until it has an answer.
Held(c, r) == r.open /\ r.id = Caller[c] /\ r.pc # "none"
AwaitsItsOwn == \A c \in Conn : In(c, "awaiting") => Held(c, conn[c])

\* A command that has not dialed has no connection.
SigningUnused == \A c \in Conn : In(c, "signing") => At(c, "none")

\* What runSign is about to store.
StoresItsOwn == \A c \in Conn : In(c, "storing") /\ client[c].line \in Cert => client[c].line.id = Caller[c]

WaitGroupCounts == wg = Cardinality({c \in Conn : Serving(c)})

\* Handlers begin after the start and end before the process does.
ServingInTime == main \notin {"serving", "draining"} => \A c \in Conn : ~Serving(c)

IInv ==
  /\ ProcessTyped /\ ConnsOK
  /\ SigningUnused /\ AwaitsItsOwn /\ StoresItsOwn
  /\ WaitGroupCounts /\ ServingInTime
-----------------------------------------------------------------------------
(* Records of connections.                                                 *)

LEMMA NoLineNoCert == NoLine \notin Cert /\ CAKeyLine \notin Cert /\ LimitLine \notin Cert
  BY CAAssumption DEF Answer

LEMMA UnusedOK == ConnOK(Unused)
  BY NoLineNoCert DEF ConnOK, ConnState, Unused

\* A connection the server closes stays the client's, with what it was answered.
LEMMA ClosedOK ==
  ASSUME NEW r, ConnOK(r)
  PROVE  /\ ConnOK(Closed(r))
         /\ \A c \in Conn : Held(c, r) => Held(c, Closed(r))
         /\ Closed(r).pc \in {"none", "closed"}
<1>1. CASE r.open
  <2>1. Closed(r) = [r EXCEPT !.pc = "closed", !.line = NoLine]
    BY <1>1 DEF Closed
  <2> QED
    BY <2>1 DEF ConnOK, ConnState, Held
<1>2. CASE ~r.open
  BY <1>2, UnusedOK DEF Closed, Held, Unused
<1> QED
  BY <1>1, <1>2

LEMMA ForgottenAnswerOK ==
  ASSUME NEW r, ConnOK(r)
  PROVE  /\ ConnOK([r EXCEPT !.answer = NoLine])
         /\ \A c \in Conn : Held(c, r) => Held(c, [r EXCEPT !.answer = NoLine])
  BY NoLineNoCert DEF ConnOK, ConnState, Held

\* A certificate that SignCert makes is for the caller.
LEMMA SignedOK ==
  ASSUME NEW id \in Id
  PROVE  /\ Signed(id) \in Cert
         /\ Signed(id).id = id
         /\ Mode = "per-identity" => Signed(id).principal = Derive[id]
  BY CAAssumption DEF Signed, EffectivePrincipal, Cert, Principals

\* An answer on its way is one of the answers, and of the caller if a certificate.
LEMMA ReplyOK ==
  ASSUME ConnsOK, NEW c \in Conn, NEW line \in Answer, Reply(c, line),
         line \in Cert => /\ line.id = conn[c].id
                          /\ Mode = "per-identity" => line.principal = Derive[conn[c].id]
  PROVE  /\ ConnOK(conn'[c])
         /\ Held(c, conn[c]) => Held(c, conn'[c])
         /\ conn'[c].pc = "writing"
         /\ \A d \in Conn \ {c} : conn'[d] = conn[d]
         /\ conn' \in [Conn -> ConnState]
<1> DEFINE answer == IF conn[c].open THEN line ELSE NoLine
<1> DEFINE r == [conn[c] EXCEPT !.pc = "writing", !.line = NoLine, !.answer = answer]
<1>1. conn' = [conn EXCEPT ![c] = r]
  BY DEF Reply, ConnsOK, ConnState
<1>2. answer \in Answer \union {NoLine} /\ (answer \in Cert => answer = line)
  BY NoLineNoCert
<1> HIDE DEF answer
<1>3. ConnOK(r)
  BY <1>2 DEF ConnsOK, ConnOK, ConnState
<1>4. Held(c, conn[c]) => Held(c, r)
  BY DEF ConnsOK, ConnState, Held
<1>5. r.pc = "writing"
  BY DEF ConnsOK, ConnState
<1> HIDE DEF r
<1>6. r \in ConnState
  BY <1>3 DEF ConnOK
<1> QED
  BY <1>1, <1>3, <1>4, <1>5, <1>6 DEF ConnsOK
-----------------------------------------------------------------------------
(* The handlers.                                                           *)

\* What a step of handleConn does to its connection and to the WaitGroup.
Moves(c) ==
  /\ conn' \in [Conn -> ConnState] /\ ConnOK(conn'[c])
  /\ \A d \in Conn \ {c} : conn'[d] = conn[d]
  /\ Held(c, conn[c]) => Held(c, conn'[c])
Goes(c) == Serving(c) /\ Serving(c)' /\ wg' = wg
Comes(c) == ~Serving(c) /\ Serving(c)' /\ wg' = wg + 1 /\ main = "serving"
Leaves(c) == Serving(c) /\ ~Serving(c)' /\ wg' = wg - 1

\* conn.Close and wg.Done, with what was answered by then.
LEMMA ReturnMoves ==
  ASSUME ConnsOK, NEW c \in Conn, Serving(c), wg' = wg - 1,
         NEW r, ConnOK(r), Held(c, conn[c]) => Held(c, r),
         conn' = [conn EXCEPT ![c] = Closed(r)]
  PROVE  Moves(c) /\ Leaves(c)
<1>1. ConnOK(Closed(r)) /\ (Held(c, r) => Held(c, Closed(r))) /\ Closed(r).pc \in {"none", "closed"}
  BY ClosedOK
<1>2. Closed(r) \in ConnState
  BY <1>1 DEF ConnOK
<1>3. conn'[c] = Closed(r)
  BY DEF ConnsOK
<1> QED
  BY <1>1, <1>2, <1>3 DEF ConnsOK, Moves, Leaves, Serving

LEMMA GotoMoves ==
  ASSUME ConnsOK, NEW c \in Conn, NEW label \in {"accepted", "reading", "granted"},
         Goto(c, label), label # "accepted" => conn[c].id # NoId, conn[c].pc # "none"
  PROVE  Moves(c) /\ Serving(c)'
<1> DEFINE r == [conn[c] EXCEPT !.pc = label]
<1>1. conn' = [conn EXCEPT ![c] = r]
  BY DEF Goto, ConnsOK
<1>2. ConnOK(r) /\ r \in ConnState
  BY DEF ConnsOK, ConnOK, ConnState
<1>3. Held(c, conn[c]) => Held(c, r)
  BY DEF ConnsOK, ConnState, Held
<1>4. r.pc = label
  BY DEF ConnsOK, ConnState
<1> HIDE DEF r
<1> QED
  BY <1>1, <1>2, <1>3, <1>4 DEF ConnsOK, Moves, Serving

\* Every step of handleConn starts, goes on with or ends its handler.
LEMMA HandleMoves ==
  ASSUME ConnsOK, NEW c \in Conn, Handle(c)
  PROVE  Moves(c) /\ (Goes(c) \/ Comes(c) \/ Leaves(c))
<1>0. ConnOK(conn[c]) /\ conn[c].id \in Id \union {NoId}
  BY DEF ConnsOK, ConnState
<1>1. CASE Accept(c)
  BY <1>1, GotoMoves DEF Accept, At, Comes, Serving
<1>2. CASE Return(c) /\ Serving(c)
  BY <1>0, <1>2, ReturnMoves DEF Return
<1>3. CASE Identify(c)
  BY <1>2, <1>3, GotoMoves DEF Identify, At, Goes, Serving
<1>4. CASE ReadFails(c)
  BY <1>2, <1>4 DEF ReadFails, At, Serving
<1>5. CASE ReadLine(c)
  <2>1. Serving(c) /\ wg' = wg /\ conn[c].id # NoId
    BY <1>0, <1>5 DEF ReadLine, At, Serving, ConnOK
  <2>2. CASE Goto(c, "granted")
    BY <1>5, <2>1, <2>2, GotoMoves DEF ReadLine, At, Goes
  <2>3. CASE Reply(c, CAKeyLine) \/ Reply(c, LimitLine)
    BY <2>1, <2>3, ReplyOK, NoLineNoCert DEF Answer, Moves, Goes, Serving
  <2> QED
    BY <1>5, <2>2, <2>3 DEF ReadLine
<1>6. CASE SignCert(c)
  <2>1. Serving(c) /\ conn[c].id \in Id
    BY <1>0, <1>6 DEF SignCert, At, Serving, ConnOK
  <2>2. CASE Reply(c, Signed(conn[c].id)) /\ UNCHANGED wg
    <3>1. Signed(conn[c].id) \in Answer
      BY <2>1, SignedOK DEF Answer
    <3> QED
      BY <2>1, <2>2, <3>1, SignedOK, ReplyOK DEF Moves, Goes, Serving
  <2> QED
    BY <1>2, <1>6, <2>1, <2>2 DEF SignCert
<1>7. CASE Finish(c)
  <2>1. Serving(c)
    BY <1>7 DEF Finish, At, Serving
  <2>2. PICK sent \in {conn[c].answer, NoLine} :
          conn' = [conn EXCEPT ![c] = Closed([conn[c] EXCEPT !.answer = sent])]
    BY <1>7 DEF Finish, ConnsOK
  <2>3. [conn[c] EXCEPT !.answer = sent] \in {conn[c], [conn[c] EXCEPT !.answer = NoLine]}
    BY DEF ConnsOK, ConnState
  <2>4. /\ ConnOK([conn[c] EXCEPT !.answer = sent])
        /\ Held(c, conn[c]) => Held(c, [conn[c] EXCEPT !.answer = sent])
    BY <1>0, <2>3, ForgottenAnswerOK
  <2> QED
    BY <1>7, <2>1, <2>2, <2>4, ReturnMoves DEF Finish
<1> QED
  BY <1>1, <1>3, <1>4, <1>5, <1>6, <1>7 DEF Handle

\* The bucket of an identity stays between empty and full.
LEMMA HandleTokens ==
  ASSUME ProcessTyped, ConnsOK, NEW c \in Conn, Handle(c)
  PROVE  tokens' \in [Id -> 0..Burst] /\ UNCHANGED process
<1>1. ASSUME Take(conn[c].id), At(c, "reading")
      PROVE  tokens' \in [Id -> 0..Burst]
  BY <1>1, CAAssumption DEF Take, At, ProcessTyped, ConnsOK, ConnOK, ConnState
<1> QED
  BY <1>1 DEF Handle, Accept, Identify, ReadFails, ReadLine, Refused, SignCert, Finish, ProcessTyped
-----------------------------------------------------------------------------
(* The WaitGroup.                                                          *)

Handlers == {c \in Conn : Serving(c)}

\* The count stays right when the same handlers run.
LEMMA CountSame ==
  ASSUME WaitGroupCounts, wg' = wg, \A c \in Conn : Serving(c)' <=> Serving(c)
  PROVE  WaitGroupCounts'
<1>1. Handlers' = Handlers
  BY DEF Handlers
<1> QED
  BY <1>1 DEF WaitGroupCounts, Handlers

LEMMA HandleCounts ==
  ASSUME ConnsOK, WaitGroupCounts, NEW c \in Conn, Handle(c)
  PROVE  WaitGroupCounts'
<1>1. /\ \A d \in Conn \ {c} : Serving(d)' <=> Serving(d)
      /\ Goes(c) \/ Comes(c) \/ Leaves(c)
  BY HandleMoves DEF Moves, Serving
<1>2. IsFiniteSet(Handlers)
  BY CAAssumption, FS_Subset DEF Handlers
<1>3. CASE Goes(c)
  BY <1>1, <1>3, CountSame DEF Goes
<1>4. CASE Comes(c)
  <2>1. Handlers' = Handlers \union {c} /\ c \notin Handlers
    BY <1>1, <1>4 DEF Handlers, Comes
  <2>2. Cardinality(Handlers') = Cardinality(Handlers) + 1
    BY <1>2, <2>1, FS_AddElement
  <2> QED
    BY <1>4, <2>2 DEF WaitGroupCounts, Handlers, Comes
<1>5. CASE Leaves(c)
  <2>1. Handlers' = Handlers \ {c} /\ c \in Handlers
    BY <1>1, <1>5 DEF Handlers, Leaves
  <2>2. Cardinality(Handlers') = Cardinality(Handlers) - 1
    BY <1>2, <2>1, FS_RemoveElement
  <2> QED
    BY <1>5, <2>2 DEF WaitGroupCounts, Handlers, Leaves
<1> QED
  BY <1>1, <1>3, <1>4, <1>5
-----------------------------------------------------------------------------
(* The invariant.                                                          *)

\* A full bucket for each identity (ServerInit, End).
LEMMA FullBuckets == [id \in Id |-> Burst] \in [Id -> 0..Burst]
<1>1. Burst \in 0..Burst
  BY CAAssumption
<1> QED
  BY <1>1

\* Nothing runs and nothing is stored at the start (ServerInit, Init).
LEMMA InitInv == Init => IInv
<1> SUFFICES ASSUME Init PROVE IInv
  OBVIOUS
<1>1. ProcessTyped
  BY FullBuckets DEF Init, ServerInit, ProcessTyped, Idle, ClientState
<1>2. ConnsOK
  BY UnusedOK DEF Init, ServerInit, ConnsOK, ConnOK
<1>3. SigningUnused /\ AwaitsItsOwn /\ StoresItsOwn
  BY DEF Init, SigningUnused, AwaitsItsOwn, StoresItsOwn, In, Idle
<1>4. Handlers = {}
  BY DEF Init, ServerInit, Handlers, Serving, Unused
<1>5. WaitGroupCounts /\ ServingInTime
  BY <1>4, FS_EmptySet DEF Init, ServerInit, WaitGroupCounts, Handlers, ServingInTime
<1> QED
  BY <1>1, <1>2, <1>3, <1>5 DEF IInv

\* A handler's step, whatever its connection is at.
LEMMA HandleInv ==
  ASSUME IInv, NEW c \in Conn, Handle(c), UNCHANGED <<client, file>>
  PROVE  IInv'
<1>1. Moves(c) /\ (Goes(c) \/ Comes(c) \/ Leaves(c))
  BY HandleMoves DEF IInv
<1>2. ConnsOK'
  BY <1>1 DEF IInv, ConnsOK, Moves
<1>3. ProcessTyped'
  BY HandleTokens DEF IInv, ProcessTyped, process
<1>4. WaitGroupCounts'
  BY HandleCounts DEF IInv
<1>5. AwaitsItsOwn' /\ StoresItsOwn'
  BY <1>1 DEF IInv, AwaitsItsOwn, StoresItsOwn, In, Moves, Held
<1>6. SigningUnused'
  <2>1. ~At(c, "none")
    BY DEF Handle, Accept, Identify, ReadFails, ReadLine, SignCert, Finish, At
  <2> QED
    BY <1>1, <2>1 DEF IInv, SigningUnused, In, At, Moves
<1>7. ServingInTime'
  <2>1. UNCHANGED main
    BY HandleTokens DEF IInv, process
  <2> QED
    BY <1>1, <2>1 DEF IInv, ServingInTime, Moves, Goes, Comes, Leaves, Serving
<1> QED
  BY <1>2, <1>3, <1>4, <1>5, <1>6, <1>7 DEF IInv

\* The end of the process closes every connection.
LEMMA EndInv ==
  ASSUME IInv, NEW how \in Ended, End(how), UNCHANGED <<client, file>>
  PROVE  IInv'
<1> DEFINE cut(c) == IF At(c, "closed") THEN conn[c] ELSE [conn[c] EXCEPT !.answer = NoLine]
<1>1. \A c \in Conn : conn'[c] = IF At(c, "none") THEN Unused ELSE Closed(cut(c))
  BY DEF End
<1>2. \A c \in Conn : ConnOK(cut(c)) /\ (Held(c, conn[c]) => Held(c, cut(c)))
  BY ForgottenAnswerOK DEF IInv, ConnsOK
<1> HIDE DEF cut
<1>3. \A c \in Conn : /\ ConnOK(conn'[c])
                      /\ Held(c, conn[c]) => Held(c, conn'[c])
                      /\ conn'[c].pc \in {"none", "closed"}
                      /\ At(c, "none") => conn'[c].pc = "none"
  BY <1>1, <1>2, ClosedOK, UnusedOK DEF Held, At, Unused
<1>4. ConnsOK'
  BY <1>3 DEF End, ConnsOK, ConnOK
<1>5. ProcessTyped'
  BY FullBuckets DEF IInv, ProcessTyped, End
<1>6. Handlers' = {}
  BY <1>3 DEF Handlers, Serving
<1>7. WaitGroupCounts' /\ ServingInTime'
  BY <1>6, FS_EmptySet DEF End, WaitGroupCounts, ServingInTime, Handlers
<1>8. SigningUnused' /\ AwaitsItsOwn' /\ StoresItsOwn'
  BY <1>3 DEF IInv, SigningUnused, AwaitsItsOwn, StoresItsOwn, In, At
<1> QED
  BY <1>4, <1>5, <1>7, <1>8 DEF IInv

\* The rest of run, the signals and the limiter's refill leave the handlers alone.
LEMMA RunInv ==
  ASSUME IInv, UNCHANGED client,
         \/ (Run \/ Signal \/ ListenerFails \/ Restart) /\ UNCHANGED file
         \/ \E id \in Id : Refill(id)
         \/ Age
  PROVE  IInv'
<1>1. CASE (\E how \in Ended : End(how)) /\ UNCHANGED file
  BY <1>1, EndInv
<1>2. ASSUME ProcessTyped', UNCHANGED <<conn, wg>>,
             main' \notin {"serving", "draining"} => main \notin {"serving", "draining"}
      PROVE  IInv'
  BY <1>2, CountSame DEF IInv, ConnsOK, SigningUnused, AwaitsItsOwn, StoresItsOwn, ServingInTime,
     In, At, Serving
<1>3. CASE AcceptFails /\ UNCHANGED file
  <2>1. \A c \in Conn : conn'[c] = IF At(c, "queued") THEN Closed(conn[c]) ELSE conn[c]
    BY <1>3 DEF AcceptFails
  <2>2. \A c \in Conn : /\ ConnOK(conn'[c])
                        /\ Held(c, conn[c]) => Held(c, conn'[c])
                        /\ Serving(c)' <=> Serving(c)
                        /\ At(c, "none") => conn'[c].pc = "none"
    BY <2>1, ClosedOK DEF IInv, ConnsOK, At, Serving
  <2>3. ConnsOK' /\ ProcessTyped'
    BY <1>3, <2>2 DEF AcceptFails, IInv, ConnsOK, ConnOK, ProcessTyped
  <2>4. WaitGroupCounts'
    BY <1>3, <2>2, CountSame DEF AcceptFails, IInv
  <2>5. SigningUnused' /\ AwaitsItsOwn' /\ StoresItsOwn' /\ ServingInTime'
    BY <1>3, <2>2 DEF AcceptFails, IInv, SigningUnused, AwaitsItsOwn, StoresItsOwn, ServingInTime, In, At
  <2> QED
    BY <2>3, <2>4, <2>5 DEF IInv
<1>4. CASE Bind /\ UNCHANGED file
  BY <1>1, <1>2, <1>4 DEF Bind, Ended, IInv, ProcessTyped
<1>5. CASE (InstallHandler \/ CloseListener \/ ListenerFails \/ Restart) /\ UNCHANGED file
  BY <1>2, <1>5 DEF InstallHandler, CloseListener, ListenerFails, Restart, Ended, IInv, ProcessTyped
<1>6. CASE (Drained \/ DrainTimeout) /\ UNCHANGED file
  BY <1>1, <1>6 DEF Drained, DrainTimeout, Ended
<1>7. CASE Signal /\ UNCHANGED file
  BY <1>1, <1>2, <1>7 DEF Signal, Ended, IInv, ProcessTyped
<1>8. ASSUME NEW id \in Id, Refill(id)
      PROVE  IInv'
  <2>1. tokens' \in [Id -> 0..Burst]
    BY <1>8, CAAssumption DEF Refill, IInv, ProcessTyped
  <2> QED
    BY <1>2, <1>8, <2>1 DEF Refill, process, IInv, ProcessTyped
<1>9. CASE Age
  <2>1. file' \in Cert
    BY <1>9, CAAssumption DEF Age, Cert
  <2> QED
    BY <1>2, <1>9, <2>1 DEF Age, serverVars, process, Answer, IInv, ProcessTyped
<1> QED
  BY <1>3, <1>4, <1>5, <1>6, <1>7, <1>8, <1>9 DEF Run
-----------------------------------------------------------------------------
(* The clients.                                                            *)

\* What a client does to its connection: never start, end or cut off a handler.
LEMMA ClientConn ==
  ASSUME ConnsOK, NEW c \in Conn, NEW r, ConnOK(r), conn' = [conn EXCEPT ![c] = r],
         r.pc \in {"accepted", "reading", "granted", "writing"} <=> Serving(c)
  PROVE  /\ ConnsOK'
         /\ conn'[c] = r
         /\ \A d \in Conn \ {c} : conn'[d] = conn[d]
         /\ \A d \in Conn : Serving(d)' <=> Serving(d)
  BY DEF ConnsOK, ConnOK, Serving

LEMMA QueueConn ==
  ASSUME ConnsOK, NEW c \in Conn, At(c, "none"),
         NEW id \in Id \union {NoId}, NEW line \in Request \union {NoLine}, Queue(c, id, line)
  PROVE  /\ ConnsOK'
         /\ conn'[c].id = id /\ conn'[c].open /\ conn'[c].pc = "queued"
         /\ \A d \in Conn \ {c} : conn'[d] = conn[d]
         /\ \A d \in Conn : Serving(d)' <=> Serving(d)
<1> DEFINE r == [Unused EXCEPT !.pc = "queued", !.id = id, !.line = line, !.open = TRUE]
<1>1. r \in ConnState /\ r.pc = "queued" /\ r.id = id /\ r.answer = NoLine /\ r.open
  <2>1. Unused \in ConnState /\ Unused.answer = NoLine
    BY UnusedOK DEF ConnOK, Unused
  <2> QED
    BY <2>1 DEF ConnState
<1>2. ConnOK(r)
  <2> HIDE DEF r
  <2> QED
    BY <1>1, NoLineNoCert DEF ConnOK
<1>3. conn' = [conn EXCEPT ![c] = r]
  BY DEF Queue
<1>4. r.pc \in {"accepted", "reading", "granted", "writing"} <=> Serving(c)
  BY <1>1 DEF At, Serving
<1>5. r.pc = "queued" /\ r.id = id /\ r.open
  BY <1>1
<1> HIDE DEF r
<1> QED
  BY <1>2, <1>3, <1>4, <1>5, ClientConn

LEMMA HangUpConn ==
  ASSUME ConnsOK, NEW c \in Conn, HangUp(c)
  PROVE  /\ ConnsOK'
         /\ \A d \in Conn \ {c} : conn'[d] = conn[d]
         /\ \A d \in Conn : Serving(d)' <=> Serving(d)
<1> DEFINE r == IF At(c, "closed") THEN Unused
                ELSE [conn[c] EXCEPT !.open = FALSE, !.answer = NoLine]
<1>1. conn' = [conn EXCEPT ![c] = r]
  BY DEF HangUp, ConnsOK
<1>2. ConnOK(r)
  BY UnusedOK, NoLineNoCert DEF ConnsOK, ConnOK, ConnState
<1>3. r.pc \in {"accepted", "reading", "granted", "writing"} <=> Serving(c)
  BY DEF ConnsOK, ConnState, At, Serving, Unused
<1> HIDE DEF r
<1> QED
  BY <1>1, <1>2, <1>3, ClientConn

\* A client may go on, hang up or dial; its certificate stays its own.
LEMMA ClientInv ==
  ASSUME IInv, NEW c \in Conn,
         \/ Connect(c) \/ Sign(c) \/ ClientStep(c) \/ OtherDials(c) \/ OtherSends(c) \/ Abort(c)
  PROVE  IInv'
<1> USE ClientAssumption
<1>0. client[c] \in ClientState /\ client \in [Conn -> ClientState]
  BY DEF IInv, ProcessTyped
<1>1. ASSUME ConnsOK', \A d \in Conn \ {c} : conn'[d] = conn[d] /\ client'[d] = client[d],
             \A d \in Conn : Serving(d)' <=> Serving(d),
             UNCHANGED <<process, wg, tokens>>,
             client' \in [Conn -> ClientState], file' \in Answer \union {NoLine},
             In(c, "signing")' => At(c, "none")',
             In(c, "awaiting")' => Held(c, conn'[c]),
             In(c, "storing")' /\ client'[c].line \in Cert => client'[c].line.id = Caller[c]
      PROVE  IInv'
  <2>1. WaitGroupCounts' /\ ServingInTime'
    BY <1>1, CountSame DEF IInv, ServingInTime, process
  <2>2. ProcessTyped'
    BY <1>1 DEF IInv, ProcessTyped, process
  <2>3. SigningUnused' /\ AwaitsItsOwn' /\ StoresItsOwn'
    BY <1>1 DEF IInv, SigningUnused, AwaitsItsOwn, StoresItsOwn, In, At
  <2> QED
    BY <1>1, <2>1, <2>2, <2>3 DEF IInv
<1>2. ASSUME NEW label \in {"signing", "awaiting", "loading", "certified", "bare", "other"},
             Become(c, label)
      PROVE  /\ client' \in [Conn -> ClientState]
             /\ client'[c].pc = label
             /\ \A d \in Conn \ {c} : client'[d] = client[d]
  BY <1>0, <1>2 DEF Become, ClientState
<1>3. ASSUME Stop(c)
      PROVE  /\ client' \in [Conn -> ClientState]
             /\ client'[c].pc = "idle"
             /\ \A d \in Conn \ {c} : client'[d] = client[d]
  BY <1>0, <1>3 DEF Stop, Idle, ClientState
<1>4. file \in Answer \union {NoLine} /\ ConnsOK
  BY DEF IInv, ProcessTyped
<1>5. CASE Connect(c) \/ Sign(c) \/ NewCertSigner(c) \/ Disconnect(c)
  <2>1. UNCHANGED <<serverVars, file>>
    BY <1>5 DEF Connect, Sign, NewCertSigner, Disconnect
  <2>2. /\ client' \in [Conn -> ClientState]
        /\ client'[c].pc \in {"signing", "loading", "certified", "bare", "idle"}
        /\ client'[c].pc = "signing" => At(c, "none")
        /\ \A d \in Conn \ {c} : client'[d] = client[d]
    BY <1>2, <1>3, <1>5 DEF Connect, Sign, NewCertSigner, Disconnect, Free
  <2> QED
    BY <1>1, <1>4, <2>1, <2>2 DEF serverVars, process, In, At, Serving, ConnsOK
<1>6. CASE Dial(c)
  <2>1. At(c, "none") /\ UNCHANGED <<process, wg, tokens, file>>
    BY <1>6 DEF Dial, IInv, SigningUnused
  <2>2. CASE Queue(c, Caller[c], KeyLine) /\ Become(c, "awaiting")
    BY <1>1, <1>2, <1>4, <2>1, <2>2, QueueConn DEF Request, In, Held
  <2>3. CASE Stop(c) /\ UNCHANGED conn
    BY <1>1, <1>3, <1>4, <2>1, <2>3 DEF In, Serving, ConnsOK
  <2> QED
    BY <1>6, <2>2, <2>3 DEF Dial
<1>7. CASE Receive(c)
  <2>1. /\ ConnsOK' /\ \A d \in Conn \ {c} : conn'[d] = conn[d]
        /\ \A d \in Conn : Serving(d)' <=> Serving(d)
    BY <1>4, <1>7, UnusedOK, ClientConn DEF Receive, At, Serving, Unused
  <2>2. CASE Stop(c)
    BY <1>1, <1>3, <1>4, <1>7, <2>1, <2>2 DEF Receive, In
  <2>3. CASE client' = [client EXCEPT ![c] = [pc |-> "storing", line |-> conn[c].answer]]
    <3>1. conn[c].answer \in Cert => conn[c].answer.id = Caller[c]
      BY <1>7 DEF Receive, IInv, AwaitsItsOwn, Held, ConnsOK, ConnOK
    <3>2. conn[c].answer \in Answer \union {NoLine}
      BY <1>4 DEF ConnsOK, ConnState
    <3>3. client'[c] = [pc |-> "storing", line |-> conn[c].answer]
      BY <1>0, <2>3
    <3>4. client' \in [Conn -> ClientState]
      BY <1>0, <2>3, <3>2 DEF ClientState
    <3>5. \A d \in Conn \ {c} : client'[d] = client[d]
      BY <1>0, <2>3
    <3> QED
      BY <1>1, <1>4, <1>7, <2>1, <3>1, <3>3, <3>4, <3>5 DEF Receive, In
  <2> QED
    BY <1>7, <2>2, <2>3 DEF Receive
<1>8. CASE Store(c)
  <2>1. file' \in Answer \union {NoLine}
    BY <1>0, <1>4, <1>8 DEF Store, ClientState
  <2>2. CASE Stop(c)
    BY <1>1, <1>3, <1>4, <1>8, <2>1, <2>2 DEF Store, serverVars, In, Serving, ConnsOK
  <2>3. CASE client' = [client EXCEPT ![c] = [pc |-> "loading", line |-> NoLine]]
    <3>1. client'[c].pc = "loading" /\ client' \in [Conn -> ClientState]
      BY <1>0, <2>3 DEF ClientState
    <3>2. \A d \in Conn \ {c} : client'[d] = client[d]
      BY <1>0, <2>3
    <3> QED
      BY <1>1, <1>4, <1>8, <2>1, <3>1, <3>2 DEF Store, serverVars, In, Serving, ConnsOK
  <2> QED
    BY <1>8, <2>2, <2>3 DEF Store
<1>9. CASE Abort(c)
  BY <1>1, <1>3, <1>4, <1>9, HangUpConn DEF Abort, In
<1>10. CASE OtherDials(c)
  <2>1. PICK id \in Id \union {NoId} : Queue(c, id, NoLine)
    BY <1>10 DEF OtherDials
  <2>2. At(c, "none") /\ Become(c, "other") /\ UNCHANGED <<process, wg, tokens, file>>
    BY <1>10 DEF OtherDials, Free
  <2> QED
    BY <1>1, <1>2, <1>4, <2>1, <2>2, QueueConn DEF In
<1>11. CASE OtherSends(c)
  <2>1. PICK line \in Request : conn' = [conn EXCEPT ![c] = [conn[c] EXCEPT !.line = line]]
    BY <1>4, <1>11 DEF OtherSends, ConnsOK
  <2> DEFINE r == [conn[c] EXCEPT !.line = line]
  <2>2. ConnOK(r) /\ (r.pc \in {"accepted", "reading", "granted", "writing"} <=> Serving(c))
    BY <1>4 DEF ConnsOK, ConnOK, ConnState, Serving
  <2> HIDE DEF r
  <2>3. /\ ConnsOK' /\ \A d \in Conn \ {c} : conn'[d] = conn[d]
        /\ \A d \in Conn : Serving(d)' <=> Serving(d)
    BY <1>4, <2>1, <2>2, ClientConn DEF r
  <2>4. In(c, "other") /\ UNCHANGED <<process, wg, tokens, client, file>>
    BY <1>11 DEF OtherSends
  <2> QED
    BY <1>0, <1>1, <1>4, <2>3, <2>4 DEF In
<1> QED
  BY <1>5, <1>6, <1>7, <1>8, <1>9, <1>10, <1>11 DEF ClientStep

LEMMA StepInv == IInv /\ [Next]_vars => IInv'
<1> SUFFICES ASSUME IInv, [Next]_vars PROVE IInv'
  OBVIOUS
<1>1. CASE UNCHANGED vars
  BY <1>1, CountSame DEF vars, serverVars, process, IInv, ProcessTyped, ConnsOK, SigningUnused,
     AwaitsItsOwn, StoresItsOwn, ServingInTime, In, At, Serving
<1>2. ASSUME NEW c \in Conn, ServerStep(Handle(c))
      PROVE  IInv'
  BY <1>2, HandleInv DEF ServerStep
<1>3. CASE ServerStep(Run) \/ ServerStep(Signal) \/ ServerStep(ListenerFails) \/ ServerStep(Restart)
  BY <1>3, RunInv DEF ServerStep
<1>4. CASE (\E id \in Id : Refill(id)) \/ Age
  BY <1>4, RunInv DEF Refill, Age
<1> QED
  BY <1>1, <1>2, <1>3, <1>4, ClientInv, ClientAssumption DEF Next
-----------------------------------------------------------------------------
(* The theorems.                                                           *)

\* Every variable has its type (CertClient).
THEOREM CertTypeOK == Spec => []TypeOK
<1>1. ASSUME IInv PROVE TypeOK
  <2>1. wg \in Nat
    BY <1>1, CAAssumption, FS_Subset, FS_CardinalityType DEF IInv, WaitGroupCounts
  <2> QED
    BY <1>1, <2>1 DEF IInv, ProcessTyped, ConnsOK, ConnState, ClientState, TypeOK, ServerTypeOK
<1> QED
  BY <1>1, InitInv, StepInv, PTL DEF Spec

\* A certificate on its way, or about to be stored, is of the identity that
\* dialed and no other (SignCert, EffectivePrincipal, runSign).
THEOREM CertIssuedToCaller == Spec => []IssuedToCaller
<1>1. IInv => IssuedToCaller
  BY DEF IInv, ConnsOK, ConnOK, StoresItsOwn, IssuedToCaller
<1> QED
  BY <1>1, InitInv, StepInv, PTL DEF Spec

\* Only the drain timeout ends the process over a running handler (run).
THEOREM CertOnlyDrainTimeoutCutsOff == Spec => OnlyDrainTimeoutCutsOff
<1>1. ASSUME IInv, [Next]_vars, main' \in Ended, main \notin Ended, NEW c \in Conn, Serving(c)
      PROVE  main' = "timeout"
  <2>1. main \in {"serving", "draining"}
    BY <1>1 DEF IInv, ServingInTime
  <2>2. ~Drained
    BY <1>1, CAAssumption, FS_Subset, FS_EmptySet DEF IInv, WaitGroupCounts, Drained
  <2>3. CASE ServerStep(Run)
    BY <1>1, <2>1, <2>2, <2>3 DEF ServerStep, Run, Bind, InstallHandler, CloseListener,
       AcceptFails, DrainTimeout, End, Ended
  <2>4. CASE ServerStep(Signal) \/ ServerStep(ListenerFails) \/ ServerStep(Restart)
    BY <1>1, <2>1, <2>4 DEF ServerStep, Signal, ListenerFails, Restart, Ended
  <2>5. ASSUME NEW d \in Conn,
               \/ Connect(d) \/ Sign(d) \/ ClientStep(d) \/ OtherDials(d) \/ OtherSends(d)
               \/ Abort(d) \/ ServerStep(Handle(d))
        PROVE  main' = main
    BY <2>5, <1>1, HandleTokens DEF Connect, Sign, ClientStep, Dial, Receive, Store, NewCertSigner,
       Disconnect, OtherDials, OtherSends, Abort, ServerStep, serverVars, process, IInv
  <2> QED
    BY <1>1, <2>3, <2>4, <2>5, ClientAssumption DEF Next, vars, serverVars, process, Refill, Age
<1>2. IInv /\ [Next]_vars =>
        [main' \in Ended /\ main \notin Ended /\ (\E c \in Conn : Serving(c))
           => main' = "timeout"]_vars
  BY <1>1
<1> QED
  BY <1>2, InitInv, StepInv, PTL DEF Spec, OnlyDrainTimeoutCutsOff
=============================================================================
