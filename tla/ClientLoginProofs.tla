------------------------- MODULE ClientLoginProofs -------------------------
(***************************************************************************)
(* Proofs about ClientLogin and the modules it is made of, for any number  *)
(* of commands, flows, enrollments and writers of the file.                *)
(*                                                                         *)
(* FileStep says how any step moves the file, so that what the writes      *)
(* promise is proved once for all callers of an atomic write.              *)
(***************************************************************************)
EXTENDS ClientLogin, TLAPS

FileStep ==
  \/ \E w \in Writer, d \in Doc : BeginWrite(w, d) /\ UNCHANGED <<file, disk, written>>
  \/ \E w \in Writer : WriteStep(w)
  \/ \E S \in SUBSET Writer : Killed(S) /\ UNCHANGED <<file, disk, written, doc>>
  \/ WriteBack
  \/ PowerLoss
  \/ UNCHANGED fileVars

\* What is on disk is whole, and a call past its start has a document.
FileInv ==
  /\ FileTypeOK
  /\ written = TRUE
  /\ disk \subseteq Doc \union {NoFile}
  /\ file \in disk
  /\ \A w \in Writer : step[w] \in {"fill", "rename"} => doc[w] \in Doc

\* FileInit establishes the invariant (FileWrite's initial state).
LEMMA FileInitInv == FileInit => FileInv /\ Atomic!Init
  BY FileAssumption DEF FileInit, FileInv, FileTypeOK, Atomic!Init

\* Every step of the file keeps it whole and is one of AtomicFile's, when all
\* writers sync their temporary file before the rename.
LEMMA FileStepInv ==
  ASSUME Synced = Writer, FileInv, FileStep
  PROVE  FileInv' /\ [Atomic!Next]_(Atomic!vars)
<1> USE FileAssumption DEF FileInv, FileTypeOK
<1>1. CASE \E w \in Writer, d \in Doc : BeginWrite(w, d) /\ UNCHANGED <<file, disk, written>>
  BY <1>1 DEF BeginWrite, Goto, Atomic!vars
<1>2. CASE \E w \in Writer : WriteStep(w)
  <2>1. PICK w \in Writer : WriteStep(w)
    BY <1>2
  <2>2. CASE FillTemp(w)
    BY <2>2 DEF FillTemp, On, Goto, Atomic!vars
  <2>3. CASE Rename(w)
    <3>1. CASE UNCHANGED <<file, disk, written>>
      BY <2>3, <3>1 DEF Rename, On, Goto, Atomic!vars
    <3>2. CASE /\ file' = doc[w] /\ written' = (w \in Synced)
               /\ disk' = disk \union {doc[w]} \union (IF w \in Synced THEN {} ELSE {Torn})
               /\ Goto(w, "syncdir")
      <4>1. doc[w] \in Doc /\ disk' = disk \union {doc[w]} /\ written' = TRUE /\ UNCHANGED doc
        BY <2>3, <3>2 DEF Rename, On
      <4>2. FileInv'
        BY <3>2, <4>1 DEF Goto
      <4>3. Atomic!Next
        BY <3>2, <4>1 DEF Atomic!Next, Atomic!Put
      <4> QED
        BY <4>2, <4>3
    <3> QED
      BY <2>3, <3>1, <3>2 DEF Rename
  <2>4. CASE SyncDir(w)
    <3>1. FileInv'
      BY <2>4 DEF SyncDir, On, Goto
    <3>2. disk' = {file} \/ UNCHANGED disk
      BY <2>4 DEF SyncDir
    <3>3. UNCHANGED file
      BY <2>4 DEF SyncDir
    <3> QED
      BY <3>1, <3>2, <3>3 DEF Atomic!Next, Atomic!Settle, Atomic!vars
  <2> QED
    BY <2>1, <2>2, <2>3, <2>4 DEF WriteStep
<1>3. CASE \E S \in SUBSET Writer : Killed(S) /\ UNCHANGED <<file, disk, written, doc>>
  BY <1>3 DEF Killed, Atomic!vars
<1>4. CASE WriteBack
  BY <1>4 DEF WriteBack, Atomic!Next, Atomic!Settle
<1>5. CASE PowerLoss
  BY <1>5 DEF PowerLoss, Killed, Atomic!Next, Atomic!PowerLoss
<1>6. CASE UNCHANGED fileVars
  BY <1>6 DEF fileVars, Atomic!vars
<1> QED
  BY <1>1, <1>2, <1>3, <1>4, <1>5, <1>6 DEF FileStep

\* The functions of FileWrite, with any writers that sync, implement AtomicFile.
THEOREM FileWriteRefinement ==
  ASSUME Synced = Writer
  PROVE  FileSpec => FileRefinement
<1>1. [FileNext]_fileVars => FileStep
  BY DEF FileNext, FileStep, Kill
<1>2. FileInv /\ [FileNext]_fileVars => FileInv' /\ [Atomic!Next]_(Atomic!vars)
  BY <1>1, FileStepInv
<1> QED
  BY <1>2, FileInitInv, PTL DEF FileSpec, FileRefinement, Atomic!Spec
-----------------------------------------------------------------------------
(* The identity file among commands and enrollments.                       *)

Preparing(w) == step[w] \in {"fill", "rename"}

\* What a listener is about to write has the identity of the file, unless it was
\* overtaken; an enrollment writes its own.  A listener reads between its writes.
IdentityInv ==
  /\ event \in [Cmd -> Apis \union {NoApis}]
  /\ unused \subseteq Enroller
  /\ overtaken \subseteq Cmd
  /\ \A c \in Cmd \ overtaken : Preparing(c) => file \in Doc /\ doc[c].id = file.id
  /\ \A e \in Enroller : Preparing(e) => doc[e].id = e
  /\ \A c \in Cmd : event[c] # NoApis => ~Preparing(c)

\* Every step of ClientLogin moves the file as FileStep says.
LEMMA NextIsFileStep ==
  ASSUME FileInv, IdentityInv, [Next]_vars
  PROVE  FileStep
<1> USE IdentityAssumption DEF IdentityInv
<1>1. ASSUME NEW c \in Cmd, LoginStep(c)
      PROVE  UNCHANGED fileVars
  BY <1>1 DEF LoginStep, LoadIdentity, StartFlow, FlowReturned, Authenticated, AuthTimeout, WorkDone
<1>2. ASSUME NEW c \in Cmd, Exit(c)
      PROVE  FileStep
  BY <1>2 DEF Exit, ListenerDies, FileStep
<1>3. ASSUME NEW c \in Cmd, Event(c)
      PROVE  UNCHANGED fileVars
  BY <1>3 DEF Event, ControllerUrlsUpdated
<1>4. ASSUME NEW c \in Cmd, ReadIdentity(c)
      PROVE  FileStep
  <2>1. CASE UNCHANGED <<step, doc>>
    BY <1>4, <2>1 DEF ReadIdentity, FileStep, fileVars
  <2>2. CASE file \in Doc /\ BeginWrite(c, [file EXCEPT !.apis = event[c]])
    <3>1. [file EXCEPT !.apis = event[c]] \in Doc
      BY <1>4, <2>2 DEF ReadIdentity
    <3> QED
      BY <1>4, <2>2, <3>1 DEF ReadIdentity, FileStep
  <2> QED
    BY <1>4, <2>1, <2>2 DEF ReadIdentity
<1>5. ASSUME NEW e \in Enroller, RunEnroll(e)
      PROVE  FileStep
  <2>1. [id |-> e, apis |-> Enrolled] \in Doc
    OBVIOUS
  <2> QED
    BY <1>5, <2>1 DEF RunEnroll, FileStep, fileVars
<1>6. ASSUME NEW w \in Writer, AtomicWriteFile(w)
      PROVE  FileStep
  BY <1>6 DEF AtomicWriteFile, FileStep
<1>7. ASSUME NEW e \in Enroller, KillEnroll(e)
      PROVE  FileStep
  BY <1>7 DEF KillEnroll, Kill, FileStep
<1>8. ASSUME NEW f \in Flow, FlowMoves(f)
      PROVE  UNCHANGED fileVars
  BY <1>8 DEF FlowMoves
<1>9. LosePower => PowerLoss
  BY DEF LosePower, IdentityPowerLoss
<1>10. UNCHANGED vars => UNCHANGED fileVars
  BY DEF vars
<1>11. ASSUME NEW c \in Cmd, Listener(c)
       PROVE  FileStep
  BY <1>11, <1>4, <1>6 DEF Listener
<1>12. ASSUME NEW e \in Enroller, Enroll(e)
       PROVE  FileStep
  BY <1>12, <1>5, <1>6 DEF Enroll
<1>13. UNCHANGED fileVars \/ WriteBack \/ PowerLoss => FileStep
  BY DEF FileStep
<1> QED
  BY <1>1, <1>2, <1>3, <1>7, <1>8, <1>9, <1>10, <1>11, <1>12, <1>13 DEF Next

LEMMA IdentityInitInv == IdentityInit => IdentityInv
  BY IdentityAssumption DEF IdentityInit, IdentityInv, FileInit, Preparing

\* A step that is not a step of AtomicWriteFile leaves the file alone, or stops
\* every call.
LEMMA IdentityStepInv ==
  ASSUME Synced = Writer, FileInv, IdentityInv, [Next]_vars
  PROVE  IdentityInv'
<1> USE IdentityAssumption
<1> DEFINE Same == UNCHANGED <<file, step, doc, event, unused, overtaken>>
<1>0. Same => IdentityInv'
  BY DEF IdentityInv, Preparing
<1>1. ASSUME NEW c \in Cmd, LoginStep(c)
      PROVE  Same
  BY <1>1 DEF LoginStep, LoadIdentity, StartFlow, FlowReturned, Authenticated, AuthTimeout,
              WorkDone, fileVars, identityVars
<1>2. ASSUME NEW c \in Cmd, Exit(c)
      PROVE  IdentityInv'
  BY <1>2 DEF Exit, ListenerDies, Killed, IdentityInv, Preparing, FileInv, FileTypeOK
<1>3. ASSUME NEW c \in Cmd, Event(c)
      PROVE  IdentityInv'
  BY <1>3 DEF Event, ControllerUrlsUpdated, On, fileVars, IdentityInv, Preparing
<1>4. ASSUME NEW c \in Cmd, ReadIdentity(c)
      PROVE  IdentityInv'
  <2>1. /\ event' = [event EXCEPT ![c] = NoApis]
        /\ overtaken' = overtaken \ {c}
        /\ UNCHANGED <<file, unused>>
    BY <1>4 DEF ReadIdentity
  <2>2. CASE UNCHANGED <<step, doc>>
    BY <1>4, <2>1, <2>2 DEF ReadIdentity, IdentityInv, Preparing
  <2>3. CASE file \in Doc /\ BeginWrite(c, [file EXCEPT !.apis = event[c]])
    <3>1. [file EXCEPT !.apis = event[c]].id = file.id
      BY <2>3
    <3>2. /\ step' = [step EXCEPT ![c] = "fill"]
          /\ doc' = [doc EXCEPT ![c] = [file EXCEPT !.apis = event[c]]]
      BY <2>3 DEF BeginWrite, Goto
    <3>3. doc'[c].id = file.id /\ \A w \in Writer \ {c} : doc'[w] = doc[w] /\ step'[w] = step[w]
      BY <3>1, <3>2 DEF FileInv, FileTypeOK
    <3> HIDE DEF Same
    <3> QED
      BY <2>1, <2>3, <3>3 DEF IdentityInv, Preparing
  <2> QED
    BY <1>4, <2>2, <2>3 DEF ReadIdentity
<1>5. ASSUME NEW e \in Enroller, RunEnroll(e)
      PROVE  IdentityInv'
  BY <1>5 DEF RunEnroll, BeginWrite, Goto, IdentityInv, Preparing, FileInv, FileTypeOK
<1>6. ASSUME NEW w \in Writer, AtomicWriteFile(w)
      PROVE  IdentityInv'
  <2>1. /\ UNCHANGED <<event, unused, doc>>
        /\ overtaken' = IF file' # file /\ w \in Enroller \union overtaken THEN Cmd ELSE overtaken
        /\ \A v \in Writer : Preparing(v)' => Preparing(v)
        /\ file' = file \/ (file' = doc[w] /\ On(w, "rename"))
    BY <1>6 DEF AtomicWriteFile, WriteStep, FillTemp, Rename, SyncDir, On, Goto, Preparing,
                FileInv, FileTypeOK
  <2>2. CASE file' = file
    BY <2>1, <2>2 DEF IdentityInv, Preparing
  <2>3. CASE file' # file /\ w \in Enroller \union overtaken
    BY <2>1, <2>3 DEF IdentityInv, Preparing
  <2>4. CASE file' # file /\ w \notin Enroller \union overtaken
    <3>1. w \in Cmd \ overtaken /\ Preparing(w) /\ file' = doc[w]
      BY <2>1, <2>4 DEF On, Preparing
    <3>2. file' \in Doc /\ file'.id = file.id
      BY <3>1 DEF IdentityInv, FileInv, Preparing
    <3> QED
      BY <2>1, <2>4, <3>2 DEF IdentityInv, Preparing
  <2> QED
    BY <2>2, <2>3, <2>4
<1>7. ASSUME NEW e \in Enroller, KillEnroll(e)
      PROVE  IdentityInv'
  BY <1>7 DEF KillEnroll, Kill, Killed, identityVars, IdentityInv, Preparing, FileInv, FileTypeOK
<1>8. ASSUME NEW f \in Flow, FlowMoves(f)
      PROVE  Same
  BY <1>8 DEF FlowMoves, fileVars, identityVars
<1>9. ASSUME LosePower
      PROVE  IdentityInv'
  BY <1>9 DEF LosePower, IdentityPowerLoss, PowerLoss, Killed, IdentityInv, Preparing
<1>10. ASSUME WriteBack, UNCHANGED identityVars
       PROVE  Same
  BY <1>10 DEF WriteBack, identityVars
<1>11. ASSUME UNCHANGED vars
       PROVE  Same
  BY <1>11 DEF vars, fileVars, identityVars
<1>12. ASSUME NEW c \in Cmd, Listener(c)
       PROVE  IdentityInv'
  BY <1>12, <1>4, <1>6 DEF Listener
<1>13. ASSUME NEW e \in Enroller, Enroll(e)
       PROVE  IdentityInv'
  BY <1>13, <1>5, <1>6 DEF Enroll
<1> HIDE DEF Same
<1> QED
  BY <1>0, <1>1, <1>2, <1>3, <1>7, <1>8, <1>9, <1>10, <1>11, <1>12, <1>13 DEF Next

\* Only a rename, or a power loss, puts another identity into the file.
LEMMA IdentityStepKept ==
  ASSUME Synced = Writer, FileInv, IdentityInv, [Next]_vars,
         Present, file.id # file'.id
  PROVE  \/ \E e \in Enroller : file'.id = e /\ On(e, "rename")
         \/ \E c \in overtaken : On(c, "rename") /\ On(c, "syncdir")'
         \/ PowerLost
<1> USE IdentityAssumption
<1>1. FileStep
  BY NextIsFileStep
<1>2. file' # file
  OBVIOUS
<1>3. CASE \E w \in Writer : WriteStep(w)
  <2>1. PICK w \in Writer : WriteStep(w)
    BY <1>3
  <2>2. On(w, "rename") /\ file' = doc[w] /\ On(w, "syncdir")'
    BY <1>2, <2>1 DEF WriteStep, FillTemp, Rename, SyncDir, On, Goto, FileInv, FileTypeOK
  <2>3. CASE w \in Enroller
    BY <2>2, <2>3 DEF IdentityInv, Preparing, On
  <2>4. CASE w \in Cmd
    <3>1. w \in overtaken
      BY <2>2, <2>4 DEF IdentityInv, Preparing, On
    <3> QED
      BY <2>2, <3>1
  <2> QED
    BY <2>3, <2>4
<1>4. CASE PowerLoss
  BY <1>4 DEF PowerLoss, PowerLost, Killed
<1> QED
  BY <1>1, <1>2, <1>3, <1>4 DEF FileStep, WriteBack, fileVars

\* The identity file is whole at every moment and after every power loss,
\* however many commands and enrollments write it, and whatever kills them.
THEOREM LoginFileRefinement ==
  ASSUME Synced = Writer
  PROVE  Spec => FileRefinement
<1>1. Init => FileInv /\ IdentityInv /\ Atomic!Init
  BY FileInitInv, IdentityInitInv DEF Init, IdentityInit
<1>2. FileInv /\ IdentityInv /\ [Next]_vars
        => FileInv' /\ IdentityInv' /\ [Atomic!Next]_(Atomic!vars)
  BY FileStepInv, NextIsFileStep, IdentityStepInv
<1> QED
  BY <1>1, <1>2, PTL DEF Spec, FileRefinement, Atomic!Spec

\* PersistZtAPIs changes the identity in the file only if it was overtaken
\* between its read and its rename.
THEOREM LoginIdentityKept ==
  ASSUME Synced = Writer
  PROVE  Spec => IdentityKept
<1>1. Init => FileInv /\ IdentityInv
  BY FileInitInv, IdentityInitInv DEF Init, IdentityInit
<1>2. FileInv /\ IdentityInv /\ [Next]_vars => FileInv' /\ IdentityInv'
  BY FileStepInv, NextIsFileStep, IdentityStepInv
<1>3. FileInv /\ IdentityInv /\ [Next]_vars
        => [Present /\ file.id # file'.id
              => \/ \E e \in Enroller : file'.id = e /\ On(e, "rename")
                 \/ \E c \in overtaken : On(c, "rename") /\ On(c, "syncdir")'
                 \/ PowerLost]_<<file, disk, step>>
  BY IdentityStepKept
<1> QED
  BY <1>1, <1>2, <1>3, PTL DEF Spec, IdentityKept
-----------------------------------------------------------------------------
(* The browser login.                                                      *)

\* Tokens wait at the server of their login: the tab that brings one passed the
\* check of a cookie of that server, and a tab's cookie is of its last login.
FlowInv ==
  /\ tab \in [Flow -> [at: {"none", "opened", "provider", "exchange"},
                       srv: Flow \union {NoFlow}, to: Flow \union {NoFlow}]]
  /\ cookie \in [tab: Flow \union {NoFlow}, srv: Flow \union {NoFlow}]
  /\ tokens \in [Flow -> SUBSET Flow]
  /\ \A f \in Flow : tab[f].at = "provider" /\ cookie.tab = f => cookie.srv = tab[f].srv
  /\ \A f \in Flow : tab[f].at = "exchange" => tab[f].srv \in Flow /\ tab[f].to = tab[f].srv
  /\ \A f \in Flow : tokens[f] \subseteq {f}
  /\ login \in [Flow -> Flow \union {NoFlow}]
  /\ TokenFromOwnLogin

LEMMA FlowInitInv == FlowInit => FlowInv
  BY DEF FlowInit, FlowInv, TokenFromOwnLogin, NoTab, NoCookie

LEMMA FlowsDieInv ==
  ASSUME FlowInv, NEW S, FlowsDie(S)
  PROVE  FlowInv'
  BY DEF FlowsDie, FlowInv, TokenFromOwnLogin, NoTab

LEMMA FlowStepInv ==
  ASSUME FlowInv, NEW f \in Flow, FlowStep(f) \/ RunFlow(f)
  PROVE  FlowInv'
<1> USE FlowAssumption DEF FlowInv, TokenFromOwnLogin, Set, NoTab
<1>1. CASE RunFlow(f) \/ ListenAndServe(f) \/ Shutdown(f)
  BY <1>1 DEF RunFlow, ListenAndServe, Shutdown
<1>2. CASE OpenBrowser(f) \/ CloseTab(f)
  BY <1>2 DEF OpenBrowser, CloseTab
<1>3. CASE TakeToken(f)
  BY <1>3 DEF TakeToken, Returns
<1>4. CASE FlowTimeout(f)
  BY <1>4 DEF FlowTimeout, Returns
<1>5. CASE Login(f)
  BY <1>5 DEF Login
<1>6. CASE Callback(f)
  <2> DEFINE accepting == {s \in Flow : Serves(s) /\ Accepts(s, f)}
  <2>1. tab[f].at = "provider" /\ UNCHANGED <<cookie, tokens, login>>
    BY <1>6 DEF Callback, CallbackGoesTo
  <2>2. CASE accepting = {}
    <3>1. tab' = [tab EXCEPT ![f] = NoTab]
      BY <1>6, <2>2 DEF Callback, CallbackGoesTo
    <3> QED
      BY <2>1, <3>1
  <2>3. CASE accepting # {}
    <3>1. PICK s \in accepting : 
               tab' = [tab EXCEPT ![f] = [at |-> "exchange", srv |-> tab[f].srv, to |-> s]]
      BY <1>6, <2>3 DEF Callback, CallbackGoesTo
    <3>2. s \in Flow /\ cookie.tab = f /\ cookie.srv = s
      BY DEF Accepts
    <3>3. tab[f].srv = s
      BY <2>1, <3>2
    <3>4. /\ tab'[f] = [at |-> "exchange", srv |-> s, to |-> s]
          /\ \A g \in Flow \ {f} : tab'[g] = tab[g]
          /\ tab' = [tab EXCEPT ![f] = [at |-> "exchange", srv |-> s, to |-> s]]
      BY <3>1, <3>3
    <3> HIDE DEF accepting
    <3>5. tab' \in [Flow -> [at: {"none", "opened", "provider", "exchange"},
                            srv: Flow \union {NoFlow}, to: Flow \union {NoFlow}]]
      BY <3>2, <3>4
    <3>6. \A g \in Flow : tab'[g].at = "provider" /\ cookie'.tab = g => cookie'.srv = tab'[g].srv
      BY <2>1, <3>4
    <3>7. \A g \in Flow : tab'[g].at = "exchange" => tab'[g].srv \in Flow /\ tab'[g].to = tab'[g].srv
      BY <3>2, <3>4
    <3> QED
      BY <2>1, <3>5, <3>6, <3>7
  <2> QED
    BY <2>2, <2>3
<1>7. CASE ExchangeCode(f)
  BY <1>7 DEF ExchangeCode
<1> QED
  BY <1>1, <1>2, <1>3, <1>4, <1>5, <1>6, <1>7 DEF FlowStep

\* However many flows, tabs and commands meet on the port, a flow only returns
\* the token of a login that began at its own server.
THEOREM LoginTokenFromOwnLogin == Spec => []TokenFromOwnLogin
<1>1. Init => FlowInv
  BY FlowInitInv DEF Init
<1>2. FlowInv /\ [Next]_vars => FlowInv'
  <2> SUFFICES ASSUME FlowInv, [Next]_vars PROVE FlowInv'
    OBVIOUS
  <2>0. UNCHANGED flowVars => FlowInv'
    BY DEF flowVars, FlowInv, TokenFromOwnLogin
  <2>1. ASSUME NEW c \in Cmd, LoginStep(c)
        PROVE  FlowInv'
    <3>1. CASE StartFlow(c)
      <4>1. RunFlow(MyFlow(c))
        BY <3>1 DEF StartFlow
      <4> QED
        BY <4>1 DEF RunFlow, FlowInv, TokenFromOwnLogin
    <3> QED
      BY <2>0, <2>1, <3>1 DEF LoginStep, LoadIdentity, FlowReturned, Authenticated,
                              AuthTimeout, WorkDone
  <2>2. ASSUME NEW c \in Cmd, Exit(c) \/ Event(c) \/ Listener(c)
        PROVE  FlowInv'
    BY <2>0, <2>2, FlowsDieInv DEF Exit, Event, Listener
  <2>3. ASSUME NEW e \in Enroller, Enroll(e) \/ KillEnroll(e)
        PROVE  FlowInv'
    BY <2>0, <2>3 DEF Enroll, KillEnroll
  <2>4. ASSUME NEW f \in Flow, FlowMoves(f)
        PROVE  FlowInv'
    BY <2>4, FlowStepInv DEF FlowMoves
  <2>5. LosePower => FlowInv'
    BY FlowsDieInv DEF LosePower
  <2> QED
    BY <2>0, <2>1, <2>2, <2>3, <2>4, <2>5 DEF Next, vars
<1>3. FlowInv => TokenFromOwnLogin
  BY DEF FlowInv
<1> QED
  BY <1>1, <1>2, <1>3, PTL DEF Spec
=============================================================================
