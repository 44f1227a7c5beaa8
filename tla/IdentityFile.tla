---------------------------- MODULE IdentityFile ----------------------------
(***************************************************************************)
(* The Ziti identity file of a user: config.PersistZtAPIs, which the       *)
(* listeners of running commands call with the controllers an event names, *)
(* and runEnroll, which writes a new identity to the same path.  Both end  *)
(* in AtomicWriteFile.                                                     *)
(*                                                                         *)
(* A document is the identity and the controllers in it; the SDK's events, *)
(* the enrollment at the controller and the JSON are external.             *)
(***************************************************************************)
EXTENDS FileWrite

CONSTANTS
  Cmd,       \* commands, each with one event listener
  Enroller,  \* enrollment tokens, good for once
  Id,        \* identities: that of each token, and earlier ones
  Apis,      \* lists of controllers
  Enrolled,  \* the list a fresh enrollment has
  NoApis

ASSUME IdentityAssumption ==
  /\ Writer = Cmd \union Enroller /\ Cmd \intersect Enroller = {}
  /\ Enroller \subseteq Id
  /\ Doc = [id: Id, apis: Apis]
  /\ Enrolled \in Apis /\ NoApis \notin Apis

VARIABLES
  event,     \* command -> the list its listener has been called with
  unused,    \* tokens no controller has seen
  overtaken  \* observed: commands that read the file before its identity was replaced

identityVars == <<event, unused, overtaken>>

ControllerUrlsUpdated(c) ==
  /\ event[c] = NoApis
  /\ On(c, "idle")
  /\ \E apis \in Apis : event' = [event EXCEPT ![c] = apis]
  /\ UNCHANGED <<fileVars, unused, overtaken>>

\* PersistZtAPIs reads the document and replaces the list in it; a file that
\* cannot be read or parsed is only logged.
ReadIdentityCached(c) ==  \* mutant: the document it wrote last is not read again
  /\ event[c] # NoApis
  /\ LET known == IF doc[c] = NoFile THEN file ELSE doc[c]
     IN  \/ known \in Doc /\ BeginWrite(c, [known EXCEPT !.apis = event[c]])
         \/ UNCHANGED <<step, doc>>
  /\ event' = [event EXCEPT ![c] = NoApis]
  /\ overtaken' = overtaken \ {c}
  /\ UNCHANGED <<file, disk, written, unused>>
ReadIdentity(c) ==
  /\ event[c] # NoApis
  /\ \/ file \in Doc /\ BeginWrite(c, [file EXCEPT !.apis = event[c]])
     \/ UNCHANGED <<step, doc>>
  /\ event' = [event EXCEPT ![c] = NoApis]
  /\ overtaken' = overtaken \ {c}
  /\ UNCHANGED <<file, disk, written, unused>>

\* runEnroll: the token is spent once the controller has seen it, whether the
\* call succeeds, and the file gets written, or not.
RunEnroll(e) ==
  /\ e \in unused
  /\ unused' = unused \ {e}
  /\ \/ BeginWrite(e, [id |-> e, apis |-> Enrolled])
     \/ UNCHANGED <<step, doc>>
  /\ UNCHANGED <<file, disk, written, event, overtaken>>

\* A step of AtomicWriteFile.
AtomicWriteFile(w) ==
  /\ WriteStep(w)
  /\ overtaken' = IF file' # file /\ w \in Enroller \union overtaken THEN Cmd ELSE overtaken
  /\ UNCHANGED <<event, unused>>

\* A command that ends takes its listener with it, wherever it is.
ListenerDies(c) ==
  /\ Killed({c})
  /\ event' = [event EXCEPT ![c] = NoApis]
  /\ UNCHANGED <<file, disk, written, doc, unused, overtaken>>

IdentityPowerLoss ==
  /\ PowerLoss
  /\ event' = [c \in Cmd |-> NoApis]
  /\ UNCHANGED <<unused, overtaken>>

IdentityInit ==
  /\ FileInit
  /\ file # NoFile => file.id \notin Enroller
  /\ event = [c \in Cmd |-> NoApis]
  /\ unused = Enroller
  /\ overtaken = {}
-----------------------------------------------------------------------------
(* Properties.                                                             *)

Present == file # NoFile /\ file' # NoFile
PowerLost == disk' = {file'} /\ file' \in disk /\ step' = [w \in Writer |-> "idle"]

\* Persisting controllers never changes whose file it is, or brings back an
\* identity that was replaced, unless an enrollment, or another write that an
\* enrollment had overtaken, fell between the read and the rename of
\* PersistZtAPIs (ztapis.go:35 and 65).
IdentityKept ==
  [][Present /\ file.id # file'.id
       => \/ \E e \in Enroller : file'.id = e /\ On(e, "rename")
          \/ \E c \in overtaken : On(c, "rename") /\ On(c, "syncdir")'
          \/ PowerLost]_<<file, disk, step>>
-----------------------------------------------------------------------------
(* What a comment says, and the code does not do.                          *)

\* ztapis.go:43: the fields of the identity "are preserved verbatim".
IdentityPreserved ==
  [][Present /\ file.id # file'.id =>
       PowerLost \/ \E e \in Enroller : file'.id = e /\ On(e, "rename")]_<<file, disk, step>>
=============================================================================
