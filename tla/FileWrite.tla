----------------------------- MODULE FileWrite -----------------------------
(***************************************************************************)
(* Replacing a file through a temporary one and a rename:                  *)
(* config.AtomicWriteFile, atomicWriteFile and writeStateFile in host.go,  *)
(* and the end of refreshTrustedCAs, which does not sync.  Several writers *)
(* of one file do so at the same time, in one process or in several.       *)
(*                                                                         *)
(* The temporary file has a name nobody else uses, so filling it is one    *)
(* step, and what a failure or a killed process leaves of it is never      *)
(* read.  The file system is external: a rename is atomic for readers and  *)
(* reaches the disk at some later time, or at the sync of the directory.   *)
(***************************************************************************)
CONSTANTS
  Writer,  \* calls that may be in progress at one time
  Synced,  \* those that sync the temporary file before the rename
  Doc,     \* documents
  NoFile,  \* the file does not exist
  Torn     \* the file exists, with part of a document or none of it

ASSUME FileAssumption ==
  /\ Synced \subseteq Writer
  /\ NoFile \notin Doc /\ Torn \notin Doc

VARIABLES
  file,    \* what a reader finds
  disk,    \* what a power loss may leave in its place
  written, \* the data of the file are on disk
  step,    \* writer -> the next step of its call
  doc      \* writer -> the document it writes

fileVars == <<file, disk, written, step, doc>>

On(w, label) == step[w] = label
Goto(w, label) == step' = [step EXCEPT ![w] = label]

BeginWrite(w, d) ==
  /\ Goto(w, "fill")
  /\ doc' = [doc EXCEPT ![w] = d]

\* CreateTemp, Write, Sync, Chmod and Close.  A failure removes the temporary
\* file and ends the call, as does one of the rename.
FillTemp(w) ==
  /\ On(w, "fill")
  /\ Goto(w, "rename") \/ Goto(w, "idle")
  /\ UNCHANGED <<file, disk, written, doc>>

RenameUnsynced(w) ==  \* mutant: the Sync of the temporary file left out
  /\ On(w, "rename")
  /\ \/ /\ file' = doc[w]
        /\ written' = FALSE
        /\ disk' = disk \union {doc[w], Torn}
        /\ Goto(w, "syncdir")
     \/ Goto(w, "idle") /\ UNCHANGED <<file, disk, written>>
  /\ UNCHANGED doc
Rename(w) ==
  /\ On(w, "rename")
  /\ \/ /\ file' = doc[w]
        /\ written' = (w \in Synced)
        /\ disk' = disk \union {doc[w]} \union (IF w \in Synced THEN {} ELSE {Torn})
        /\ Goto(w, "syncdir")
     \/ Goto(w, "idle") /\ UNCHANGED <<file, disk, written>>
  /\ UNCHANGED doc

\* Best effort, but in host.go, where its failure is returned with the new file
\* in place.  It is another writer's file if that one renamed in between.
SyncDir(w) ==
  /\ On(w, "syncdir")
  /\ \/ disk' = {file} \union (IF written THEN {} ELSE {Torn})
     \/ UNCHANGED disk
  /\ Goto(w, "idle")
  /\ UNCHANGED <<file, written, doc>>

WriteStep(w) == FillTemp(w) \/ Rename(w) \/ SyncDir(w)

\* The process of the calls in S ends.
Killed(S) == step' = [w \in Writer |-> IF w \in S THEN "idle" ELSE step[w]]

Kill(S) ==
  /\ \E w \in S : ~On(w, "idle")
  /\ Killed(S)
  /\ UNCHANGED <<file, disk, written, doc>>

\* External: the file system writes everything back.
WriteBack ==
  /\ disk # {file}
  /\ disk' = {file}
  /\ written' = TRUE
  /\ UNCHANGED <<file, step, doc>>

PowerLoss ==
  /\ file' \in disk
  /\ disk' = {file'}
  /\ written' = TRUE
  /\ Killed(Writer)
  /\ UNCHANGED doc

FileInit ==
  /\ file \in Doc \union {NoFile}
  /\ disk = {file}
  /\ written = TRUE
  /\ step = [w \in Writer |-> "idle"]
  /\ doc = [w \in Writer |-> NoFile]

FileNext ==
  \/ \E w \in Writer : \/ \E d \in Doc : On(w, "idle") /\ BeginWrite(w, d)
                                         /\ UNCHANGED <<file, disk, written>>
                       \/ WriteStep(w)
  \/ \E S \in SUBSET Writer : Kill(S)
  \/ WriteBack
  \/ PowerLoss

FileSpec == FileInit /\ [][FileNext]_fileVars
-----------------------------------------------------------------------------
(* Properties.                                                             *)

\* Every variable has its type.
FileTypeOK ==
  /\ file \in Doc \union {NoFile, Torn}
  /\ disk \subseteq Doc \union {NoFile, Torn}
  /\ written \in BOOLEAN
  /\ step \in [Writer -> {"idle", "fill", "rename", "syncdir"}]
  /\ doc \in [Writer -> Doc \union {NoFile}]

Atomic == INSTANCE AtomicFile WITH value <- file, recent <- disk

\* A reader never finds part of a document, whoever writes and wherever a call
\* stops, and a power loss brings back a whole one: "either the old or the new
\* file fully intact" (host.go:302).  It needs Synced = Writer.
FileRefinement == Atomic!Spec
=============================================================================
