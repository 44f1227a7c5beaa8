---------------------------- MODULE FileTransfer ----------------------------
(***************************************************************************)
(* ziti-scp: the check of its arguments in runSCP, and the walk over the   *)
(* sources of client/sftp.go, uploads and downloads, with -r and -p.  Any  *)
(* operation on a file may fail, and the connection be lost with it.       *)
(*                                                                         *)
(* A file is the source it was written from, of which there is a part, the *)
(* whole, or what a Close that failed has left of it, "unclosed".  What is *)
(* copied does not change meanwhile.  The SFTP server and both file        *)
(* systems are external: a new entry changes the time of its directory,    *)
(* and nothing can be added to a directory that is not writable.           *)
(***************************************************************************)
EXTENDS Naturals, SequencesExt

CONSTANTS
  Node,     \* files, directories and symbolic links to directories
  Type,     \* node -> "file", "dir" or "link"
  Base,     \* node -> the last element of its path
  Entries,  \* node -> what its directory lists
  Depth,    \* nodes on the longest way down from a source
  Unsafe,   \* names that safeName rejects
  ReadOnly, \* directories without write permission
  Job,      \* command lines: sources and destination, each with host and user
  Local,    \* the host of a path without one
  NoNode,   \* the source of what was at the destination before
  AtDst,    \* what may be at the destination before: path below it -> entry
  MayFail   \* operations that may fail, of those named below

\* A way down: each node is in the listing of the one before.
Trail(w) == w # <<>> /\ \A k \in 1..Len(w) - 1 : w[k + 1] \in ToSet(Entries[w[k]])

\* Listings make trees, and have each name once.
ASSUME TreeAssumption ==
  /\ Type \in [Node -> {"file", "dir", "link"}]
  /\ Entries \in [Node -> Seq(Node)]
  /\ \A n \in Node : Type[n] = "file" => Entries[n] = <<>>
  /\ \A n \in Node : \A i, j \in DOMAIN Entries[n] :
        Base[Entries[n][i]] = Base[Entries[n][j]] => i = j
  /\ Depth \in Nat \ {0}
  /\ ~\E w \in [1..Depth + 1 -> Node] : Trail(w)
  /\ NoNode \notin Node

ASSUME TransferAssumption ==
  /\ \A j \in Job : /\ j.srcs \in Seq(ToSet(j.srcs)) \ {<<>>}
                   /\ \A src \in ToSet(j.srcs) : src.node \in Node
  /\ \A d \in AtDst :
       d \in [DOMAIN d -> [kind: {"file", "dir"}, from: {NoNode}, data: {"whole"},
                          time: {NoNode}, writable: BOOLEAN]]
  /\ MayFail \subseteq {"connect", "stat", "mkdir", "readdir", "open", "copy", "chtimes",
                     "close"}

VARIABLES
  job, recursive, preserve,  \* the command line
  pc,        \* "parse", "connect", "start", "next", "copy", "times", "close", "ok", "error"
  user,      \* who the session is for
  dstIsDir,  \* whether sources go into the destination, or take its place
  args,      \* sources to come
  stack,     \* directories being walked: node, destination and entries to come
  cur,       \* the file being copied: node and destination
  dst,       \* what is at the destination: path below it -> entry
  untimed    \* observed: paths whose Chtimes failed

transferVars == <<job, recursive, preserve, pc, user, dstIsDir, args, stack, cur, dst, untimed>>
commandLine == <<job, recursive, preserve>>

NoFile == [node |-> NoNode, to |-> <<>>]
Fails(op) == op \in MayFail
Upload == job.dst.host # Local
Exists(p) == p \in DOMAIN dst
IsDir(p) == Exists(p) /\ dst[p].kind = "dir"
Proceed(label) == pc' = label

\* A write of an entry, which is new in its directory or replaces what it had.
Put(p, entry) ==
  LET parent == Front(p)
      noticed == IF Exists(p) \/ p = <<>> THEN dst
                 ELSE [dst EXCEPT ![parent].time = NoNode]
  IN  dst' = [q \in DOMAIN dst \union {p} |-> IF q = p THEN entry ELSE noticed[q]]
CanPut(p) == Exists(p) \/ p = <<>> \/ (IsDir(Front(p)) /\ dst[Front(p)].writable)

\* The switch of runSCP, and the host of all remote sources.
ParseArgs ==
  LET remote == {i \in DOMAIN job.srcs : job.srcs[i].host # Local}
      refused == \/ remote # {} /\ Upload
                 \/ remote = {} /\ ~Upload
                 \/ remote # {} /\ remote # DOMAIN job.srcs
                 \/ \E i \in remote : job.srcs[i].host # job.srcs[1].host
  IN  /\ pc = "parse"
      /\ Proceed(IF refused THEN "error" ELSE "connect")
      /\ user' = IF Upload THEN job.dst.user ELSE job.srcs[1].user
      /\ UNCHANGED <<commandLine, dstIsDir, args, stack, cur, dst, untimed>>

\* Certificate, login, dial, SSH handshake and SFTP subsystem.
Connect ==
  /\ pc = "connect"
  /\ Proceed("start") \/ (Fails("connect") /\ Proceed("error"))
  /\ UNCHANGED <<commandLine, user, dstIsDir, args, stack, cur, dst, untimed>>

\* A Stat that fails, for whatever reason, says there is no directory.
StatDestination ==
  /\ pc = "start"
  /\ \/ dstIsDir' = IsDir(<<>>)
     \/ Fails("stat") /\ dstIsDir' = FALSE
  /\ Proceed(IF Len(job.srcs) > 1 /\ ~dstIsDir' THEN "error" ELSE "next")
  /\ args' = [i \in DOMAIN job.srcs |-> job.srcs[i].node]
  /\ UNCHANGED <<commandLine, user, stack, cur, dst, untimed>>

\* uploadDir and downloadDir up to their loop.  MkdirAll leaves a directory that
\* is there as it is; only a download gives a new one the mode of the source.
EnterDir(n, to, below) ==
  /\ \/ /\ CanPut(to)
        /\ \/ IsDir(to) /\ UNCHANGED dst
           \/ /\ ~Exists(to)
              /\ Put(to, [kind |-> "dir", from |-> n, data |-> "whole", time |-> NoNode,
                          writable |-> Upload \/ ~preserve \/ n \notin ReadOnly])
        /\ \/ Proceed("next") /\ stack' = Append(below, [node |-> n, to |-> to, todo |-> Entries[n]])
           \/ Fails("readdir") /\ Proceed("error") /\ stack' = below
     \/ /\ Fails("mkdir") \/ ~CanPut(to) \/ (Exists(to) /\ ~IsDir(to))
        /\ Proceed("error") /\ stack' = below /\ UNCHANGED dst
  /\ UNCHANGED <<cur, untimed>>

\* uploadFile and downloadFile up to the copy: the destination is truncated.
OpenFile(n, to, below) ==
  /\ \/ /\ CanPut(to) /\ ~IsDir(to)
        /\ Put(to, [kind |-> "file", from |-> n, data |-> "part", time |-> NoNode,
                    writable |-> TRUE])
        /\ cur' = [node |-> n, to |-> to]
        /\ Proceed("copy")
     \/ /\ Fails("open") \/ ~CanPut(to) \/ IsDir(to)
        /\ Proceed("error") /\ UNCHANGED <<cur, dst>>
  /\ stack' = below
  /\ UNCHANGED untimed

\* The loop of uploadAll and downloadAll, whose Stat follows links.
NextArg ==
  LET n == Head(args)
      to == IF dstIsDir THEN <<Base[n]>> ELSE <<>>
  IN  /\ pc = "next" /\ stack = <<>> /\ args # <<>>
      /\ args' = Tail(args)
      /\ \/ Type[n] = "file" /\ OpenFile(n, to, <<>>)
         \/ Type[n] # "file" /\ recursive /\ EnterDir(n, to, <<>>)
         \/ /\ Fails("stat") \/ (Type[n] # "file" /\ ~recursive)
            /\ Proceed("error")
            /\ UNCHANGED <<stack, cur, dst, untimed>>
      /\ UNCHANGED <<commandLine, user, dstIsDir>>

AllDone ==
  /\ pc = "next" /\ stack = <<>> /\ args = <<>>
  /\ Proceed("ok")
  /\ UNCHANGED <<commandLine, user, dstIsDir, args, stack, cur, dst, untimed>>

\* The loop over a directory; an entry that is a link counts as a file.
NextEntry ==
  LET top == Last(stack)
      n == Head(top.todo)
      to == Append(top.to, Base[n])
      below == Append(Front(stack), [top EXCEPT !.todo = Tail(top.todo)])
      safe == Upload \/ Base[n] \notin Unsafe
  IN  /\ pc = "next" /\ stack # <<>> /\ top.todo # <<>>
      /\ \/ safe /\ Type[n] = "dir" /\ EnterDir(n, to, below)
         \/ safe /\ Type[n] # "dir" /\ OpenFile(n, to, below)
         \/ ~safe /\ Proceed("error") /\ UNCHANGED <<stack, cur, dst, untimed>>
      /\ UNCHANGED <<commandLine, user, dstIsDir, args>>

\* The content of a link to a directory cannot be read.
CopyGoesOn ==  \* mutant: a copy that fails is reported, and the walk goes on
  /\ pc = "copy"
  /\ \/ /\ Type[cur.node] = "file"
        /\ dst' = [dst EXCEPT ![cur.to].data = "whole"]
        /\ Proceed(IF preserve THEN "times" ELSE "close")
     \/ Fails("copy") /\ Proceed("next") /\ UNCHANGED dst
  /\ UNCHANGED <<commandLine, user, dstIsDir, args, stack, cur, untimed>>
Copy ==
  /\ pc = "copy"
  /\ \/ /\ Type[cur.node] = "file"
        /\ dst' = [dst EXCEPT ![cur.to].data = "whole"]
        /\ Proceed(IF preserve THEN "times" ELSE "close")
     \/ /\ Fails("copy") \/ Type[cur.node] # "file"
        /\ Proceed("error") /\ UNCHANGED dst
  /\ UNCHANGED <<commandLine, user, dstIsDir, args, stack, cur, untimed>>

\* Its failure is ignored.
Chtimes(p, n) ==
  \/ /\ dst' = [dst EXCEPT ![p].time = n]
     /\ untimed' = untimed \ {p}
  \/ Fails("chtimes") /\ untimed' = untimed \union {p} /\ UNCHANGED dst

FileTimes ==
  /\ pc = "times"
  /\ Chtimes(cur.to, cur.node)
  /\ Proceed("close")
  /\ UNCHANGED <<commandLine, user, dstIsDir, args, stack, cur>>

\* The deferred Close of the destination, whose failure is ignored: what it was
\* to write is lost.
CloseFile ==
  /\ pc = "close"
  /\ \/ UNCHANGED dst
     \/ Fails("close") /\ dst' = [dst EXCEPT ![cur.to].data = "unclosed"]
  /\ Proceed("next")
  /\ UNCHANGED <<commandLine, user, dstIsDir, args, stack, cur, untimed>>

LeaveDirEarly ==  \* mutant: the times of a directory are set before it is filled
  LET top == Last(stack)
  IN  /\ pc = "next" /\ stack # <<>> /\ top.todo = <<>>
      /\ IF preserve /\ Entries[top.node] = <<>> THEN Chtimes(top.to, top.node)
         ELSE UNCHANGED <<dst, untimed>>
      /\ stack' = Front(stack)
      /\ UNCHANGED <<commandLine, pc, user, dstIsDir, args, cur>>
LeaveDir ==
  LET top == Last(stack)
  IN  /\ pc = "next" /\ stack # <<>> /\ top.todo = <<>>
      /\ IF preserve THEN Chtimes(top.to, top.node) ELSE UNCHANGED <<dst, untimed>>
      /\ stack' = Front(stack)
      /\ UNCHANGED <<commandLine, pc, user, dstIsDir, args, cur>>

TransferInit ==
  /\ job \in Job /\ recursive \in BOOLEAN /\ preserve \in BOOLEAN
  /\ pc = "parse"
  /\ user = Local
  /\ dstIsDir = FALSE
  /\ args = <<>> /\ stack = <<>> /\ cur = NoFile
  /\ dst \in AtDst
  /\ untimed = {}

TransferNext ==
  \/ ParseArgs \/ Connect \/ StatDestination
  \/ NextArg \/ AllDone \/ NextEntry \/ LeaveDir
  \/ Copy \/ FileTimes \/ CloseFile

TransferSpec == TransferInit /\ [][TransferNext]_transferVars
-----------------------------------------------------------------------------
(* Properties.                                                             *)

\* The ways down a source, the names on them below it, and where they lead to.
Trails == {w \in BoundedSeq(Node, Depth) : Trail(w)}
TrailsOf(i) == {w \in Trails : w[1] = job.srcs[i].node}
Names(w) == [k \in 1..Len(w) - 1 |-> Base[w[k + 1]]]
Top(i) == IF dstIsDir THEN <<Base[job.srcs[i].node]>> ELSE <<>>
PathOf(i, w) == Top(i) \o Names(w)

\* When all are copied, a source that comes later wins.
Later(i, p) == \E j \in DOMAIN job.srcs : j > i /\ \E w \in TrailsOf(j) : PathOf(j, w) = p

Arrived(p, n) ==
  /\ Exists(p) /\ dst[p].data # "part"
  /\ IsDir(p) = (Type[n] # "file")
  /\ IsDir(p) \/ dst[p].from = n
  /\ preserve => dst[p].time = n \/ p \in untimed

\* A copy that reports success has written, at every path, all of the last source
\* that goes there, and with -p its times, but where Chtimes itself failed.  Of
\* directories, too, into which files were put meanwhile.  What Close may still
\* lose is marked "unclosed".
SuccessIsComplete ==
  pc = "ok" =>
    \A i \in DOMAIN job.srcs : \A w \in TrailsOf(i) :
      Later(i, PathOf(i, w)) \/ Arrived(PathOf(i, w), Last(w))

\* What the i-th source puts at a path: names that safeName rejects are in it only
\* if the user gave them.
Places(i, p, n) ==
  \E w \in TrailsOf(i) : /\ PathOf(i, w) = p /\ Last(w) = n
                         /\ Upload \/ ToSet(Names(w)) \intersect Unsafe = {}

\* However a copy ends, it has only touched paths its sources go to, has put
\* there what belongs there, and has left at most the file it was at half there,
\* and those whose Close failed.
FailureIsLocal ==
  \A p \in DOMAIN dst :
    /\ dst[p].data # "part" \/ (p = cur.to /\ pc \in {"copy", "error"})
    /\ dst[p].from = NoNode \/ \E i \in DOMAIN job.srcs : Places(i, p, dst[p].from)
-----------------------------------------------------------------------------
(* What a document or a comment says, and the code does not do.            *)

\* RunSFTP "copies files between local and remote endpoints" (sftp.go:42): where it
\* returns no error, each is there whole.  The error of the deferred Close is
\* dropped (sftp.go:199 and 344), and the walk goes on.
SuccessIsWhole == pc = "ok" => \A p \in DOMAIN dst : dst[p].data = "whole"

\* docs/usage.md:324: -p preserves permissions, so a directory without write
\* permission can be downloaded, as one with it.  It is created with that mode
\* before its contents are.  Here with MayFail = {}.
ReadOnlyDirArrives ==
  pc = "error" /\ stack # <<>> =>
    \E n \in ToSet(Entries[Last(stack).node]) : Type[n] = "link" \/ Base[n] \in Unsafe

\* ziti-scp's main.go:414 has "all remote sources share the same host"; the user
\* of all is the one that the first of them names.
EachUserItsOwn ==
  pc = "ok" => \A i \in DOMAIN job.srcs : job.srcs[i].host # Local => job.srcs[i].user = user

\* sftp.go:98-99: the Stat is to say "whether to place files inside it or
\* overwrite it"; when it fails, a directory counts as none.
GoesIntoDirectory ==
  pc = "ok" /\ IsDir(<<>>) /\ dst[<<>>].from = NoNode => dstIsDir
=============================================================================
