---------------------------- MODULE SessionProofs ----------------------------
(***************************************************************************)
(* Proofs about what a client does over its SSH connection.  PortForward:  *)
(* for any finite set of forwards of any kind, any connections, with a     *)
(* shell or without.  FileTransfer: for any trees and command lines,       *)
(* anything at the destination, and any failures.                          *)
(***************************************************************************)
EXTENDS PortForward, FileTransfer, FiniteSetTheorems, WellFoundedInduction, TLAPS

-----------------------------------------------------------------------------
(* Port forwards.                                                          *)

\* The goroutines that wg waits for: a forward that has not returned, and the
\* shell until its deferred wg.Done.
Forwarding == {f \in Forward : forward[f] # "returned"}
ShellCounted == IF shell \in {"running", "reported", "cancelled"} THEN 1 ELSE 0

WaitGroupCounts == wg = Cardinality(Forwarding) + ShellCounted

\* A shell that has reported left its result in sessionErrCh for good.
ReportStays == shell \in {"reported", "cancelled", "done"} => errCh

ForwardInv ==
  /\ main \in {"waiting", "returned", "exited"}
  /\ shell \in {"none", "running", "reported", "cancelled", "done"}
  /\ forward \in [Forward -> {"starting", "accepting", "returned"}]
  /\ main = "waiting" => WaitGroupCounts
  /\ ReportStays
  /\ ReturnsShellResult
-----------------------------------------------------------------------------
LEMMA ForwardingFinite == IsFiniteSet(Forwarding)
  BY ForwardAssumption, FS_Subset DEF Forwarding

\* wg.Add(1) was called for each goroutine before it was started (Counted).
LEMMA ForwardInitInv == Init => ForwardInv
<1> SUFFICES ASSUME Init PROVE ForwardInv
  OBVIOUS
<1>1. Forwarding = Forward
  BY DEF Init, Forwarding
<1>2. WaitGroupCounts
  BY <1>1 DEF Init, WaitGroupCounts, Counted, ShellCounted
<1> QED
  BY <1>2 DEF Init, ForwardInv, ReportStays, ReturnsShellResult

\* A forward that returns calls wg.Done once (Listen, AcceptFails).
LEMMA ForwardReturns ==
  ASSUME ForwardInv, main = "waiting", NEW f \in Forward, forward[f] # "returned",
         forward' = [forward EXCEPT ![f] = "returned"], wg' = wg - 1, UNCHANGED shell
  PROVE  WaitGroupCounts'
<1>1. Forwarding' = Forwarding \ {f} /\ f \in Forwarding
  BY DEF Forwarding, ForwardInv
<1>2. Cardinality(Forwarding') = Cardinality(Forwarding) - 1
  BY <1>1, ForwardingFinite, FS_RemoveElement
<1>3. Cardinality(Forwarding) \in Nat
  BY ForwardingFinite, FS_CardinalityType
<1> QED
  BY <1>2, <1>3 DEF ForwardInv, WaitGroupCounts, ShellCounted

\* A step that leaves wg, shell and the forwards that have returned alone.
LEMMA CountSame ==
  ASSUME WaitGroupCounts, UNCHANGED <<wg, shell>>,
         \A f \in Forward : forward'[f] = "returned" <=> forward[f] = "returned"
  PROVE  WaitGroupCounts'
<1>1. Forwarding' = Forwarding
  BY DEF Forwarding
<1> QED
  BY <1>1 DEF WaitGroupCounts, ShellCounted

\* The listeners and their forwards.
LEMMA ForwardStepInv ==
  ASSUME ForwardInv, NEW f \in Forward, ForwardStep(f) \/ AcceptFails(f)
  PROVE  ForwardInv'
<1>1. CASE Listen(f)
  <2>1. CASE forward' = [forward EXCEPT ![f] = "accepting"] /\ UNCHANGED wg
    BY <1>1, <2>1, CountSame DEF Listen, Running, session, ForwardInv, ReportStays, ReturnsShellResult
  <2>2. CASE forward' = [forward EXCEPT ![f] = "returned"] /\ wg' = wg - 1
    BY <1>1, <2>2, ForwardReturns DEF Listen, Running, session, ForwardInv, ReportStays, ReturnsShellResult
  <2> QED
    BY <1>1, <2>1, <2>2 DEF Listen
<1>2. CASE CloseListener(f)
  BY <1>2, CountSame DEF CloseListener, session, ForwardInv, ReportStays, ReturnsShellResult
<1>3. CASE AcceptFails(f)
  BY <1>3, ForwardReturns DEF AcceptFails, Running, session, ForwardInv, ReportStays, ReturnsShellResult
<1> QED
  BY <1>1, <1>2, <1>3 DEF ForwardStep

\* The deferred calls of the shell's goroutine.
LEMMA ShellStepInv ==
  ASSUME ForwardInv, ShellCancels \/ ShellDone \/ ShellEnds
  PROVE  ForwardInv'
<1>0. Cardinality(Forwarding) \in Nat
  BY ForwardingFinite, FS_CardinalityType
<1>1. CASE ShellCancels
  BY <1>1 DEF ShellCancels, Running, ForwardInv, WaitGroupCounts, Forwarding, ShellCounted, ReportStays,
     ReturnsShellResult
<1>2. CASE ShellDone
  BY <1>0, <1>2 DEF ShellDone, Running, ForwardInv, WaitGroupCounts, Forwarding, ShellCounted, ReportStays,
     ReturnsShellResult
<1>3. CASE ShellEnds
  BY <1>3 DEF ShellEnds, End, Running, ForwardInv, WaitGroupCounts, Forwarding, ShellCounted, ReportStays,
     ReturnsShellResult
<1> QED
  BY <1>1, <1>2, <1>3

\* wg.Wait returns only when the shell, if there is one, is done, and its result
\* is there to be read.
LEMMA WaitReturnsInv ==
  ASSUME ForwardInv, WaitReturns
  PROVE  ForwardInv'
<1>1. Cardinality(Forwarding) \in Nat
  BY ForwardingFinite, FS_CardinalityType
<1>2. ShellCounted = 0
  BY <1>1 DEF WaitReturns, Running, ForwardInv, WaitGroupCounts, ShellCounted
<1>3. shell \in {"none", "done"}
  BY <1>2 DEF ForwardInv, ShellCounted
<1> QED
  BY <1>3 DEF WaitReturns, End, ForwardInv, ReportStays, ReturnsShellResult

LEMMA ForwardNextInv == ForwardInv /\ [Next]_vars => ForwardInv'
<1> SUFFICES ASSUME ForwardInv, [Next]_vars PROVE ForwardInv'
  OBVIOUS
<1>1. CASE UNCHANGED <<main, wg, forward, session>>
  BY <1>1, CountSame DEF session, ForwardInv, ReportStays, ReturnsShellResult
<1>2. ASSUME NEW k \in Conn,
             \/ \E f \in Forward : ClientConnects(k, f)
             \/ HandlerStep(k) \/ Handshake(k) \/ CopierEnds(k)
      PROVE  UNCHANGED <<main, wg, forward, session>>
  BY <1>2 DEF ClientConnects, HandlerStep, Accept, DialTarget, BiCopyReturns, Forget,
     CopierEnds, Handshake
<1>3. CASE WatcherWakes \/ Signal \/ TransportLost
  BY <1>1, <1>3 DEF WatcherWakes, Signal, TransportLost
<1> QED
  BY <1>1, <1>2, <1>3, ForwardStepInv, ShellStepInv, WaitReturnsInv DEF Next, MainStep, vars
-----------------------------------------------------------------------------
\* A connect with a shell returns how the shell ended (runConnect's wg.Wait and
\* the default case of its select on sessionErrCh).
THEOREM ConnectReturnsShellResult == Spec => []ReturnsShellResult
<1>1. ForwardInv => ReturnsShellResult
  BY DEF ForwardInv
<1> QED
  BY <1>1, ForwardInitInv, ForwardNextInv, PTL DEF Spec
-----------------------------------------------------------------------------
(* Numbers and sequences.                                                  *)

\* A set of numbers has a least one: what stands here for an induction.
LEMMA NatMin ==
  ASSUME NEW T, T \subseteq Nat, T # {}
  PROVE  \E x \in T : \A y \in T : x <= y
<1>1. PICK x \in T : \A y \in T : <<y, x>> \notin OpToRel(<, Nat)
  BY WFMin, NatLessThanWellFounded, Zenon
<1>2. \A y \in T : ~(y < x)
  BY <1>1, Zenon DEF OpToRel
<1>3. \A y \in T : x <= y
  BY <1>2
<1> QED
  BY <1>3

\* A set with 1 and the successors of its members, up to n, has all up to n.
LEMMA UpTo ==
  ASSUME NEW P, NEW n \in Nat, 1 \in P, \A k \in 1..n-1 : k \in P => k+1 \in P
  PROVE  \A k \in 1..n : k \in P
<1> SUFFICES ASSUME NEW k0 \in 1..n, k0 \notin P PROVE FALSE
  OBVIOUS
<1> DEFINE T == {k \in 1..n : k \notin P}
<1>1. PICK x \in T : \A y \in T : x <= y
  <2> HIDE DEF T
  <2>1. T \subseteq Nat /\ T # {} BY DEF T
  <2> QED BY <2>1, NatMin
<1>2. x # 1 /\ x \in 1..n BY <1>1
<1>3. x-1 \in 1..n-1 /\ x-1 \in P BY <1>1, <1>2
<1> QED BY <1>1, <1>2, <1>3

LEMMA SameSeq ==
  ASSUME NEW S, NEW s \in Seq(S), NEW t \in Seq(S), Len(s) = Len(t),
         \A k \in 1..Len(s) : s[k] = t[k]
  PROVE  s = t
  OBVIOUS

LEMMA FrontShape ==
  ASSUME NEW S, NEW s \in Seq(S), Len(s) # 0
  PROVE  /\ Front(s) \in Seq(S) /\ Len(Front(s)) = Len(s) - 1
         /\ \A k \in 1..Len(s) - 1 : Front(s)[k] = s[k]
<1> DEFINE l == Len(s) - 1
<1>1. l \in Nat /\ l <= Len(s) /\ Len(s) \in Nat
  OBVIOUS
<1> HIDE DEF l
<1>2. SubSeq(s, 1, l) \in Seq(S) /\ Len(SubSeq(s, 1, l)) = l
  BY <1>1
<1>3. \A k \in 1..l : SubSeq(s, 1, l)[k] = s[k]
  BY <1>1
<1> QED
  BY <1>2, <1>3 DEF Front, l

LEMMA HeadAndTail ==
  ASSUME NEW S, NEW s \in Seq(S), s # <<>>
  PROVE  /\ Head(s) \in ToSet(s) /\ Tail(s) \in Seq(S)
         /\ ToSet(s) \subseteq {Head(s)} \union ToSet(Tail(s))
<1>1. /\ Len(s) \in Nat \ {0} /\ s[1] = Head(s)
      /\ Tail(s) \in Seq(S) /\ Len(Tail(s)) = Len(s) - 1
  OBVIOUS
<1>2. \A k \in 1..Len(s) : k = 1 \/ (k - 1 \in 1..Len(Tail(s)) /\ s[k] = Tail(s)[k - 1])
  BY <1>1
<1>3. DOMAIN s = 1..Len(s) /\ DOMAIN Tail(s) = 1..Len(Tail(s))
  BY <1>1
<1>4. 1 \in 1..Len(s)
  BY <1>1
<1>5. Head(s) \in ToSet(s)
  BY <1>1, <1>3, <1>4 DEF ToSet
<1>6. ASSUME NEW k \in 1..Len(s)
      PROVE  s[k] \in {Head(s)} \union ToSet(Tail(s))
  <2>1. CASE k = 1
    BY <1>1, <2>1
  <2>2. CASE k - 1 \in 1..Len(Tail(s)) /\ s[k] = Tail(s)[k - 1]
    BY <1>3, <2>2 DEF ToSet
  <2> QED BY <1>2, <2>1, <2>2
<1> QED
  BY <1>1, <1>3, <1>5, <1>6 DEF ToSet

LEMMA FrontOfAppend ==
  ASSUME NEW S, NEW s \in Seq(S), NEW e \in S
  PROVE  Append(s, e) # <<>> /\ Front(Append(s, e)) = s
<1> DEFINE t == Append(s, e)
<1>1. /\ t \in Seq(S) /\ Len(t) = Len(s) + 1 /\ Len(s) \in Nat
      /\ \A k \in 1..Len(s) : t[k] = s[k]
  OBVIOUS
<1> HIDE DEF t
<1>2. Len(t) # 0 /\ Len(t) - 1 = Len(s)
  BY <1>1
<1>3. /\ Front(t) \in Seq(S) /\ Len(Front(t)) = Len(s)
      /\ \A k \in 1..Len(s) : Front(t)[k] = t[k]
  BY <1>1, <1>2, FrontShape
<1>4. Front(t) = s
  BY <1>1, <1>3, SameSeq
<1>5. t # <<>>
  BY <1>2
<1> QED BY <1>4, <1>5 DEF t

LEMMA ConcatAppend ==
  ASSUME NEW S, NEW s \in Seq(S), NEW t \in Seq(S), NEW e \in S
  PROVE  s \o Append(t, e) = Append(s \o t, e)
  OBVIOUS

LEMMA Cancel ==
  ASSUME NEW S, NEW t \in Seq(S), NEW s \in Seq(S), NEW r \in Seq(S), t \o s = t \o r
  PROVE  s = r
<1>1. Len(s) \in Nat /\ Len(r) \in Nat /\ Len(t) \in Nat
  OBVIOUS
<1>2. Len(t \o s) = Len(t) + Len(s) /\ Len(t \o r) = Len(t) + Len(r)
  OBVIOUS
<1>3. Len(s) = Len(r)
  BY <1>1, <1>2
<1>4. ASSUME NEW k \in 1..Len(s)
      PROVE  s[k] = r[k]
  <2>1. (t \o s)[Len(t) + k] = s[k] /\ (t \o r)[Len(t) + k] = r[k]
    BY <1>1, <1>3
  <2> QED BY <2>1
<1> QED BY <1>3, <1>4, SameSeq
-----------------------------------------------------------------------------
(* Transfers: the invariant behind FailureIsLocal.                         *)

Name == {Base[n] : n \in Node}

Labels == {"parse", "connect", "start", "next", "copy", "times", "close", "ok", "error"}

EntryType == [kind: {"file", "dir"}, from: Node \union {NoNode}, data: {"part", "whole", "unclosed"},
              time: Node \union {NoNode}, writable: BOOLEAN]

Frame == [node: Node, to: Seq(Name), todo: Seq(Node)]

\* The source the walk is at.
Current == Len(job.srcs) - Len(args)

TransferTypes ==
  /\ job \in Job /\ pc \in Labels
  /\ dst \in [DOMAIN dst -> EntryType]
  /\ args \in Seq(Node)
  /\ stack \in Seq(Frame)

\* Nothing is touched before the walk.
Untouched ==
  pc \in {"parse", "connect", "start"} =>
    /\ args = <<>> /\ stack = <<>>
    /\ \A p \in DOMAIN dst : dst[p].from = NoNode /\ dst[p].data # "part"

ArgsToCome ==
  /\ Len(args) <= Len(job.srcs)
  /\ \A k \in 1..Len(args) : args[k] = job.srcs[Current + k].node

\* A directory being walked is at its place, and its entries to come are its own.
FrameOK(f) ==
  /\ Current \in DOMAIN job.srcs
  /\ Places(Current, f.to, f.node)
  /\ ToSet(f.todo) \subseteq ToSet(Entries[f.node])

Walking == \A k \in 1..Len(stack) : FrameOK(stack[k])

Copying ==
  pc \in {"copy", "times", "close"} =>
    /\ cur \in [node: Node, to: Seq(Name)]
    /\ cur.to \in DOMAIN dst
    /\ Current \in DOMAIN job.srcs
    /\ Places(Current, cur.to, cur.node)

LocalInv == TransferTypes /\ Untouched /\ ArgsToCome /\ Walking /\ Copying /\ FailureIsLocal
-----------------------------------------------------------------------------
\* What Trails lists.
LEMMA TrailShape ==
  \A w : w \in Trails <=> /\ w \in Seq(Node)
                          /\ Len(w) \in 1..Depth
                          /\ \A k \in 1..Len(w) - 1 : w[k + 1] \in ToSet(Entries[w[k]])
<1>1. ASSUME NEW w \in BoundedSeq(Node, Depth)
      PROVE w \in Seq(Node) /\ Len(w) \in 0..Depth
   BY <1>1 , TreeAssumption DEF BoundedSeq, SeqOf
<1>2. ASSUME NEW w \in Seq(Node), Len(w) \in 0..Depth
      PROVE w \in BoundedSeq(Node, Depth)
   BY <1>2, TreeAssumption DEF BoundedSeq, SeqOf
<1> QED
  BY <1>1, <1>2, TreeAssumption DEF Trails, Trail

LEMMA EntriesType == \A n \in Node : ToSet(Entries[n]) \subseteq Node
  BY TreeAssumption DEF ToSet

LEMMA NamesShape ==
  ASSUME NEW w \in Trails
  PROVE  /\ Names(w) \in Seq(Name) /\ Len(Names(w)) = Len(w) - 1
         /\ \A k \in 1..Len(w) - 1 : Names(w)[k] = Base[w[k+1]]
         /\ Last(w) \in Node
<1>1. w \in Seq(Node) /\ Len(w) \in 1..Depth /\ Depth \in Nat
  BY TrailShape, TreeAssumption
<1>2. \A k \in 1..Len(w) : w[k] \in Node
  BY <1>1
<1>3. Names(w) \in [1..Len(w)-1 -> Name]
  BY <1>1, <1>2 DEF Names, Name
<1>4. Len(w) - 1 \in Nat
  BY <1>1
<1>5. Names(w) \in Seq(Name) /\ Len(Names(w)) = Len(w) - 1
  BY <1>3, <1>4
<1>6. Last(w) \in Node
  BY <1>1, <1>2 DEF Last
<1> QED
  BY <1>5, <1>6 DEF Names

\* A source is a way down to itself.
LEMMA RootTrail ==
  ASSUME NEW n \in Node
  PROVE  /\ <<n>> \in Trails /\ Names(<<n>>) = <<>> /\ Last(<<n>>) = n
<1>1. <<n>> \in Trails
  <2>1. <<n>> \in Seq(Node) /\ Len(<<n>>) = 1 /\ 1..Len(<<n>>) - 1 = {}
    OBVIOUS
  <2>2. 1 \in 1..Depth
    BY TreeAssumption
  <2> QED
    BY <2>1, <2>2, TrailShape
<1>2. Names(<<n>>) = <<>>
  <2>1. Names(<<n>>) \in Seq(Name) /\ Len(Names(<<n>>)) = 0
    BY <1>1, NamesShape
  <2> QED
    BY <2>1
<1> QED BY <1>1, <1>2 DEF Last

\* A way down goes on to each entry of its last node, because no way is longer than
\* Depth (TreeAssumption).
LEMMA LongerTrail ==
  ASSUME NEW w \in Trails, NEW m \in ToSet(Entries[Last(w)])
  PROVE  /\ Append(w, m) \in Trails
         /\ Append(w, m)[1] = w[1]
         /\ Last(Append(w, m)) = m
         /\ Names(Append(w, m)) = Append(Names(w), Base[m])
<1>1. /\ w \in Seq(Node) /\ Len(w) \in 1..Depth /\ Depth \in Nat
      /\ \A k \in 1..Len(w) - 1 : w[k + 1] \in ToSet(Entries[w[k]])
  BY TrailShape, TreeAssumption
<1>2. Last(w) \in Node /\ m \in Node
  BY NamesShape, EntriesType
<1> DEFINE v == Append(w, m)
<1>3. v \in Seq(Node) /\ Len(v) = Len(w) + 1 /\ v[Len(v)] = m /\ \A k \in 1..Len(w) : v[k] = w[k]
  BY <1>1, <1>2
<1> HIDE DEF v
<1>4. \A k \in 1..Len(v) - 1 : v[k + 1] \in ToSet(Entries[v[k]])
  <2> TAKE k \in 1..Len(v) - 1
  <2>1. CASE k = Len(w)
    BY <1>1, <1>3, <2>1 DEF Last
  <2>2. CASE k # Len(w)
    BY <1>1, <1>3, <2>2
  <2> QED BY <2>1, <2>2
<1>5. Len(v) <= Depth
  <2>1. SUFFICES ASSUME Len(v) = Depth + 1 PROVE FALSE
    BY <1>1, <1>3
  <2>2. v \in [1..Depth + 1 -> Node]
    BY <1>1, <1>3, <2>1
  <2>3. v # <<>>
    BY <1>1, <1>3
  <2>4. Trail(v)
    BY <1>4, <2>3 DEF Trail
  <2> QED BY <2>2, <2>4, TreeAssumption
<1>6. v \in Trails
  <2>1. Len(v) \in 1..Depth
    BY <1>1, <1>3, <1>5
  <2> QED
    BY <2>1, <1>3, <1>4, TrailShape
<1>7. v[1] = w[1] /\ Last(v) = m
  BY <1>1, <1>3 DEF Last
<1>8. Names(v) = Append(Names(w), Base[m])
  <2>0. Len(v) - 1 = Len(w)
    BY <1>1, <1>3
  <2>1. /\ Names(v) \in Seq(Name) /\ Len(Names(v)) = Len(w)
        /\ \A k \in 1..Len(w) : Names(v)[k] = Base[v[k+1]]
    BY <1>6, <2>0, NamesShape
  <2>2. /\ Names(w) \in Seq(Name) /\ Len(Names(w)) = Len(w) - 1
        /\ \A k \in 1..Len(w) - 1 : Names(w)[k] = Base[w[k+1]]
    BY NamesShape
  <2>3. Base[m] \in Name BY <1>2 DEF Name
  <2> DEFINE a == Append(Names(w), Base[m])
  <2>4. a \in Seq(Name) /\ Len(a) = Len(w) /\ a[Len(w)] = Base[m]
        /\ \A k \in 1..Len(w) - 1 : a[k] = Names(w)[k]
    BY <2>2, <2>3, <1>1
  <2> HIDE DEF a
  <2>5. ASSUME NEW k \in 1..Len(w)
        PROVE  a[k] = Names(v)[k]
    <3>1. CASE k = Len(w)
      BY <2>1, <2>4, <1>1, <1>3, <3>1
    <3>2. CASE k # Len(w)
      <4>1. k \in 1..Len(w) - 1 /\ k + 1 \in 1..Len(w)
        BY <1>1, <3>2
      <4>2. Names(v)[k] = Base[v[k + 1]]
        BY <2>1
      <4>3. v[k + 1] = w[k + 1]
        BY <4>1, <1>3
      <4>4. a[k] = Names(w)[k] /\ Names(w)[k] = Base[w[k + 1]]
        BY <4>1, <2>2, <2>4
      <4> QED BY <4>2, <4>3, <4>4
    <3> QED BY <3>1, <3>2
  <2>6. a = Names(v)
    BY <2>1, <2>4, <2>5, SameSeq
  <2> QED BY <2>6 DEF a
<1> QED BY <1>6, <1>7, <1>8 DEF v

LEMMA TrailPrefix ==
  ASSUME NEW w \in Trails, NEW l \in 1..Len(w)
  PROVE  /\ SubSeq(w, 1, l) \in Trails
         /\ SubSeq(w, 1, l)[1] = w[1]
         /\ Last(SubSeq(w, 1, l)) = w[l]
         /\ Len(SubSeq(w, 1, l)) = l
         /\ \A k \in 1..l : SubSeq(w, 1, l)[k] = w[k]
<1>1. /\ w \in Seq(Node) /\ Len(w) \in 1..Depth /\ Depth \in Nat
      /\ \A k \in 1..Len(w) - 1 : w[k + 1] \in ToSet(Entries[w[k]])
  BY TrailShape, TreeAssumption
<1> DEFINE v == SubSeq(w, 1, l)
<1>2. v \in Seq(Node) /\ Len(v) = l /\ \A k \in 1..l : v[k] = w[k]
  BY <1>1
<1> HIDE DEF v
<1>3. v \in Trails
  BY <1>1, <1>2, TrailShape
<1> QED BY <1>1, <1>2, <1>3 DEF Last, v

\* The names on a way down say which it is, because a listing has each name once.
\* This is what keeps an entry from being written over by one of the same source.
LEMMA NamesDetermineTrail ==
  ASSUME NEW w \in Trails, NEW v \in Trails, w[1] = v[1], Names(w) = Names(v)
  PROVE  w = v
<1>1. /\ w \in Seq(Node) /\ Len(w) \in 1..Depth /\ Depth \in Nat
      /\ \A k \in 1..Len(w) - 1 : w[k + 1] \in ToSet(Entries[w[k]])
  BY TrailShape, TreeAssumption
<1>2. /\ v \in Seq(Node) /\ Len(v) \in 1..Depth
      /\ \A k \in 1..Len(v) - 1 : v[k + 1] \in ToSet(Entries[v[k]])
  BY TrailShape, TreeAssumption
<1>3. Len(w) = Len(v) /\ \A k \in 1..Len(w)-1 : Base[w[k+1]] = Base[v[k+1]]
  <2>1. Len(w) - 1 = Len(v) - 1
    BY NamesShape
  <2>2. Len(w) = Len(v)
    BY <1>1, <1>2, <2>1
  <2>3. \A k \in 1..Len(w)-1 : Base[w[k+1]] = Names(w)[k] /\ Base[v[k+1]] = Names(w)[k]
    BY <2>1, NamesShape
  <2> QED BY <2>2, <2>3
<1> DEFINE P == {k \in 1..Len(w) : w[k] = v[k]}
<1>4. \A k \in 1..Len(w)-1 : k \in P => k + 1 \in P
  <2> TAKE k \in 1..Len(w) - 1
  <2> SUFFICES ASSUME w[k] = v[k] PROVE w[k+1] = v[k+1]
    BY <1>1
  <2>1. w[k+1] \in ToSet(Entries[w[k]]) /\ v[k+1] \in ToSet(Entries[w[k]])
    BY <1>1, <1>2, <1>3
  <2>2. PICK i \in DOMAIN Entries[w[k]] : Entries[w[k]][i] = w[k+1]
    BY <2>1 DEF ToSet
  <2>3. PICK j \in DOMAIN Entries[w[k]] : Entries[w[k]][j] = v[k+1]
    BY <2>1 DEF ToSet
  <2>4. w[k] \in Node BY <1>1
  <2>5. Base[Entries[w[k]][i]] = Base[Entries[w[k]][j]]
    BY <2>2, <2>3, <1>3
  <2>6. i = j BY <2>4, <2>5, TreeAssumption
  <2> QED BY <2>2, <2>3, <2>6
<1>5. 1 \in P /\ Len(w) \in Nat
  BY <1>1
<1> HIDE DEF P
<1>6. \A k \in 1..Len(w) : k \in P
  BY <1>4, <1>5, UpTo
<1> QED
  BY <1>1, <1>2, <1>3, <1>6 DEF P

LEMMA SourceTypes ==
  ASSUME job \in Job
  PROVE  /\ Len(job.srcs) \in Nat /\ DOMAIN job.srcs = 1..Len(job.srcs)
         /\ \A i \in DOMAIN job.srcs : job.srcs[i].node \in Node
         /\ Len(job.srcs) # 0
<1>1. /\ job.srcs \in Seq(ToSet(job.srcs)) /\ job.srcs # <<>>
      /\ \A src \in ToSet(job.srcs) : src.node \in Node
  BY TransferAssumption
<1>2. Len(job.srcs) \in Nat /\ DOMAIN job.srcs = 1..Len(job.srcs) /\ Len(job.srcs) # 0
  BY <1>1
<1>3. \A i \in DOMAIN job.srcs : job.srcs[i] \in ToSet(job.srcs)
  BY DEF ToSet
<1> QED
  BY <1>1, <1>2, <1>3

LEMMA TopType ==
  ASSUME job \in Job, NEW i \in DOMAIN job.srcs
  PROVE  Top(i) \in Seq(Name)
<1>1. Base[job.srcs[i].node] \in Name
  BY SourceTypes DEF Name
<1> QED
  BY <1>1 DEF Top

\* NextArg copies a source to Top(i).
LEMMA PlacesTop ==
  ASSUME job \in Job, NEW i \in DOMAIN job.srcs
  PROVE  Places(i, Top(i), job.srcs[i].node)
<1> DEFINE n == job.srcs[i].node
<1>1. n \in Node
  BY SourceTypes
<1> HIDE DEF n
<1>2. <<n>> \in Trails /\ Names(<<n>>) = <<>> /\ Last(<<n>>) = n /\ <<n>>[1] = n
  BY <1>1, RootTrail
<1>3. Top(i) \o <<>> = Top(i)
  BY TopType
<1>4. ToSet(<<>>) = {}
  BY DEF ToSet
<1>5. <<n>> \in TrailsOf(i)
  BY <1>2 DEF TrailsOf, n
<1> QED
  BY <1>2, <1>3, <1>4, <1>5 DEF Places, PathOf, n

\* NextEntry copies an entry to its name below the path of its directory.
LEMMA PlacesEntry ==
  ASSUME job \in Job, NEW i \in DOMAIN job.srcs, NEW p, NEW n, Places(i, p, n),
         NEW m \in ToSet(Entries[n]), Upload \/ Base[m] \notin Unsafe
  PROVE  Places(i, Append(p, Base[m]), m)
<1>1. PICK w \in TrailsOf(i) : /\ PathOf(i, w) = p /\ Last(w) = n
                               /\ Upload \/ ToSet(Names(w)) \intersect Unsafe = {}
  BY DEF Places
<1>2. w \in Trails /\ w[1] = job.srcs[i].node
  BY DEF TrailsOf
<1> DEFINE v == Append(w, m)
<1>3. v \in Trails /\ v[1] = w[1] /\ Last(v) = m /\ Names(v) = Append(Names(w), Base[m])
  BY <1>1, <1>2, LongerTrail
<1> HIDE DEF v
<1>4. Names(w) \in Seq(Name) /\ Last(w) \in Node
  BY <1>2, NamesShape
<1>5. m \in Node
  BY <1>1, <1>4, EntriesType
<1>6. Base[m] \in Name
  BY <1>5 DEF Name
<1>7. PathOf(i, v) = Append(p, Base[m])
  <2>1. Top(i) \in Seq(Name)
    BY TopType
  <2>2. Top(i) \o Append(Names(w), Base[m]) = Append(Top(i) \o Names(w), Base[m])
    BY <1>4, <1>6, <2>1, ConcatAppend
  <2> QED
    BY <1>1, <1>3, <2>2 DEF PathOf
<1>8. ToSet(Names(v)) = ToSet(Names(w)) \union {Base[m]}
  BY <1>3, <1>4, <1>6 DEF ToSet
<1>9. v \in TrailsOf(i)
  BY <1>2, <1>3 DEF TrailsOf
<1> QED
  BY <1>1, <1>3, <1>7, <1>8, <1>9 DEF Places

LEMMA PlacesType ==
  ASSUME job \in Job, NEW i \in DOMAIN job.srcs, NEW p, NEW n, Places(i, p, n)
  PROVE  p \in Seq(Name) /\ n \in Node
<1>1. PICK w \in TrailsOf(i) : PathOf(i, w) = p /\ Last(w) = n
  BY DEF Places
<1>2. w \in Trails
  BY DEF TrailsOf
<1>3. Names(w) \in Seq(Name) /\ Last(w) \in Node
  BY <1>2, NamesShape
<1>4. Top(i) \in Seq(Name)
  BY TopType
<1>5. p = Top(i) \o Names(w)
  BY <1>1 DEF PathOf
<1>6. p \in Seq(Name)
  BY <1>3, <1>4, <1>5
<1>7. n \in Node
  BY <1>1, <1>3
<1> QED
  BY <1>6, <1>7

\* Job and dstIsDir, which say what belongs where, do not change during the walk.
LEMMA PlacesStays ==
  ASSUME job' = job, dstIsDir' = dstIsDir
  PROVE  \A i, p, n : Places(i, p, n) <=> Places(i, p, n)'
  BY DEF Places, TrailsOf, PathOf, Top, Upload

\* The file system: besides what is put there, only the time of the directory changes.
LEMMA PutEffect ==
  ASSUME dst \in [DOMAIN dst -> EntryType], NEW p, NEW entry \in EntryType, Put(p, entry)
  PROVE  /\ dst' \in [DOMAIN dst' -> EntryType]
         /\ DOMAIN dst' = DOMAIN dst \union {p}
         /\ dst'[p] = entry
         /\ \A q \in DOMAIN dst \ {p} :
              /\ dst'[q].from = dst[q].from /\ dst'[q].data = dst[q].data
              /\ dst'[q].kind = dst[q].kind
              /\ q # Front(p) \/ p = <<>> \/ Exists(p) => dst'[q] = dst[q]
<1> DEFINE noticed == IF Exists(p) \/ p = <<>> THEN dst
                      ELSE [dst EXCEPT ![Front(p)].time = NoNode]
<1>1. /\ noticed \in [DOMAIN dst -> EntryType]
      /\ \A q \in DOMAIN dst : /\ noticed[q].from = dst[q].from
                               /\ noticed[q].data = dst[q].data
                               /\ noticed[q].kind = dst[q].kind
                               /\ q # Front(p) \/ p = <<>> \/ Exists(p) => noticed[q] = dst[q]
  BY DEF EntryType
<1> HIDE DEF noticed
<1>2. dst' = [q \in DOMAIN dst \union {p} |-> IF q = p THEN entry ELSE noticed[q]]
  BY DEF Put, noticed
<1> QED
  BY <1>1, <1>2

LEMMA ChtimesEffect ==
  ASSUME dst \in [DOMAIN dst -> EntryType], NEW p, NEW n \in Node, Chtimes(p, n)
  PROVE  /\ dst' \in [DOMAIN dst -> EntryType]
         /\ \A q \in DOMAIN dst :
              /\ dst'[q].from = dst[q].from /\ dst'[q].data = dst[q].data
              /\ dst'[q].kind = dst[q].kind
              /\ q # p => dst'[q] = dst[q] /\ (q \in untimed => q \in untimed')
         /\ p \in DOMAIN dst => dst'[p].time = n \/ p \in untimed'
  BY DEF Chtimes, EntryType

\* uploadDir and downloadDir only make the directory that belongs at their path.
LEMMA EnterDirKeeps ==
  ASSUME TransferTypes, FailureIsLocal, pc = "next", NEW i \in DOMAIN job.srcs,
         job' = job, dstIsDir' = dstIsDir,
         NEW n, NEW to, Places(i, to, n), NEW below \in Seq(Frame), EnterDir(n, to, below)
  PROVE  /\ dst' \in [DOMAIN dst' -> EntryType]
         /\ pc' \in {"next", "error"}
         /\ stack' \in {below, Append(below, [node |-> n, to |-> to, todo |-> Entries[n]])}
         /\ stack' \in Seq(Frame)
         /\ FailureIsLocal'
<1> DEFINE frame == [node |-> n, to |-> to, todo |-> Entries[n]]
           entry == [kind |-> "dir", from |-> n, data |-> "whole", time |-> NoNode,
                     writable |-> Upload \/ ~preserve \/ n \notin ReadOnly]
<1>1. n \in Node /\ to \in Seq(Name)
  BY PlacesType DEF TransferTypes
<1>2. frame \in Frame
  BY <1>1, TreeAssumption DEF Frame
<1>3. entry \in EntryType
  BY <1>1 DEF EntryType
<1>4. entry.from = n /\ entry.data # "part"
  OBVIOUS
<1>5. \/ UNCHANGED dst
      \/ Put(to, entry)
  BY DEF EnterDir
<1> HIDE DEF entry
<1>6. dst \in [DOMAIN dst -> EntryType] /\ cur' = cur
  BY DEF TransferTypes, EnterDir
<1>7. pc' \in {"next", "error"} /\ stack' \in {below, Append(below, frame)}
  BY DEF EnterDir, Proceed
<1>8. stack' \in Seq(Frame)
  BY <1>2, <1>7
<1>9. dst' \in [DOMAIN dst' -> EntryType] /\ FailureIsLocal'
  <2>1. CASE UNCHANGED dst
    BY <1>6, <2>1, PlacesStays DEF FailureIsLocal
  <2>2. CASE Put(to, entry)
    <3>1. /\ dst' \in [DOMAIN dst' -> EntryType]
          /\ DOMAIN dst' = DOMAIN dst \union {to}
          /\ dst'[to] = entry
          /\ \A q \in DOMAIN dst \ {to} : dst'[q].from = dst[q].from /\ dst'[q].data = dst[q].data
      BY <1>3, <1>6, <2>2, PutEffect
    <3>2. ASSUME NEW q \in DOMAIN dst'
          PROVE  /\ dst'[q].data # "part"
                 /\ dst'[q].from = NoNode \/ \E j \in DOMAIN job.srcs : Places(j, q, dst'[q].from)
      <4>1. CASE q = to
        BY <1>4, <3>1, <4>1
      <4>2. CASE q # to
        BY <3>1, <4>2 DEF FailureIsLocal
      <4> QED BY <4>1, <4>2
    <3> QED
      BY <3>1, <3>2, PlacesStays DEF FailureIsLocal
  <2> QED BY <1>5, <2>1, <2>2
<1> QED
  BY <1>7, <1>8, <1>9

\* uploadFile and downloadFile leave half only the file they report in cur.
LEMMA OpenFileKeeps ==
  ASSUME TransferTypes, FailureIsLocal, pc = "next", NEW i \in DOMAIN job.srcs,
         job' = job, dstIsDir' = dstIsDir,
         NEW n, NEW to, Places(i, to, n), NEW below \in Seq(Frame), OpenFile(n, to, below)
  PROVE  /\ dst' \in [DOMAIN dst' -> EntryType]
         /\ stack' = below
         /\ pc' \in {"copy", "error"}
         /\ pc' = "copy" => cur' = [node |-> n, to |-> to] /\ to \in DOMAIN dst'
         /\ FailureIsLocal'
<1> DEFINE entry == [kind |-> "file", from |-> n, data |-> "part", time |-> NoNode,
                     writable |-> TRUE]
<1>1. n \in Node /\ to \in Seq(Name)
  BY PlacesType DEF TransferTypes
<1>3. entry \in EntryType
  BY <1>1 DEF EntryType
<1>4. entry.from = n
  OBVIOUS
<1>5. /\ stack' = below
      /\ \/ pc' = "copy" /\ Put(to, entry) /\ cur' = [node |-> n, to |-> to]
         \/ pc' = "error" /\ UNCHANGED <<cur, dst>>
  BY DEF OpenFile, Proceed
<1> HIDE DEF entry
<1>6. dst \in [DOMAIN dst -> EntryType]
  BY DEF TransferTypes
<1>7. CASE pc' = "error" /\ UNCHANGED <<cur, dst>>
  BY <1>5, <1>6, <1>7, PlacesStays DEF FailureIsLocal
<1>8. CASE pc' = "copy" /\ Put(to, entry) /\ cur' = [node |-> n, to |-> to]
  <2>1. /\ dst' \in [DOMAIN dst' -> EntryType]
        /\ DOMAIN dst' = DOMAIN dst \union {to}
        /\ dst'[to] = entry
        /\ \A q \in DOMAIN dst \ {to} : dst'[q].from = dst[q].from /\ dst'[q].data = dst[q].data
    BY <1>3, <1>6, <1>8, PutEffect
  <2>2. ASSUME NEW q \in DOMAIN dst'
        PROVE  /\ dst'[q].data # "part" \/ q = to
               /\ dst'[q].from = NoNode \/ \E j \in DOMAIN job.srcs : Places(j, q, dst'[q].from)
    <3>1. CASE q = to
      BY <1>4, <2>1, <3>1
    <3>2. CASE q # to
      BY <2>1, <3>2 DEF FailureIsLocal
    <3> QED BY <3>1, <3>2
  <2>3. cur'.to = to
    BY <1>8
  <2>4. FailureIsLocal'
    BY <1>8, <2>1, <2>2, <2>3, PlacesStays DEF FailureIsLocal
  <2> QED
    BY <1>5, <1>8, <2>1, <2>4
<1> QED
  BY <1>5, <1>7, <1>8

LEMMA LocalInitInv == TransferInit => LocalInv
<1> SUFFICES ASSUME TransferInit PROVE LocalInv
  OBVIOUS
<1>1. job \in Job /\ pc = "parse" /\ args = <<>> /\ stack = <<>> /\ dst \in AtDst
  BY DEF TransferInit
<1>2. Len(job.srcs) \in Nat /\ Len(args) = 0 /\ Len(stack) = 0
  BY <1>1, SourceTypes
<1>3. dst \in [DOMAIN dst -> [kind: {"file", "dir"}, from: {NoNode}, data: {"whole"},
                              time: {NoNode}, writable: BOOLEAN]]
  BY <1>1, TransferAssumption
<1>4. TransferTypes
  <2>1. dst \in [DOMAIN dst -> EntryType]
    BY <1>3 DEF EntryType
  <2> QED
    BY <1>1, <2>1 DEF TransferTypes, Labels
<1>5. \A p \in DOMAIN dst : dst[p].from = NoNode /\ dst[p].data # "part"
  BY <1>3
<1>6. Untouched /\ Copying /\ FailureIsLocal
  BY <1>1, <1>5 DEF Untouched, Copying, FailureIsLocal
<1>7. ArgsToCome /\ Walking
  BY <1>2 DEF ArgsToCome, Walking
<1> QED
  BY <1>4, <1>6, <1>7 DEF LocalInv

\* Up to the walk the destination is as it was.
LEMMA BeforeNext ==
  ASSUME LocalInv, ParseArgs \/ Connect \/ StatDestination
  PROVE  LocalInv'
<1>1. /\ pc \in {"parse", "connect", "start"}
      /\ job' = job /\ stack' = stack /\ cur' = cur /\ dst' = dst
      /\ pc' \in {"connect", "start", "next", "error"}
  BY DEF ParseArgs, Connect, StatDestination, Proceed, commandLine
<1>2. /\ args = <<>> /\ stack = <<>>
      /\ \A p \in DOMAIN dst : dst[p].from = NoNode /\ dst[p].data # "part"
  BY <1>1 DEF LocalInv, Untouched
<1>3. job \in Job /\ dst \in [DOMAIN dst -> EntryType]
  BY DEF LocalInv, TransferTypes
<1>4. Len(job.srcs) \in Nat /\ DOMAIN job.srcs = 1..Len(job.srcs)
      /\ \A i \in DOMAIN job.srcs : job.srcs[i].node \in Node
  BY <1>3, SourceTypes
<1>5. /\ args' \in Seq(Node)
      /\ pc' \in {"connect", "start"} => args' = <<>>
      /\ Len(args') <= Len(job.srcs)
      /\ \A k \in 1..Len(args') : args'[k] = job.srcs[Len(job.srcs) - Len(args') + k].node
  <2>1. CASE UNCHANGED args
    BY <1>2, <1>4, <2>1
  <2>2. CASE args' = [i \in DOMAIN job.srcs |-> job.srcs[i].node] /\ pc' \notin {"connect", "start"}
    <3>1. args' \in [1..Len(job.srcs) -> Node]
      BY <1>4, <2>2
    <3>2. args' \in Seq(Node) /\ Len(args') = Len(job.srcs)
      BY <1>4, <3>1
    <3>3. Len(job.srcs) - Len(args') = 0
      BY <1>4, <3>2
    <3> QED
      BY <1>4, <2>2, <3>2, <3>3
  <2> QED
    BY <2>1, <2>2 DEF ParseArgs, Connect, StatDestination, Proceed
<1>6. TransferTypes'
  BY <1>1, <1>2, <1>3, <1>5 DEF TransferTypes, Labels
<1>7. Untouched' /\ Copying' /\ FailureIsLocal'
  BY <1>1, <1>2, <1>5 DEF Untouched, Copying, FailureIsLocal
<1>8. ArgsToCome'
  BY <1>1, <1>5 DEF ArgsToCome, Current
<1>9. Walking'
  <2>1. Len(stack') = 0
    BY <1>1, <1>2
  <2> QED
    BY <2>1 DEF Walking
<1> QED
  BY <1>6, <1>7, <1>8, <1>9 DEF LocalInv

\* What a step of the walk leaves to be shown.
LEMMA WalkStep ==
  ASSUME LocalInv, pc \in {"next", "copy", "times", "close"}, job' = job, dstIsDir' = dstIsDir,
         pc' \in {"next", "copy", "times", "close", "ok", "error"},
         dst' \in [DOMAIN dst' -> EntryType], args' \in Seq(Node), stack' \in Seq(Frame),
         ArgsToCome', Walking', Copying', FailureIsLocal'
  PROVE  LocalInv'
<1>1. TransferTypes'
  BY DEF LocalInv, TransferTypes, Labels
<1>2. Untouched'
  BY DEF Untouched
<1> QED
  BY <1>1, <1>2 DEF LocalInv

LEMMA FrameStays ==
  ASSUME job' = job, dstIsDir' = dstIsDir, Current' = Current
  PROVE  \A f : FrameOK(f) <=> FrameOK(f)'
  BY PlacesStays DEF FrameOK

\* uploadAll and downloadAll.
LEMMA NextArgKeeps ==
  ASSUME LocalInv, NextArg
  PROVE  LocalInv'
<1> DEFINE n == Head(args)
           to == IF dstIsDir THEN <<Base[n]>> ELSE <<>>
<1>1. /\ pc = "next" /\ stack = <<>> /\ args # <<>> /\ args' = Tail(args)
      /\ job' = job /\ dstIsDir' = dstIsDir
      /\ \/ OpenFile(n, to, <<>>)
         \/ EnterDir(n, to, <<>>)
         \/ Proceed("error") /\ UNCHANGED <<stack, cur, dst, untimed>>
  BY DEF NextArg, commandLine
<1>2. job \in Job /\ args \in Seq(Node) /\ dst \in [DOMAIN dst -> EntryType]
  BY DEF LocalInv, TransferTypes
<1>3. /\ Len(job.srcs) \in Nat /\ DOMAIN job.srcs = 1..Len(job.srcs)
      /\ \A i \in DOMAIN job.srcs : job.srcs[i].node \in Node
  BY <1>2, SourceTypes
<1>4. /\ Len(args) \in 1..Len(job.srcs)
      /\ \A k \in 1..Len(args) : args[k] = job.srcs[Len(job.srcs) - Len(args) + k].node
  BY <1>1, <1>2, <1>3 DEF LocalInv, ArgsToCome, Current
<1>5. /\ args' \in Seq(Node) /\ Len(args') = Len(args) - 1
      /\ \A k \in 1..Len(args') : args'[k] = args[k + 1]
  BY <1>1, <1>2
<1> DEFINE i == Len(job.srcs) - Len(args')
<1>6. i \in DOMAIN job.srcs /\ n = job.srcs[i].node /\ to = Top(i)
  <2>1. i = Len(job.srcs) - Len(args) + 1
    BY <1>3, <1>4, <1>5
  <2>2. n = args[1]
    BY <1>1, <1>2
  <2> QED
    BY <1>3, <1>4, <2>1, <2>2 DEF Top
<1>7. Places(i, to, n)
  BY <1>2, <1>6, PlacesTop
<1>8. Current' = i
  BY <1>1 DEF Current
<1>9. ArgsToCome'
  <2>1. ASSUME NEW k \in 1..Len(args')
        PROVE  args'[k] = job.srcs[i + k].node
    <3>1. k + 1 \in 1..Len(args) /\ i + k = Len(job.srcs) - Len(args) + (k + 1)
      <4>1. Len(args) \in Nat /\ Len(args') = Len(args) - 1
        BY <1>3, <1>4, <1>5
      <4>2. k \in Nat /\ k >= 1 /\ k <= Len(args) - 1
        BY <4>1
      <4>3. k + 1 \in 1..Len(args)
        BY <4>1, <4>2
      <4> HIDE DEF i
      <4>4. i = Len(job.srcs) - (Len(args) - 1)
        BY <4>1 DEF i
      <4>5. \A a, b, c \in Nat : (a - (b - 1)) + c = a - b + (c + 1)
        OBVIOUS
      <4>6. i + k = Len(job.srcs) - Len(args) + (k + 1)
        BY <1>3, <4>1, <4>2, <4>4, <4>5
      <4> QED
        BY <4>3, <4>6
    <3> QED
      BY <1>4, <1>5, <3>1
  <2>2. Len(args') <= Len(job.srcs)
    BY <1>3, <1>4, <1>5
  <2> QED
    BY <1>1, <1>8, <2>1, <2>2 DEF ArgsToCome
<1>10. TransferTypes /\ FailureIsLocal
  BY DEF LocalInv
<1> HIDE DEF n, to, i
<1>11. n \in Node /\ to \in Seq(Name)
  BY <1>2, <1>6, <1>7, PlacesType
<1>12. <<>> \in Seq(Frame)
  OBVIOUS
<1>13. CASE EnterDir(n, to, <<>>)
  <2> DEFINE frame == [node |-> n, to |-> to, todo |-> Entries[n]]
  <2>1. /\ dst' \in [DOMAIN dst' -> EntryType]
        /\ pc' \in {"next", "error"}
        /\ stack' \in {<<>>, Append(<<>>, frame)}
        /\ stack' \in Seq(Frame)
        /\ FailureIsLocal'
    BY <1>1, <1>6, <1>7, <1>10, <1>12, <1>13, EnterDirKeeps
  <2>2. Walking'
    <3>1. SUFFICES ASSUME NEW k \in 1..Len(stack')
                   PROVE  FrameOK(stack[k])'
      BY DEF Walking
    <3>2. stack'[k] = frame
      BY <2>1
    <3>3. frame.to = to /\ frame.node = n /\ frame.todo = Entries[n]
      OBVIOUS
    <3> HIDE DEF frame
    <3> QED
      BY <1>1, <1>6, <1>7, <1>8, <3>2, <3>3, PlacesStays DEF FrameOK
  <2>3. Copying'
    BY <2>1 DEF Copying
  <2> QED
    BY <1>1, <1>5, <1>9, <2>1, <2>2, <2>3, WalkStep
<1>14. CASE OpenFile(n, to, <<>>)
  <2>1. /\ dst' \in [DOMAIN dst' -> EntryType]
        /\ stack' = <<>>
        /\ pc' \in {"copy", "error"}
        /\ pc' = "copy" => cur' = [node |-> n, to |-> to] /\ to \in DOMAIN dst'
        /\ FailureIsLocal'
    BY <1>1, <1>6, <1>7, <1>10, <1>12, <1>14, OpenFileKeeps
  <2>2. Walking'
    <3>1. Len(stack') = 0
      BY <2>1
    <3> QED
      BY <3>1 DEF Walking
  <2>3. Copying'
    BY <1>1, <1>6, <1>7, <1>8, <1>11, <2>1, PlacesStays DEF Copying
  <2> QED
    BY <1>1, <1>5, <1>9, <1>12, <2>1, <2>2, <2>3, WalkStep
<1>15. CASE Proceed("error") /\ UNCHANGED <<stack, cur, dst, untimed>>
  <2>1. Len(stack') = 0 /\ stack' = <<>> /\ pc' = "error"
    BY <1>1, <1>15 DEF Proceed
  <2>2. Walking' /\ Copying'
    BY <2>1 DEF Walking, Copying
  <2>3. FailureIsLocal'
    BY <1>1, <1>10, <1>15, <2>1, PlacesStays DEF FailureIsLocal
  <2> QED
    BY <1>1, <1>2, <1>5, <1>9, <1>12, <1>15, <2>1, <2>2, <2>3, WalkStep
<1> QED
  BY <1>1, <1>13, <1>14, <1>15 DEF n, to

LEMMA TopOfStack ==
  ASSUME LocalInv, stack # <<>>
  PROVE  /\ Len(stack) \in Nat \ {0} /\ Last(stack) = stack[Len(stack)]
         /\ Last(stack) \in Frame
         /\ Front(stack) \in Seq(Frame) /\ Len(Front(stack)) = Len(stack) - 1
         /\ \A k \in 1..Len(stack) - 1 : Front(stack)[k] = stack[k]
         /\ \A k \in 1..Len(stack) : FrameOK(stack[k])
         /\ FrameOK(Last(stack))
<1>1. stack \in Seq(Frame)
  BY DEF LocalInv, TransferTypes
<1>2. Len(stack) \in Nat \ {0} /\ stack[Len(stack)] \in Frame
  BY <1>1
<1>3. Front(stack) \in Seq(Frame) /\ Len(Front(stack)) = Len(stack) - 1
      /\ \A k \in 1..Len(stack) - 1 : Front(stack)[k] = stack[k]
  BY <1>1, <1>2, FrontShape
<1>4. Len(stack) \in 1..Len(stack)
  BY <1>2
<1> QED
  BY <1>2, <1>3, <1>4 DEF Last, LocalInv, Walking

\* The loops of uploadDir and downloadDir.
LEMMA NextEntryKeeps ==
  ASSUME LocalInv, NextEntry
  PROVE  LocalInv'
<1> DEFINE top == Last(stack)
           n == Head(top.todo)
           to == Append(top.to, Base[n])
           rest == [top EXCEPT !.todo = Tail(top.todo)]
           below == Append(Front(stack), rest)
           safe == Upload \/ Base[n] \notin Unsafe
           frame == [node |-> n, to |-> to, todo |-> Entries[n]]
<1>1. /\ pc = "next" /\ stack # <<>> /\ top.todo # <<>>
      /\ job' = job /\ dstIsDir' = dstIsDir /\ args' = args
      /\ \/ safe /\ OpenFile(n, to, below)
         \/ safe /\ EnterDir(n, to, below)
         \/ Proceed("error") /\ UNCHANGED <<stack, cur, dst, untimed>>
  BY DEF NextEntry, commandLine
<1>2. job \in Job /\ args \in Seq(Node) /\ dst \in [DOMAIN dst -> EntryType] /\ stack \in Seq(Frame)
  BY DEF LocalInv, TransferTypes
<1>3. /\ top \in Frame /\ Front(stack) \in Seq(Frame) /\ Current \in DOMAIN job.srcs
      /\ Places(Current, top.to, top.node)
      /\ ToSet(top.todo) \subseteq ToSet(Entries[top.node])
  BY <1>1, TopOfStack DEF FrameOK
<1>4. /\ n \in ToSet(top.todo) /\ Tail(top.todo) \in Seq(Node)
      /\ ToSet(Tail(top.todo)) \subseteq ToSet(top.todo)
  BY <1>1, <1>3 DEF Frame, ToSet
<1>5. rest \in Frame /\ rest.node = top.node /\ rest.to = top.to /\ rest.todo = Tail(top.todo)
  BY <1>3, <1>4 DEF Frame
<1> HIDE DEF rest
<1>6. /\ below \in Seq(Frame) /\ Len(below) = Len(stack)
      /\ \A k \in 1..Len(stack) : below[k] = IF k = Len(stack) THEN rest ELSE stack[k]
  BY <1>1, <1>3, <1>5, TopOfStack
<1>7. \A k \in 1..Len(below) : FrameOK(below[k])
  <2>1. FrameOK(rest)
    BY <1>3, <1>4, <1>5 DEF FrameOK
  <2> QED
    BY <1>1, <1>6, <2>1, TopOfStack
<1>8. safe => Places(Current, to, n)
  BY <1>2, <1>3, <1>4, PlacesEntry
<1>9. TransferTypes /\ FailureIsLocal /\ ArgsToCome
  BY DEF LocalInv
<1> HIDE DEF n, to, below, safe
<1>10. Current' = Current /\ ArgsToCome'
  BY <1>1, <1>9 DEF ArgsToCome, Current
<1>11. CASE safe /\ EnterDir(n, to, below)
  <2>1. /\ dst' \in [DOMAIN dst' -> EntryType]
        /\ pc' \in {"next", "error"}
        /\ stack' \in {below, Append(below, frame)}
        /\ stack' \in Seq(Frame)
        /\ FailureIsLocal'
    BY <1>1, <1>3, <1>6, <1>8, <1>9, <1>11, EnterDirKeeps
  <2>2. Walking'
    <3>1. SUFFICES ASSUME NEW k \in 1..Len(stack')
                   PROVE  FrameOK(stack[k])'
      BY DEF Walking
    <3>2. \/ stack'[k] = frame
          \/ k \in 1..Len(below) /\ stack'[k] = below[k]
      BY <1>6, <2>1
    <3>3. frame.to = to /\ frame.node = n /\ frame.todo = Entries[n]
      OBVIOUS
    <3> HIDE DEF frame
    <3>4. FrameOK(frame)
      BY <1>3, <1>8, <1>11, <3>3 DEF FrameOK
    <3>5. FrameOK(stack'[k])
      BY <1>7, <3>2, <3>4
    <3> QED
      BY <1>1, <1>10, <3>5, FrameStays
  <2>3. Copying'
    BY <2>1 DEF Copying
  <2> QED
    BY <1>1, <1>2, <1>10, <2>1, <2>2, <2>3, WalkStep
<1>12. CASE safe /\ OpenFile(n, to, below)
  <2>1. /\ dst' \in [DOMAIN dst' -> EntryType]
        /\ stack' = below
        /\ pc' \in {"copy", "error"}
        /\ pc' = "copy" => cur' = [node |-> n, to |-> to] /\ to \in DOMAIN dst'
        /\ FailureIsLocal'
    BY <1>1, <1>3, <1>6, <1>8, <1>9, <1>12, OpenFileKeeps
  <2>2. Walking'
    BY <1>1, <1>7, <1>10, <2>1, FrameStays DEF Walking
  <2>3. n \in Node /\ to \in Seq(Name)
    BY <1>2, <1>3, <1>8, <1>12, PlacesType
  <2>4. Copying'
    BY <1>1, <1>3, <1>8, <1>10, <1>12, <2>1, <2>3, PlacesStays DEF Copying
  <2> QED
    BY <1>1, <1>2, <1>6, <1>10, <2>1, <2>2, <2>4, WalkStep
<1>13. CASE Proceed("error") /\ UNCHANGED <<stack, cur, dst, untimed>>
  <2>1. stack' = stack /\ pc' = "error"
    BY <1>13 DEF Proceed
  <2>2. Walking'
    BY <1>1, <1>10, <2>1, FrameStays, TopOfStack DEF Walking
  <2>3. FailureIsLocal' /\ Copying'
    BY <1>1, <1>9, <1>13, <2>1, PlacesStays DEF FailureIsLocal, Copying
  <2> QED
    BY <1>1, <1>2, <1>10, <1>13, <2>1, <2>2, <2>3, WalkStep
<1> QED
  BY <1>1, <1>11, <1>12, <1>13

LEMMA CopyKeeps ==
  ASSUME LocalInv, Copy
  PROVE  LocalInv'
<1>1. /\ pc = "copy" /\ job' = job /\ dstIsDir' = dstIsDir
      /\ args' = args /\ stack' = stack /\ cur' = cur
      /\ \/ dst' = [dst EXCEPT ![cur.to].data = "whole"] /\ pc' \in {"times", "close"}
         \/ pc' = "error" /\ UNCHANGED dst
  BY DEF Copy, Proceed, commandLine
<1>2. /\ TransferTypes /\ FailureIsLocal /\ Copying /\ ArgsToCome /\ Walking
      /\ dst \in [DOMAIN dst -> EntryType] /\ args \in Seq(Node) /\ stack \in Seq(Frame)
  BY DEF LocalInv, TransferTypes
<1>3. Current' = Current /\ ArgsToCome' /\ Walking'
  BY <1>1, <1>2, FrameStays DEF ArgsToCome, Current, Walking
<1>4. dst' \in [DOMAIN dst' -> EntryType] /\ FailureIsLocal' /\ DOMAIN dst' = DOMAIN dst
  <2>1. CASE pc' = "error" /\ UNCHANGED dst
    BY <1>1, <1>2, <2>1, PlacesStays DEF FailureIsLocal
  <2>2. CASE dst' = [dst EXCEPT ![cur.to].data = "whole"]
    <3>1. /\ dst' \in [DOMAIN dst -> EntryType]
          /\ \A p \in DOMAIN dst :
               /\ dst'[p].from = dst[p].from
               /\ dst'[p].data = IF p = cur.to THEN "whole" ELSE dst[p].data
      <4> DEFINE Whole(e) == [e EXCEPT !.data = "whole"]
      <4>1. \A e \in EntryType : /\ Whole(e) \in EntryType
                                  /\ Whole(e).from = e.from /\ Whole(e).data = "whole"
        BY DEF EntryType
      <4>2. DOMAIN dst' = DOMAIN dst /\ \A p \in DOMAIN dst :
              dst'[p] = IF p = cur.to THEN Whole(dst[p]) ELSE dst[p]
        BY <1>2, <2>2
      <4>3. dst' = [p \in DOMAIN dst |-> dst'[p]]
        BY <1>2, <2>2
      <4>4. \A p \in DOMAIN dst : dst[p] \in EntryType
        BY <1>2
      <4> HIDE DEF Whole
      <4>5. \A p \in DOMAIN dst :
              /\ dst'[p] \in EntryType /\ dst'[p].from = dst[p].from
              /\ dst'[p].data = IF p = cur.to THEN "whole" ELSE dst[p].data
        <5>1. TAKE p \in DOMAIN dst
        <5>2. CASE p = cur.to
          BY <4>1, <4>2, <4>4, <5>2
        <5>3. CASE p # cur.to
          BY <4>2, <4>4, <5>3
        <5> QED
          BY <5>2, <5>3
      <4> QED
        BY <4>3, <4>5
    <3> QED
      BY <1>1, <1>2, <3>1, PlacesStays DEF FailureIsLocal
  <2> QED
    BY <1>1, <2>1, <2>2
<1>5. Copying'
  BY <1>1, <1>2, <1>3, <1>4, PlacesStays DEF Copying
<1> QED
  BY <1>1, <1>2, <1>3, <1>4, <1>5, WalkStep

LEMMA TimesKeep ==
  ASSUME LocalInv, FileTimes \/ LeaveDir \/ AllDone
  PROVE  LocalInv'
<1>1. /\ job' = job /\ dstIsDir' = dstIsDir /\ args' = args
      /\ pc \in {"next", "times"} /\ pc' \in {"next", "close", "ok"}
      /\ pc' = "close" => pc = "times" /\ cur' = cur
  BY DEF FileTimes, LeaveDir, AllDone, Proceed, commandLine
<1>2. /\ TransferTypes /\ FailureIsLocal /\ Copying /\ ArgsToCome /\ Walking
      /\ dst \in [DOMAIN dst -> EntryType] /\ args \in Seq(Node) /\ stack \in Seq(Frame)
  BY DEF LocalInv, TransferTypes
<1>3. Current' = Current /\ ArgsToCome'
  BY <1>1, <1>2 DEF ArgsToCome, Current
<1>4. stack' \in Seq(Frame) /\ Walking'
  <2>1. CASE stack' = stack
    BY <1>1, <1>2, <1>3, <2>1, FrameStays DEF Walking
  <2>2. CASE stack # <<>> /\ stack' = Front(stack)
    <3>1. /\ stack' \in Seq(Frame)
          /\ \A k \in 1..Len(stack') : FrameOK(stack'[k])
      BY <2>2, TopOfStack
    <3> QED
      BY <1>1, <1>3, <3>1, FrameStays DEF Walking
  <2> QED
    BY <2>1, <2>2 DEF FileTimes, LeaveDir, AllDone
<1>5. dst' \in [DOMAIN dst' -> EntryType] /\ FailureIsLocal'
  <2>1. CASE UNCHANGED dst
    BY <1>1, <1>2, <2>1, PlacesStays DEF FailureIsLocal
  <2>2. ASSUME NEW p, NEW n \in Node, Chtimes(p, n)
        PROVE  dst' \in [DOMAIN dst' -> EntryType] /\ FailureIsLocal'
    <3>1. /\ dst' \in [DOMAIN dst -> EntryType]
          /\ \A q \in DOMAIN dst : dst'[q].from = dst[q].from /\ dst'[q].data = dst[q].data
      BY <1>2, <2>2, ChtimesEffect
    <3> QED
      BY <1>1, <1>2, <3>1, PlacesStays DEF FailureIsLocal
  <2>3. CASE FileTimes
    <3>1. cur.node \in Node /\ Chtimes(cur.to, cur.node)
      BY <1>2, <2>3 DEF FileTimes, Copying
    <3> QED
      BY <2>2, <3>1
  <2>4. CASE LeaveDir
    <3>1. Last(stack).node \in Node
      BY <2>4, TopOfStack DEF LeaveDir, Frame
    <3> QED
      BY <2>1, <2>2, <2>4, <3>1 DEF LeaveDir
  <2> QED
    BY <2>1, <2>3, <2>4 DEF AllDone
<1>6. Copying'
  <2>1. CASE FileTimes
    <3>1. cur' = cur /\ DOMAIN dst' = DOMAIN dst
      BY <2>1 DEF FileTimes, Chtimes
    <3> QED
      BY <1>1, <1>2, <1>3, <3>1, PlacesStays DEF Copying
  <2>2. CASE pc' # "close"
    BY <1>1, <2>2 DEF Copying
  <2> QED
    BY <1>1, <2>1, <2>2 DEF LeaveDir, AllDone, Proceed
<1> QED
  BY <1>1, <1>2, <1>3, <1>4, <1>5, <1>6, WalkStep

\* What a Close that fails does: the file is no longer whole, but has been copied.
LEMMA CloseEffect ==
  ASSUME LocalInv, CloseFile
  PROVE  /\ dst' \in [DOMAIN dst -> EntryType]
         /\ \A q \in DOMAIN dst :
              /\ dst'[q].from = dst[q].from /\ dst'[q].kind = dst[q].kind
              /\ dst'[q].time = dst[q].time
              /\ dst[q].data # "part" => dst'[q].data # "part"
<1>1. dst \in [DOMAIN dst -> EntryType]
  BY DEF LocalInv, TransferTypes
<1>2. CASE UNCHANGED dst
  BY <1>1, <1>2
<1>3. CASE dst' = [dst EXCEPT ![cur.to].data = "unclosed"]
  <2> DEFINE Unclosed(e) == [e EXCEPT !.data = "unclosed"]
  <2>1. \A e \in EntryType : /\ Unclosed(e) \in EntryType
                             /\ Unclosed(e).from = e.from /\ Unclosed(e).kind = e.kind
                             /\ Unclosed(e).time = e.time /\ Unclosed(e).data # "part"
    BY DEF EntryType
  <2>2. DOMAIN dst' = DOMAIN dst /\ \A q \in DOMAIN dst :
          dst'[q] = IF q = cur.to THEN Unclosed(dst[q]) ELSE dst[q]
    BY <1>1, <1>3
  <2>3. dst' = [q \in DOMAIN dst |-> dst'[q]]
    BY <1>1, <1>3
  <2>4. \A q \in DOMAIN dst : dst[q] \in EntryType
    BY <1>1
  <2> HIDE DEF Unclosed
  <2>5. \A q \in DOMAIN dst :
          /\ dst'[q] \in EntryType /\ dst'[q].from = dst[q].from
          /\ dst'[q].kind = dst[q].kind /\ dst'[q].time = dst[q].time
          /\ dst[q].data # "part" => dst'[q].data # "part"
    <3>1. TAKE q \in DOMAIN dst
    <3>2. CASE q = cur.to
      BY <2>1, <2>2, <2>4, <3>2
    <3>3. CASE q # cur.to
      BY <2>2, <2>4, <3>3
    <3> QED
      BY <3>2, <3>3
  <2> QED
    BY <2>3, <2>5
<1> QED
  BY <1>2, <1>3 DEF CloseFile

LEMMA CloseKeeps ==
  ASSUME LocalInv, CloseFile
  PROVE  LocalInv'
<1>1. /\ pc = "close" /\ pc' = "next" /\ job' = job /\ dstIsDir' = dstIsDir
      /\ args' = args /\ stack' = stack /\ cur' = cur
  BY DEF CloseFile, Proceed, commandLine
<1>2. /\ TransferTypes /\ FailureIsLocal /\ ArgsToCome /\ Walking
      /\ args \in Seq(Node) /\ stack \in Seq(Frame)
  BY DEF LocalInv, TransferTypes
<1>3. ArgsToCome' /\ Walking' /\ Copying'
  BY <1>1, <1>2, FrameStays DEF ArgsToCome, Current, Walking, Copying
<1>4. dst' \in [DOMAIN dst' -> EntryType] /\ FailureIsLocal'
  BY <1>1, <1>2, CloseEffect, PlacesStays DEF FailureIsLocal
<1> QED
  BY <1>1, <1>2, <1>3, <1>4, WalkStep

LEMMA LocalNextInv == LocalInv /\ [TransferNext]_transferVars => LocalInv'
<1>1. ASSUME LocalInv, UNCHANGED transferVars
      PROVE  LocalInv'
  <2>1. /\ job' = job /\ dstIsDir' = dstIsDir /\ pc' = pc /\ dst' = dst
        /\ args' = args /\ stack' = stack /\ cur' = cur
    BY <1>1 DEF transferVars
  <2>2. LocalInv
    BY <1>1
  <2>3. TransferTypes' /\ Untouched'
    BY <2>1, <2>2 DEF LocalInv, TransferTypes, Untouched
  <2>4. Current' = Current
    BY <2>1 DEF Current
  <2>5. ArgsToCome' /\ Walking' /\ Copying' /\ FailureIsLocal'
    BY <2>1, <2>2, <2>4, PlacesStays, FrameStays
       DEF LocalInv, ArgsToCome, Walking, Copying, FailureIsLocal
  <2> QED
    BY <2>3, <2>5 DEF LocalInv
<1> QED
  BY <1>1, BeforeNext, NextArgKeeps, NextEntryKeeps, CopyKeeps, TimesKeep,
     CloseKeeps DEF TransferNext

\* However a copy ends, it has only touched paths its sources go to, has put there
\* what belongs there, and has left at most the file it was at half there, and those
\* whose Close failed: for any trees, destinations and failures of the walks in
\* client/sftp.go.
THEOREM FailureIsLocalCorrect == TransferSpec => []FailureIsLocal
<1>1. LocalInv => FailureIsLocal
  BY DEF LocalInv
<1> QED
  BY <1>1, LocalInitInv, LocalNextInv, PTL DEF TransferSpec
-----------------------------------------------------------------------------
(* Transfers: the invariant behind SuccessIsComplete.                      *)

InWalk == pc \in {"next", "copy", "times", "close", "ok"}

FramesAreDirs ==
  InWalk => \A k \in 1..Len(stack) : IsDir(stack[k].to) /\ Type[stack[k].node] # "file"

CopyIsFile ==
  pc \in {"copy", "times"} =>
    /\ ~IsDir(cur.to) /\ dst[cur.to].from = cur.node
    /\ pc = "times" => Type[cur.node] = "file"

\* The walk has yet to take up an entry that w goes by.
Ahead(w) ==
  \E k \in 1..Len(stack) : \E l \in 1..Len(w) - 1 :
    /\ PathOf(Current, SubSeq(w, 1, l)) = stack[k].to
    /\ w[l + 1] \in ToSet(stack[k].todo)

\* The directory w leads to is being walked.
Open(w) == \E k \in 1..Len(stack) : PathOf(Current, w) = stack[k].to

\* The file w leads to is being copied.
InCopy(w) ==
  /\ pc \in {"copy", "times"}
  /\ \E l \in 1..Len(w) : PathOf(Current, SubSeq(w, 1, l)) = cur.to

Settled(i, w) == Later(i, PathOf(i, w)) \/ Arrived(PathOf(i, w), Last(w))

\* Nothing is forgotten: what a way leads to has arrived, has given way to a later
\* source, or is still before the walk.
Accounted(i, w) ==
  \/ Settled(i, w)
  \/ i = Current /\ (Ahead(w) \/ Open(w) \/ InCopy(w))

AllAccounted == InWalk => \A i \in 1..Current : \A w \in TrailsOf(i) : Accounted(i, w)

AtEnd == pc = "ok" => stack = <<>> /\ args = <<>>

SuccessInv == FramesAreDirs /\ CopyIsFile /\ AllAccounted /\ AtEnd
-----------------------------------------------------------------------------
LEMMA PathStays ==
  ASSUME job' = job, dstIsDir' = dstIsDir
  PROVE  /\ \A i, w : PathOf(i, w)' = PathOf(i, w)
         /\ \A i : TrailsOf(i)' = TrailsOf(i)
         /\ \A i, p : Later(i, p) <=> Later(i, p)'
BY DEF PathOf, TrailsOf, Top, Later

\* Two ways down one source lead to different paths.
LEMMA SamePath ==
  ASSUME job \in Job, NEW i \in DOMAIN job.srcs, NEW w \in TrailsOf(i), NEW v \in TrailsOf(i),
         PathOf(i, w) = PathOf(i, v)
  PROVE  w = v
<1>1. w \in Trails /\ v \in Trails /\ w[1] = v[1]
  BY DEF TrailsOf
<1>2. Names(w) \in Seq(Name) /\ Names(v) \in Seq(Name) /\ Top(i) \in Seq(Name)
  BY <1>1, NamesShape, TopType
<1>3. Names(w) = Names(v)
  BY <1>2, Cancel DEF PathOf
<1> QED
  BY <1>1, <1>3, NamesDetermineTrail

\* A way down that comes by the path where n goes comes by n.
LEMMA TrailThere ==
  ASSUME job \in Job, NEW i \in DOMAIN job.srcs, NEW p, NEW n, Places(i, p, n),
         NEW w \in TrailsOf(i), NEW l \in 1..Len(w), PathOf(i, SubSeq(w, 1, l)) = p
  PROVE  /\ w[l] = n
         /\ l = Len(w) => PathOf(i, w) = p /\ Last(w) = n
         /\ l # Len(w) => l \in 1..Len(w) - 1 /\ w[l + 1] \in ToSet(Entries[n])
<1>1. w \in Trails /\ w[1] = job.srcs[i].node
  BY DEF TrailsOf
<1> DEFINE u == SubSeq(w, 1, l)
<1>2. u \in Trails /\ u[1] = w[1] /\ Last(u) = w[l] /\ Len(u) = l /\ \A k \in 1..l : u[k] = w[k]
  BY <1>1, TrailPrefix
<1>3. u \in TrailsOf(i)
  BY <1>1, <1>2 DEF TrailsOf
<1>4. PICK v \in TrailsOf(i) : PathOf(i, v) = p /\ Last(v) = n
  BY DEF Places
<1>5. u = v
  BY <1>3, <1>4, SamePath
<1>6. w[l] = n
  BY <1>2, <1>4, <1>5
<1>7. /\ w \in Seq(Node) /\ Len(w) \in Nat
      /\ \A k \in 1..Len(w) - 1 : w[k + 1] \in ToSet(Entries[w[k]])
  BY <1>1, TrailShape
<1>8. u \in Seq(Node)
  BY <1>2, TrailShape
<1> HIDE DEF u
<1>9. l = Len(w) => u = w
  BY <1>2, <1>7, <1>8, SameSeq
<1> QED
  BY <1>4, <1>5, <1>6, <1>7, <1>9 DEF Last

LEMMA TrailWhole ==
  ASSUME NEW i, NEW w \in TrailsOf(i)
  PROVE  Len(w) \in 1..Len(w) /\ SubSeq(w, 1, Len(w)) = w
<1>1. w \in Seq(Node) /\ Len(w) \in Nat \ {0}
  BY TrailShape, TreeAssumption DEF TrailsOf
<1> QED
  BY <1>1

LEMMA TrailEnd ==
  ASSUME job \in Job, NEW i \in DOMAIN job.srcs, NEW p, NEW n, Places(i, p, n),
         NEW w \in TrailsOf(i), PathOf(i, w) = p
  PROVE  Last(w) = n
<1> DEFINE l == Len(w)
<1>1. l \in 1..Len(w) /\ SubSeq(w, 1, l) = w /\ l = Len(w)
  BY TrailWhole
<1> HIDE DEF l
<1>2. PathOf(i, SubSeq(w, 1, l)) = p
  BY <1>1
<1> QED
  BY <1>1, <1>2, TrailThere

LEMMA LaterBy ==
  ASSUME job \in Job, NEW c \in DOMAIN job.srcs, NEW p, NEW n, Places(c, p, n),
         NEW i \in DOMAIN job.srcs, i < c
  PROVE  Later(i, p)
<1>1. PICK w \in TrailsOf(c) : PathOf(c, w) = p
  BY DEF Places
<1> QED
  BY <1>1 DEF Later

\* What is settled stays so while its path is left alone.
LEMMA ArrivedStays ==
  ASSUME job' = job, dstIsDir' = dstIsDir, preserve' = preserve,
         NEW i, NEW w, Settled(i, w), NEW p, p = PathOf(i, w),
         p \in DOMAIN dst => p \in DOMAIN dst' /\ dst'[p] = dst[p],
         p \in untimed => p \in untimed'
  PROVE  Settled(i, w)'
<1>1. PathOf(i, w)' = p /\ (Later(i, p)' <=> Later(i, p))
  BY PathStays
<1>2. CASE Later(i, p)
  BY <1>1, <1>2 DEF Settled
<1>3. CASE Arrived(p, Last(w))
  <2>1. Arrived(p, Last(w))'
    BY <1>3 DEF Arrived, Exists, IsDir
  <2> QED BY <1>1, <2>1 DEF Settled
<1> QED BY <1>2, <1>3 DEF Settled

\* Entering a directory takes over every way that goes through its path.
LEMMA DirCovers ==
  ASSUME job \in Job, job' = job, dstIsDir' = dstIsDir, NEW i \in DOMAIN job.srcs, Current' = i,
         NEW n, NEW to, Places(i, to, n), NEW k \in 1..Len(stack'),
         stack'[k] = [node |-> n, to |-> to, todo |-> Entries[n]],
         NEW w \in TrailsOf(i), NEW l \in 1..Len(w), PathOf(i, SubSeq(w, 1, l)) = to
  PROVE  Ahead(w)' \/ Open(w)'
<1>1. /\ l = Len(w) => PathOf(i, w) = to
      /\ l # Len(w) => l \in 1..Len(w) - 1 /\ w[l + 1] \in ToSet(Entries[n])
  BY TrailThere
<1>2. stack'[k].to = to /\ stack'[k].todo = Entries[n]
  OBVIOUS
<1>3. CASE l = Len(w)
  BY <1>1, <1>2, <1>3, PathStays DEF Open
<1>4. CASE l # Len(w)
  BY <1>1, <1>2, <1>4, PathStays DEF Ahead
<1> QED
  BY <1>3, <1>4

\* Opening a file takes over every way that goes through its path.
LEMMA FileCovers ==
  ASSUME job' = job, dstIsDir' = dstIsDir, NEW i, Current' = i,
         pc' \in {"copy", "times"},
         NEW w, NEW l \in 1..Len(w), PathOf(i, SubSeq(w, 1, l)) = cur'.to
  PROVE  InCopy(w)'
  BY PathStays DEF InCopy

\* A write disturbs its own path and the time of its directory.
LEMMA PutKeeps ==
  ASSUME LocalInv, job' = job, dstIsDir' = dstIsDir, preserve' = preserve, untimed' = untimed,
         NEW to, NEW entry \in EntryType, UNCHANGED dst \/ Put(to, entry),
         NEW i, NEW w, Settled(i, w), PathOf(i, w) # to, to = <<>> \/ PathOf(i, w) # Front(to)
  PROVE  Settled(i, w)'
<1>1. dst \in [DOMAIN dst -> EntryType]
  BY DEF LocalInv, TransferTypes
<1>2. \A p \in DOMAIN dst : p # to /\ (to = <<>> \/ p # Front(to)) => p \in DOMAIN dst' /\ dst'[p] = dst[p]
  <2>1. CASE UNCHANGED dst
    BY <2>1
  <2>2. CASE Put(to, entry)
    BY <1>1, <2>2, PutEffect
  <2> QED BY <2>1, <2>2
<1> QED
  BY <1>2, ArrivedStays

LEMMA EnterDirWrites ==
  ASSUME LocalInv, NEW n \in Node, NEW to, NEW below, EnterDir(n, to, below), pc' # "error"
  PROVE  /\ pc' = "next" /\ untimed' = untimed
         /\ stack' = Append(below, [node |-> n, to |-> to, todo |-> Entries[n]])
         /\ \E entry \in EntryType : UNCHANGED dst \/ Put(to, entry)
         /\ to \in DOMAIN dst' /\ dst'[to].kind = "dir"
         /\ \A p \in DOMAIN dst : IsDir(p) => p \in DOMAIN dst' /\ dst'[p].kind = "dir"
<1> DEFINE entry == [kind |-> "dir", from |-> n, data |-> "whole", time |-> NoNode,
                     writable |-> Upload \/ ~preserve \/ n \notin ReadOnly]
<1>1. entry \in EntryType /\ entry.kind = "dir"
  BY DEF EntryType
<1>2. /\ pc' = "next" /\ untimed' = untimed
      /\ stack' = Append(below, [node |-> n, to |-> to, todo |-> Entries[n]])
      /\ \/ IsDir(to) /\ UNCHANGED dst
         \/ ~Exists(to) /\ Put(to, entry)
  BY DEF EnterDir, Proceed
<1> HIDE DEF entry
<1>3. dst \in [DOMAIN dst -> EntryType]
  BY DEF LocalInv, TransferTypes
<1>4. CASE IsDir(to) /\ UNCHANGED dst
  BY <1>1, <1>2, <1>4 DEF IsDir, Exists
<1>5. CASE ~Exists(to) /\ Put(to, entry)
  <2>1. /\ DOMAIN dst' = DOMAIN dst \union {to} /\ dst'[to] = entry
        /\ \A q \in DOMAIN dst \ {to} : dst'[q].kind = dst[q].kind
    BY <1>1, <1>3, <1>5, PutEffect
  <2> QED
    BY <1>1, <1>2, <1>5, <2>1 DEF IsDir, Exists
<1> QED
  BY <1>2, <1>4, <1>5

LEMMA OpenFileWrites ==
  ASSUME LocalInv, NEW n \in Node, NEW to, NEW below, OpenFile(n, to, below), pc' # "error"
  PROVE  /\ pc' = "copy" /\ untimed' = untimed /\ stack' = below
         /\ cur' = [node |-> n, to |-> to]
         /\ \E entry \in EntryType : UNCHANGED dst \/ Put(to, entry)
         /\ dst'[to].kind # "dir" /\ dst'[to].from = n
         /\ \A p \in DOMAIN dst : IsDir(p) => p \in DOMAIN dst' /\ dst'[p].kind = "dir"
<1> DEFINE entry == [kind |-> "file", from |-> n, data |-> "part", time |-> NoNode,
                     writable |-> TRUE]
<1>1. entry \in EntryType /\ entry.kind = "file" /\ entry.from = n
  BY DEF EntryType
<1>2. /\ pc' = "copy" /\ untimed' = untimed /\ stack' = below /\ cur' = [node |-> n, to |-> to]
      /\ ~IsDir(to) /\ Put(to, entry)
  BY DEF OpenFile, Proceed
<1> HIDE DEF entry
<1>3. dst \in [DOMAIN dst -> EntryType]
  BY DEF LocalInv, TransferTypes
<1>4. /\ DOMAIN dst' = DOMAIN dst \union {to} /\ dst'[to] = entry
      /\ \A q \in DOMAIN dst \ {to} : dst'[q].kind = dst[q].kind
  BY <1>1, <1>2, <1>3, PutEffect
<1> QED
  BY <1>1, <1>2, <1>4 DEF IsDir, Exists

\* The next source takes over all ways down it; what was at its path is of an earlier
\* one, which it replaces.
LEMMA NextArgSucceeds ==
  ASSUME LocalInv, SuccessInv, NextArg, pc' # "error"
  PROVE  SuccessInv'
<1> DEFINE n == Head(args)
           to == IF dstIsDir THEN <<Base[n]>> ELSE <<>>
           i == Current + 1
           dir == [node |-> n, to |-> to, todo |-> Entries[n]]
<1>1. /\ pc = "next" /\ stack = <<>> /\ args # <<>> /\ args' = Tail(args)
      /\ job' = job /\ dstIsDir' = dstIsDir /\ preserve' = preserve
      /\ \/ OpenFile(n, to, <<>>)
         \/ Type[n] # "file" /\ EnterDir(n, to, <<>>)
  BY DEF NextArg, commandLine, Proceed
<1>2. job \in Job /\ args \in Seq(Node)
  BY DEF LocalInv, TransferTypes
<1>3. /\ Len(job.srcs) \in Nat /\ DOMAIN job.srcs = 1..Len(job.srcs)
      /\ Len(args) \in 1..Len(job.srcs)
      /\ args[1] = job.srcs[Current + 1].node
  <2>1. Len(job.srcs) \in Nat /\ DOMAIN job.srcs = 1..Len(job.srcs)
    BY <1>2, SourceTypes
  <2> QED
    BY <1>1, <1>2, <2>1 DEF LocalInv, ArgsToCome
<1>4. n = args[1] /\ n \in Node /\ Len(args') = Len(args) - 1
  BY <1>1, <1>2
<1>5. /\ i \in DOMAIN job.srcs /\ Current' = i /\ Current \in Nat
      /\ to = Top(i) /\ job.srcs[i].node = n
  BY <1>1, <1>3, <1>4 DEF Current, Top
<1>6. Places(i, to, n)
  BY <1>2, <1>5, PlacesTop
<1> HIDE DEF n, i
<1>7. \A j, w : w \in TrailsOf(j) => to = <<>> \/ PathOf(j, w) # Front(to)
  <2> SUFFICES ASSUME NEW j, NEW w \in TrailsOf(j), dstIsDir
               PROVE  PathOf(j, w) # Front(to)
    OBVIOUS
  <2>1. Front(to) = <<>>
    BY DEF Front
  <2>2. Names(w) \in Seq(Name)
    BY NamesShape DEF TrailsOf
  <2>3. PathOf(j, w) = <<Base[job.srcs[j].node]>> \o Names(w)
    BY DEF PathOf, Top
  <2>4. Len(PathOf(j, w)) = 1 + Len(Names(w)) /\ Len(Names(w)) \in Nat
    BY <2>2, <2>3
  <2>5. PathOf(j, w) # <<>>
    BY <2>4
  <2> QED BY <2>1, <2>5
<1> HIDE DEF to
<1>8. ASSUME NEW j \in 1..Current, NEW w \in TrailsOf(j)
      PROVE  Settled(j, w)
  <2>1. Len(stack) = 0
    BY <1>1
  <2>2. Accounted(j, w)
    BY <1>1 DEF SuccessInv, AllAccounted, InWalk
  <2> QED
    BY <1>1, <2>1, <2>2 DEF Accounted, Ahead, Open, InCopy
<1>9. ASSUME NEW entry \in EntryType, UNCHANGED dst \/ Put(to, entry), untimed' = untimed,
             NEW j \in 1..Current, NEW w \in TrailsOf(j)
      PROVE  Settled(j, w)'
  <2>1. CASE PathOf(j, w) = to
    <3>1. Later(j, to)
      <4>1. j \in DOMAIN job.srcs /\ j < i
        BY <1>3, <1>5 DEF i
      <4> QED
        BY <1>2, <1>5, <1>6, <4>1, LaterBy
    <3> QED
      BY <1>1, <2>1, <3>1, PathStays DEF Settled
  <2>2. CASE PathOf(j, w) # to
    BY <1>1, <1>7, <1>8, <1>9, <2>2, PutKeeps
  <2> QED BY <2>1, <2>2
<1>10. ASSUME NEW w \in TrailsOf(i)
       PROVE  1 \in 1..Len(w) /\ PathOf(i, SubSeq(w, 1, 1)) = to
  <2>1. w \in Trails /\ w[1] = n
    BY <1>5 DEF TrailsOf
  <2>2. w \in Seq(Node) /\ Len(w) \in Nat \ {0}
    BY <2>1, TrailShape, TreeAssumption
  <2>3. 1 \in 1..Len(w)
    BY <2>2
  <2>4. SubSeq(w, 1, 1) = <<n>>
    <3>1. SubSeq(w, 1, 1) \in Trails /\ SubSeq(w, 1, 1)[1] = n /\ Len(SubSeq(w, 1, 1)) = 1
      BY <2>1, <2>3, TrailPrefix
    <3>2. SubSeq(w, 1, 1) \in Seq(Node)
      BY <3>1, TrailShape
    <3>3. <<n>> \in Seq(Node) /\ Len(<<n>>) = 1 /\ <<n>>[1] = n
      BY <1>4
    <3>4. \A k \in 1..1 : SubSeq(w, 1, 1)[k] = <<n>>[k]
      BY <3>1, <3>3
    <3> QED
      BY <3>1, <3>2, <3>3, <3>4, SameSeq, Zenon
  <2>5. Names(<<n>>) = <<>> /\ Top(i) \in Seq(Name)
    BY <1>2, <1>4, <1>5, RootTrail, TopType
  <2>6. PathOf(i, <<n>>) = Top(i)
    BY <2>5 DEF PathOf
  <2> QED
    BY <1>5, <2>3, <2>4, <2>6
<1>11. \A j : j \in 1..i => j \in 1..Current \/ j = i
  BY <1>5 DEF i
<1>12. CASE Type[n] # "file" /\ EnterDir(n, to, <<>>)
  <2>1. /\ pc' = "next" /\ untimed' = untimed
        /\ stack' = Append(<<>>, dir)
        /\ \E entry \in EntryType : UNCHANGED dst \/ Put(to, entry)
        /\ to \in DOMAIN dst' /\ dst'[to].kind = "dir"
    BY <1>4, <1>12, EnterDirWrites
  <2>2. Len(stack') = 1 /\ stack'[1] = dir /\ dir.to = to /\ dir.node = n
    BY <2>1
  <2>3. FramesAreDirs' /\ CopyIsFile' /\ AtEnd'
    <3>1. ASSUME NEW k \in 1..Len(stack')
          PROVE  IsDir(stack[k].to)' /\ Type[stack'[k].node] # "file"
      <4>1. stack'[k].to = to /\ stack'[k].node = n
        BY <2>2
      <4> QED
        BY <1>12, <2>1, <4>1 DEF IsDir, Exists
    <3> QED
      BY <2>1, <3>1 DEF FramesAreDirs, CopyIsFile, AtEnd
  <2>4. ASSUME NEW j \in 1..i, NEW w \in TrailsOf(j)
        PROVE  Accounted(j, w)'
    <3>1. CASE j = i
      <4>1. PathOf(i, SubSeq(w, 1, 1)) = to /\ 1 \in 1..Len(w)
        BY <1>10, <3>1
      <4>2. Ahead(w)' \/ Open(w)'
        BY <1>1, <1>2, <1>5, <1>6, <2>2, <3>1, <4>1, DirCovers
      <4> QED
        BY <1>5, <3>1, <4>2 DEF Accounted
    <3>2. CASE j \in 1..Current
      BY <1>9, <2>1, <3>2 DEF Accounted
    <3> QED BY <1>11, <3>1, <3>2
  <2>5. AllAccounted'
    BY <1>1, <1>5, <2>4, PathStays DEF AllAccounted
  <2> QED BY <2>3, <2>5 DEF SuccessInv
<1>13. CASE OpenFile(n, to, <<>>)
  <2>1. /\ pc' = "copy" /\ untimed' = untimed /\ stack' = <<>>
        /\ cur' = [node |-> n, to |-> to]
        /\ \E entry \in EntryType : UNCHANGED dst \/ Put(to, entry)
        /\ dst'[to].kind # "dir" /\ dst'[to].from = n
    BY <1>4, <1>13, OpenFileWrites
  <2>2. Len(stack') = 0 /\ cur'.to = to /\ cur'.node = n
    BY <2>1
  <2>3. FramesAreDirs' /\ CopyIsFile' /\ AtEnd'
    <3>1. ~IsDir(cur.to)' /\ dst'[cur'.to].from = cur'.node
      BY <2>1, <2>2 DEF IsDir, Exists
    <3> QED
      BY <2>1, <2>2, <3>1 DEF FramesAreDirs, CopyIsFile, AtEnd
  <2>4. ASSUME NEW j \in 1..i, NEW w \in TrailsOf(j)
        PROVE  Accounted(j, w)'
    <3>1. CASE j = i
      <4>1. PathOf(i, SubSeq(w, 1, 1)) = to /\ 1 \in 1..Len(w)
        BY <1>10, <3>1
      <4>2. InCopy(w)'
        BY <1>1, <1>5, <2>1, <2>2, <4>1, FileCovers
      <4> QED
        BY <1>5, <3>1, <4>2 DEF Accounted
    <3>2. CASE j \in 1..Current
      BY <1>9, <2>1, <3>2 DEF Accounted
    <3> QED BY <1>11, <3>1, <3>2
  <2>5. AllAccounted'
    BY <1>1, <1>5, <2>4, PathStays DEF AllAccounted
  <2> QED BY <2>3, <2>5 DEF SuccessInv
<1> QED
  BY <1>1, <1>12, <1>13 DEF n, to

\* An entry taken from the listing is entered or being copied, and the other entries
\* are still to come; its directory, whose time is lost, is still open.
LEMMA NextEntrySucceeds ==
  ASSUME LocalInv, SuccessInv, NextEntry, pc' # "error"
  PROVE  SuccessInv'
<1> DEFINE top == Last(stack)
           n == Head(top.todo)
           to == Append(top.to, Base[n])
           rest == [top EXCEPT !.todo = Tail(top.todo)]
           below == Append(Front(stack), rest)
           i == Current
           dir == [node |-> n, to |-> to, todo |-> Entries[n]]
           Touched(w) == \E l \in 1..Len(w) : PathOf(i, SubSeq(w, 1, l)) = to
<1>1. /\ pc = "next" /\ stack # <<>> /\ top.todo # <<>> /\ args' = args
      /\ job' = job /\ dstIsDir' = dstIsDir /\ preserve' = preserve
      /\ Upload \/ Base[n] \notin Unsafe
      /\ \/ Type[n] # "dir" /\ OpenFile(n, to, below)
         \/ Type[n] = "dir" /\ EnterDir(n, to, below)
  BY DEF NextEntry, commandLine, Proceed
<1>2. job \in Job /\ stack \in Seq(Frame)
  BY DEF LocalInv, TransferTypes
<1>3. /\ top \in Frame /\ i \in DOMAIN job.srcs /\ Current' = i
      /\ Places(i, top.to, top.node)
      /\ ToSet(top.todo) \subseteq ToSet(Entries[top.node])
      /\ Len(stack) \in Nat \ {0} /\ top = stack[Len(stack)]
  BY <1>1, TopOfStack DEF FrameOK, Current
<1>4. /\ n \in ToSet(top.todo) /\ Tail(top.todo) \in Seq(Node)
      /\ ToSet(top.todo) \subseteq {n} \union ToSet(Tail(top.todo))
      /\ top.to \in Seq(Name)
  <2>1. top.todo \in Seq(Node) /\ top.to \in Seq(Name)
    BY <1>3 DEF Frame
  <2> QED
    BY <1>1, <2>1, HeadAndTail
<1>5. rest.to = top.to /\ rest.node = top.node /\ rest.todo = Tail(top.todo) /\ rest \in Frame
  BY <1>3, <1>4 DEF Frame
<1> HIDE DEF rest
<1>6. /\ below \in Seq(Frame) /\ Len(below) = Len(stack)
      /\ \A k \in 1..Len(stack) : below[k] = IF k = Len(stack) THEN rest ELSE stack[k]
  BY <1>1, <1>5, TopOfStack
<1>7. n \in Node /\ Base[n] \in Name
  BY <1>3, <1>4, EntriesType, PlacesType, <1>2 DEF Name
<1>8. Places(i, to, n)
  BY <1>1, <1>2, <1>3, <1>4, PlacesEntry
<1>9. to # <<>> /\ Front(to) = top.to
  BY <1>4, <1>7, FrontOfAppend
<1>10. \A w \in TrailsOf(i) : \A l \in 1..Len(w) - 1 :
          PathOf(i, SubSeq(w, 1, l)) = top.to /\ w[l + 1] = n =>
             l + 1 \in 1..Len(w) /\ PathOf(i, SubSeq(w, 1, l + 1)) = to
  <2> SUFFICES ASSUME NEW w \in TrailsOf(i), NEW l \in 1..Len(w) - 1,
                      PathOf(i, SubSeq(w, 1, l)) = top.to, w[l + 1] = n
               PROVE  l + 1 \in 1..Len(w) /\ PathOf(i, SubSeq(w, 1, l + 1)) = to
    OBVIOUS
  <2>1. w \in Trails /\ w \in Seq(Node) /\ Len(w) \in Nat
    BY TrailShape DEF TrailsOf
  <2>2. l \in 1..Len(w) /\ l + 1 \in 1..Len(w) /\ l \in 1..Len(w) - 1
    BY <2>1
  <2>3. w[l + 1] \in ToSet(Entries[w[l]])
    BY <2>1, <2>2, TrailShape
  <2> DEFINE u == SubSeq(w, 1, l)
             v == SubSeq(w, 1, l + 1)
  <2>4. u \in Trails /\ Last(u) = w[l] /\ Len(u) = l /\ \A k \in 1..l : u[k] = w[k]
    BY <2>1, <2>2, TrailPrefix
  <2>5. v \in Trails /\ Len(v) = l + 1 /\ \A k \in 1..l + 1 : v[k] = w[k]
    BY <2>1, <2>2, TrailPrefix
  <2> HIDE DEF u, v
  <2>6. Append(u, n) \in Trails /\ Names(Append(u, n)) = Append(Names(u), Base[n])
    BY <2>3, <2>4, LongerTrail
  <2>7. u \in Seq(Node) /\ v \in Seq(Node) /\ l \in Nat
    BY <2>4, <2>5, <2>2, TrailShape
  <2>8. v = Append(u, n)
    <3>1. /\ Append(u, n) \in Seq(Node) /\ Len(Append(u, n)) = l + 1
          /\ Append(u, n)[l + 1] = n /\ \A k \in 1..l : Append(u, n)[k] = u[k]
      BY <1>7, <2>4, <2>7
    <3>2. \A k \in 1..l + 1 : k \in 1..l \/ k = l + 1
      BY <2>7
    <3>3. \A k \in 1..l + 1 : v[k] = Append(u, n)[k]
      BY <2>4, <2>5, <3>1, <3>2
    <3> HIDE DEF n
    <3> QED
      BY <2>5, <2>7, <3>1, <3>3, SameSeq
  <2>9. Names(u) \in Seq(Name) /\ Top(i) \in Seq(Name)
    BY <1>2, <1>3, <2>4, NamesShape, TopType
  <2>10. Top(i) \o Append(Names(u), Base[n]) = Append(Top(i) \o Names(u), Base[n])
    BY <1>7, <2>9, ConcatAppend
  <2>11. PathOf(i, v) = to
    BY <2>6, <2>8, <2>10 DEF PathOf, u
  <2> QED
    BY <2>2, <2>11 DEF v
<1> HIDE DEF n, i, below
<1>11. /\ \A k \in 1..Len(stack) : below[k].to = stack[k].to /\ below[k].node = stack[k].node
       /\ \A k \in 1..Len(stack) : \A m \in ToSet(stack[k].todo) :
            m \in ToSet(below[k].todo) \/ (k = Len(stack) /\ m = n)
  BY <1>3, <1>4, <1>5, <1>6
<1>12. 1..i \subseteq DOMAIN job.srcs /\ i \in Nat /\ DOMAIN job.srcs \subseteq Nat
  BY <1>2, <1>3, SourceTypes
<1> HIDE DEF to, top
<1>13. ASSUME NEW entry \in EntryType, UNCHANGED dst \/ Put(to, entry), untimed' = untimed,
              NEW j \in 1..i, NEW w \in TrailsOf(j), Settled(j, w)
       PROVE  \/ Settled(j, w)'
              \/ j = i /\ PathOf(i, w) \in {to, top.to}
  <2>1. CASE PathOf(j, w) \in {to, top.to}
    <3>1. CASE j # i
      <4>1. Later(j, PathOf(j, w))
        <5>1. j \in DOMAIN job.srcs /\ j < i
          BY <1>12, <3>1
        <5> QED
          BY <1>2, <1>3, <1>8, <2>1, <5>1, LaterBy
      <4> QED
        BY <1>1, <4>1, PathStays DEF Settled
    <3> QED BY <2>1, <3>1
  <2>2. CASE PathOf(j, w) \notin {to, top.to}
    BY <1>1, <1>9, <1>13, <2>2, PutKeeps
  <2> QED BY <2>1, <2>2
<1>14. ASSUME NEW entry \in EntryType, UNCHANGED dst \/ Put(to, entry), untimed' = untimed,
              NEW j \in 1..i, NEW w \in TrailsOf(j),
              Len(stack') >= Len(below), \A k \in 1..Len(below) : stack'[k] = below[k],
              Len(stack') \in Nat
       PROVE  Accounted(j, w)' \/ (j = i /\ Touched(w))
  <2>0. \A k \in 1..Len(stack) : /\ k \in 1..Len(stack') /\ stack'[k].to = stack[k].to
                                 /\ stack'[k].todo = below[k].todo
    BY <1>3, <1>6, <1>11, <1>14
  <2>1. Accounted(j, w)
    BY <1>1 DEF SuccessInv, AllAccounted, InWalk, i
  <2>2. CASE Settled(j, w)
    <3>1. CASE Settled(j, w)'
      BY <3>1 DEF Accounted
    <3>2. CASE j = i /\ PathOf(i, w) = to
      <4>1. Touched(w)
        BY <3>2, TrailWhole
      <4> QED BY <3>2, <4>1
    <3>3. CASE j = i /\ PathOf(i, w) = top.to
      <4>1. Len(stack) \in 1..Len(stack) /\ stack[Len(stack)].to = top.to
        BY <1>3
      <4>2. Open(w)'
        BY <1>1, <1>3, <2>0, <3>3, <4>1, PathStays DEF Open
      <4> QED BY <1>3, <3>3, <4>2 DEF Accounted
    <3> QED BY <1>13, <1>14, <2>2, <3>1, <3>2, <3>3
  <2>3. CASE j = i /\ Ahead(w)
    <3>1. PICK k \in 1..Len(stack), l \in 1..Len(w) - 1 :
             /\ PathOf(i, SubSeq(w, 1, l)) = stack[k].to
             /\ w[l + 1] \in ToSet(stack[k].todo)
      BY <2>3 DEF Ahead, i
    <3>2. CASE w[l + 1] \in ToSet(below[k].todo)
      <4>1. Ahead(w)'
        BY <1>1, <1>3, <2>0, <3>1, <3>2, PathStays DEF Ahead
      <4> QED BY <1>3, <2>3, <4>1 DEF Accounted
    <3>3. CASE k = Len(stack) /\ w[l + 1] = n
      <4>1. Touched(w)
        BY <1>3, <1>10, <2>3, <3>1, <3>3
      <4> QED BY <2>3, <4>1
    <3> QED BY <1>11, <3>1, <3>2, <3>3
  <2>4. CASE j = i /\ Open(w)
    <3>1. PICK k \in 1..Len(stack) : PathOf(i, w) = stack[k].to
      BY <2>4 DEF Open, i
    <3>2. Open(w)'
      BY <1>1, <1>3, <2>0, <3>1, PathStays DEF Open
    <3> QED BY <1>3, <2>4, <3>2 DEF Accounted
  <2> QED
    BY <1>1, <2>1, <2>2, <2>3, <2>4 DEF Accounted, InCopy, i
<1>15. \A k \in 1..Len(stack) : IsDir(stack[k].to) /\ Type[stack[k].node] # "file"
  BY <1>1 DEF SuccessInv, FramesAreDirs, InWalk
<1> HIDE DEF Touched
<1>16. CASE Type[n] = "dir" /\ EnterDir(n, to, below)
  <2>1. /\ pc' = "next" /\ untimed' = untimed
        /\ stack' = Append(below, dir)
        /\ \E entry \in EntryType : UNCHANGED dst \/ Put(to, entry)
        /\ to \in DOMAIN dst' /\ dst'[to].kind = "dir"
        /\ \A p \in DOMAIN dst : IsDir(p) => p \in DOMAIN dst' /\ dst'[p].kind = "dir"
    BY <1>7, <1>16, EnterDirWrites
  <2>2. /\ Len(stack') = Len(below) + 1 /\ stack'[Len(below) + 1] = dir
        /\ \A k \in 1..Len(below) : stack'[k] = below[k]
        /\ dir.to = to /\ dir.node = n /\ Len(below) \in Nat
    BY <1>6, <2>1
  <2>3. FramesAreDirs' /\ CopyIsFile' /\ AtEnd'
    <3>1. ASSUME NEW k \in 1..Len(stack')
          PROVE  IsDir(stack[k].to)' /\ Type[stack'[k].node] # "file"
      <4>1. CASE k = Len(below) + 1
        <5>1. stack'[k].to = to /\ stack'[k].node = n
          BY <2>2, <4>1
        <5> QED
          BY <1>16, <2>1, <5>1 DEF IsDir, Exists
      <4>2. CASE k \in 1..Len(stack)
        <5>1. stack'[k].to = stack[k].to /\ stack'[k].node = stack[k].node
          BY <1>6, <1>11, <2>2, <4>2
        <5> QED
          BY <1>15, <2>1, <4>2, <5>1 DEF IsDir, Exists
      <4> QED BY <1>6, <2>2, <4>1, <4>2
    <3> QED
      BY <2>1, <3>1 DEF FramesAreDirs, CopyIsFile, AtEnd
  <2>4. ASSUME NEW j \in 1..i, NEW w \in TrailsOf(j)
        PROVE  Accounted(j, w)'
    <3>1. Accounted(j, w)' \/ (j = i /\ Touched(w))
      BY <1>14, <2>1, <2>2
    <3>2. ASSUME j = i, Touched(w)
          PROVE  Accounted(j, w)'
      <4>1. PICK l \in 1..Len(w) : PathOf(i, SubSeq(w, 1, l)) = to
        BY <3>2 DEF Touched
      <4>2. Len(below) + 1 \in 1..Len(stack')
        BY <2>2
      <4>3. Ahead(w)' \/ Open(w)'
        BY <1>1, <1>2, <1>3, <1>8, <2>2, <3>2, <4>1, <4>2, DirCovers
      <4> QED BY <1>3, <3>2, <4>3 DEF Accounted
    <3> QED BY <3>1, <3>2
  <2>5. AllAccounted'
    BY <1>1, <1>3, <2>4, PathStays DEF AllAccounted
  <2> QED BY <2>3, <2>5 DEF SuccessInv
<1>17. CASE OpenFile(n, to, below)
  <2>1. /\ pc' = "copy" /\ untimed' = untimed /\ stack' = below
        /\ cur' = [node |-> n, to |-> to]
        /\ \E entry \in EntryType : UNCHANGED dst \/ Put(to, entry)
        /\ dst'[to].kind # "dir" /\ dst'[to].from = n
        /\ \A p \in DOMAIN dst : IsDir(p) => p \in DOMAIN dst' /\ dst'[p].kind = "dir"
    BY <1>7, <1>17, OpenFileWrites
  <2>2. cur'.to = to /\ cur'.node = n /\ Len(below) \in Nat
    BY <1>6, <2>1
  <2>3. FramesAreDirs' /\ CopyIsFile' /\ AtEnd'
    <3>1. ~IsDir(cur.to)' /\ dst'[cur'.to].from = cur'.node
      BY <2>1, <2>2 DEF IsDir, Exists
    <3>2. ASSUME NEW k \in 1..Len(stack')
          PROVE  IsDir(stack[k].to)' /\ Type[stack'[k].node] # "file"
      <4>1. k \in 1..Len(stack) /\ stack'[k].to = stack[k].to /\ stack'[k].node = stack[k].node
        BY <1>6, <1>11, <2>1
      <4> QED
        BY <1>15, <2>1, <4>1 DEF IsDir, Exists
    <3> QED
      BY <2>1, <3>1, <3>2 DEF FramesAreDirs, CopyIsFile, AtEnd
  <2>4. ASSUME NEW j \in 1..i, NEW w \in TrailsOf(j)
        PROVE  Accounted(j, w)'
    <3>1. Accounted(j, w)' \/ (j = i /\ Touched(w))
      BY <1>14, <2>1, <2>2
    <3>2. ASSUME j = i, Touched(w)
          PROVE  Accounted(j, w)'
      <4>1. PICK l \in 1..Len(w) : PathOf(i, SubSeq(w, 1, l)) = to
        BY <3>2 DEF Touched
      <4>2. InCopy(w)'
        BY <1>1, <1>3, <2>1, <2>2, <4>1, FileCovers
      <4> QED BY <1>3, <3>2, <4>2 DEF Accounted
    <3> QED BY <3>1, <3>2
  <2>5. AllAccounted'
    BY <1>1, <1>3, <2>4, PathStays DEF AllAccounted
  <2> QED BY <2>3, <2>5 DEF SuccessInv
<1> QED
  BY <1>1, <1>16, <1>17

\* A step that completes what is at p, and touches nothing else.
LEMMA SettlesWhatItTouches ==
  ASSUME LocalInv, SuccessInv, pc \in {"next", "copy", "times"}, UNCHANGED <<job, dstIsDir, preserve, args>>,
         NEW p, NEW n, Current \in DOMAIN job.srcs, Places(Current, p, n),
         p \in DOMAIN dst', dst'[p].data # "part",
         dst'[p].kind = "dir" <=> Type[n] # "file", dst'[p].kind = "dir" \/ dst'[p].from = n,
         preserve => dst'[p].time = n \/ p \in untimed',
         \A q \in DOMAIN dst : q # p => q \in DOMAIN dst' /\ dst'[q] = dst[q],
         \A q \in untimed : q # p => q \in untimed',
         NEW j \in 1..Current, NEW w \in TrailsOf(j), Settled(j, w) \/ (j = Current /\ PathOf(j, w) = p)
  PROVE  Settled(j, w)'
<1>1. job \in Job
  BY DEF LocalInv, TransferTypes
<1>2. CASE PathOf(j, w) # p
  BY <1>2, ArrivedStays
<1>3. CASE PathOf(j, w) = p /\ j # Current
  <2>1. j \in DOMAIN job.srcs /\ j < Current
    BY <1>1, <1>3, SourceTypes
  <2>2. Later(j, p)
    BY <1>1, <2>1, LaterBy
  <2> QED
    BY <1>3, <2>2, PathStays DEF Settled
<1>4. CASE PathOf(j, w) = p /\ j = Current
  <2>1. Last(w) = n
    BY <1>1, <1>4, TrailEnd
  <2>2. Arrived(p, n)'
    BY DEF Arrived, Exists, IsDir
  <2> QED
    BY <1>4, <2>1, <2>2, PathStays DEF Settled
<1> QED BY <1>2, <1>3, <1>4

\* No way goes on below a file.
LEMMA FileEndsTrail ==
  ASSUME LocalInv, pc \in {"copy", "times"}, Type[cur.node] = "file",
         NEW w \in TrailsOf(Current), InCopy(w)
  PROVE  PathOf(Current, w) = cur.to
<1>1. job \in Job /\ Current \in DOMAIN job.srcs /\ Places(Current, cur.to, cur.node)
      /\ cur.node \in Node
  BY DEF LocalInv, TransferTypes, Copying
<1>2. PICK l \in 1..Len(w) : PathOf(Current, SubSeq(w, 1, l)) = cur.to
  BY DEF InCopy
<1>3. ToSet(Entries[cur.node]) = {}
  BY <1>1, TreeAssumption DEF ToSet
<1> DEFINE c == Current
           p == cur.to
           n == cur.node
<1>4. l = Len(w)
  <2>1. /\ c \in DOMAIN job.srcs /\ Places(c, p, n) /\ PathOf(c, SubSeq(w, 1, l)) = p
        /\ w \in TrailsOf(c) /\ ToSet(Entries[n]) = {}
    BY <1>1, <1>2, <1>3
  <2> HIDE DEF c, p, n
  <2>2. l # Len(w) => w[l + 1] \in ToSet(Entries[n])
    BY <1>1, <1>2, <2>1, TrailThere
  <2> QED
    BY <2>1, <2>2
<1> QED
  BY <1>2, <1>4, TrailWhole

\* A file is complete once its copy is, or with -p once its times are set.
LEMMA CopySucceeds ==
  ASSUME LocalInv, SuccessInv, Copy, pc' # "error"
  PROVE  SuccessInv'
<1>1. /\ pc = "copy" /\ job' = job /\ dstIsDir' = dstIsDir /\ preserve' = preserve
      /\ args' = args /\ stack' = stack /\ cur' = cur /\ untimed' = untimed
      /\ Type[cur.node] = "file"
      /\ dst' = [dst EXCEPT ![cur.to].data = "whole"]
      /\ pc' = IF preserve THEN "times" ELSE "close"
  BY DEF Copy, Proceed, commandLine
<1>2. /\ job \in Job /\ cur.to \in DOMAIN dst /\ dst \in [DOMAIN dst -> EntryType]
      /\ Current \in DOMAIN job.srcs /\ Places(Current, cur.to, cur.node) /\ Current' = Current
  BY <1>1 DEF LocalInv, TransferTypes, Copying, Current
<1>3. /\ DOMAIN dst' = DOMAIN dst
      /\ \A q \in DOMAIN dst :
           /\ q # cur.to => dst'[q] = dst[q]
           /\ dst'[q].kind = dst[q].kind /\ dst'[q].from = dst[q].from /\ dst'[q].time = dst[q].time
           /\ dst[q].data # "part" => dst'[q].data # "part"
      /\ dst'[cur.to].data # "part"
  BY <1>1, <1>2 DEF EntryType
<1>4. /\ \A k \in 1..Len(stack) : IsDir(stack[k].to) /\ Type[stack[k].node] # "file"
      /\ ~IsDir(cur.to) /\ dst[cur.to].from = cur.node
  BY <1>1 DEF SuccessInv, FramesAreDirs, CopyIsFile, InWalk
<1>5. FramesAreDirs' /\ CopyIsFile' /\ AtEnd'
  BY <1>1, <1>2, <1>3, <1>4 DEF FramesAreDirs, CopyIsFile, AtEnd, IsDir, Exists
<1>6. ASSUME NEW j \in 1..Current, NEW w \in TrailsOf(j)
      PROVE  Accounted(j, w)'
  <2>1. Accounted(j, w)
    BY <1>1 DEF SuccessInv, AllAccounted, InWalk
  <2>2. CASE Settled(j, w)
    <3>1. Arrived(PathOf(j, w), Last(w)) => Arrived(PathOf(j, w), Last(w))'
      BY <1>1, <1>3, PathStays DEF Arrived, Exists, IsDir
    <3> QED
      BY <1>1, <2>2, <3>1, PathStays DEF Settled, Accounted
  <2>3. CASE j = Current /\ (Ahead(w) \/ Open(w))
    BY <1>1, <1>2, <2>3, PathStays DEF Accounted, Ahead, Open
  <2>4. CASE j = Current /\ InCopy(w) /\ preserve
    <3>1. pc' = "times"
      BY <1>1, <2>4
    <3>2. InCopy(w)'
      BY <1>1, <1>2, <2>4, <3>1, PathStays DEF InCopy
    <3> QED BY <1>2, <2>4, <3>2 DEF Accounted
  <2>5. CASE j = Current /\ InCopy(w) /\ ~preserve
    <3>1. PathOf(j, w) = cur.to
      BY <1>1, <2>5, FileEndsTrail
    <3>2. Arrived(cur.to, cur.node)'
      BY <1>1, <1>2, <1>3, <1>4, <2>5 DEF Arrived, Exists, IsDir
    <3>3. Last(w) = cur.node
      <4> DEFINE p == cur.to
                 n == cur.node
                 c == Current
      <4>1. Places(c, p, n) /\ PathOf(c, w) = p /\ w \in TrailsOf(c) /\ c \in DOMAIN job.srcs
        BY <1>2, <2>5, <3>1
      <4> HIDE DEF p, n, c
      <4>2. Last(w) = n
        BY <1>2, <4>1, TrailEnd
      <4> QED BY <4>2 DEF n
    <3> QED
      BY <1>1, <3>1, <3>2, <3>3, PathStays DEF Settled, Accounted
  <2> QED BY <2>1, <2>2, <2>3, <2>4, <2>5 DEF Accounted
<1>7. AllAccounted'
  BY <1>1, <1>2, <1>6, PathStays DEF AllAccounted
<1> QED BY <1>5, <1>7 DEF SuccessInv

LEMMA FileTimesSucceeds ==
  ASSUME LocalInv, SuccessInv, FileTimes
  PROVE  SuccessInv'
<1>1. /\ pc = "times" /\ job' = job /\ dstIsDir' = dstIsDir /\ preserve' = preserve
      /\ args' = args /\ stack' = stack /\ pc' = "close" /\ Chtimes(cur.to, cur.node)
  BY DEF FileTimes, Proceed, commandLine
<1> DEFINE p == cur.to
           n == cur.node
<1>2. /\ job \in Job /\ p \in DOMAIN dst /\ dst \in [DOMAIN dst -> EntryType] /\ n \in Node
      /\ Current \in DOMAIN job.srcs /\ Places(Current, p, n) /\ Current' = Current
      /\ dst[p].data # "part"
  BY <1>1 DEF LocalInv, TransferTypes, Copying, Current, FailureIsLocal
<1>3. /\ \A k \in 1..Len(stack) : IsDir(stack[k].to) /\ Type[stack[k].node] # "file"
      /\ ~IsDir(p) /\ dst[p].from = n /\ Type[n] = "file"
  BY <1>1 DEF SuccessInv, FramesAreDirs, CopyIsFile, InWalk
<1>4. /\ \A w \in TrailsOf(Current) : InCopy(w) => PathOf(Current, w) = p
  BY <1>1, <1>3, FileEndsTrail
<1>5. Chtimes(p, n)
  BY <1>1
<1> HIDE DEF p, n
<1>6. /\ DOMAIN dst' = DOMAIN dst
      /\ \A q \in DOMAIN dst : /\ dst'[q].kind = dst[q].kind /\ dst'[q].from = dst[q].from
                               /\ dst'[q].data = dst[q].data
                               /\ q # p => dst'[q] = dst[q]
      /\ dst'[p].time = n \/ p \in untimed'
      /\ \A q \in untimed : q # p => q \in untimed'
  <2>1. \A q \in untimed : q # p => q \in untimed'
    BY <1>5 DEF Chtimes
  <2> QED
    BY <1>2, <1>5, <2>1, ChtimesEffect
<1>7. FramesAreDirs' /\ CopyIsFile' /\ AtEnd'
  BY <1>1, <1>3, <1>6 DEF FramesAreDirs, CopyIsFile, AtEnd, IsDir, Exists
<1>8. /\ p \in DOMAIN dst' /\ dst'[p].data # "part" /\ dst'[p].kind # "dir" /\ dst'[p].from = n
      /\ Type[n] = "file"
  BY <1>2, <1>3, <1>6 DEF IsDir, Exists
<1>9. ASSUME NEW j \in 1..Current, NEW w \in TrailsOf(j)
      PROVE  Accounted(j, w)'
  <2>1. Accounted(j, w)
    BY <1>1 DEF SuccessInv, AllAccounted, InWalk
  <2>2. CASE Settled(j, w) \/ (j = Current /\ InCopy(w))
    <3>1. Settled(j, w) \/ (j = Current /\ PathOf(j, w) = p)
      BY <1>4, <2>2
    <3>2. Settled(j, w)'
      BY <1>1, <1>2, <1>6, <1>8, <3>1, SettlesWhatItTouches
    <3> QED BY <3>2 DEF Accounted
  <2>3. CASE j = Current /\ (Ahead(w) \/ Open(w))
    BY <1>1, <1>2, <2>3, PathStays DEF Accounted, Ahead, Open
  <2> QED BY <2>1, <2>2, <2>3 DEF Accounted
<1>10. AllAccounted'
  BY <1>1, <1>2, <1>9, PathStays DEF AllAccounted
<1> QED BY <1>7, <1>10 DEF SuccessInv

\* A file that is closed, with or without an error, has been copied before.
LEMMA CloseSucceeds ==
  ASSUME LocalInv, SuccessInv, CloseFile
  PROVE  SuccessInv'
<1>1. /\ pc = "close" /\ pc' = "next" /\ job' = job /\ dstIsDir' = dstIsDir
      /\ preserve' = preserve /\ args' = args /\ stack' = stack /\ untimed' = untimed
  BY DEF CloseFile, Proceed, commandLine
<1>2. Current' = Current
  BY <1>1 DEF Current
<1>3. /\ DOMAIN dst' = DOMAIN dst
      /\ \A q \in DOMAIN dst : /\ dst'[q].from = dst[q].from /\ dst'[q].kind = dst[q].kind
                               /\ dst'[q].time = dst[q].time
                               /\ dst[q].data # "part" => dst'[q].data # "part"
  BY CloseEffect
<1>4. \A k \in 1..Len(stack) : IsDir(stack[k].to) /\ Type[stack[k].node] # "file"
  BY <1>1 DEF SuccessInv, FramesAreDirs, InWalk
<1>5. FramesAreDirs' /\ CopyIsFile' /\ AtEnd'
  BY <1>1, <1>3, <1>4 DEF FramesAreDirs, CopyIsFile, AtEnd, IsDir, Exists
<1>6. ASSUME NEW j \in 1..Current, NEW w \in TrailsOf(j)
      PROVE  Accounted(j, w)'
  <2>1. Accounted(j, w)
    BY <1>1 DEF SuccessInv, AllAccounted, InWalk
  <2>2. CASE Settled(j, w)
    <3>1. Arrived(PathOf(j, w), Last(w)) => Arrived(PathOf(j, w), Last(w))'
      BY <1>1, <1>3, PathStays DEF Arrived, Exists, IsDir
    <3> QED
      BY <1>1, <2>2, <3>1, PathStays DEF Settled, Accounted
  <2>3. CASE j = Current /\ (Ahead(w) \/ Open(w))
    BY <1>1, <1>2, <2>3, PathStays DEF Accounted, Ahead, Open
  <2> QED BY <1>1, <2>1, <2>2, <2>3 DEF Accounted, InCopy
<1>7. AllAccounted'
  BY <1>1, <1>2, <1>6, PathStays DEF AllAccounted
<1> QED BY <1>5, <1>7 DEF SuccessInv

\* A directory is complete when it is left: its times come last.
LEMMA LeaveDirSucceeds ==
  ASSUME LocalInv, SuccessInv, LeaveDir
  PROVE  SuccessInv'
<1> DEFINE top == Last(stack)
           p == top.to
           n == top.node
<1>1. /\ pc = "next" /\ stack # <<>> /\ top.todo = <<>>
      /\ job' = job /\ dstIsDir' = dstIsDir /\ preserve' = preserve
      /\ args' = args /\ stack' = Front(stack) /\ pc' = "next"
      /\ IF preserve THEN Chtimes(p, n) ELSE UNCHANGED <<dst, untimed>>
  BY DEF LeaveDir, commandLine
<1>2. /\ job \in Job /\ dst \in [DOMAIN dst -> EntryType] /\ stack \in Seq(Frame)
      /\ Current' = Current
  BY <1>1 DEF LocalInv, TransferTypes, Current
<1>3. /\ Len(stack) \in Nat \ {0} /\ top = stack[Len(stack)] /\ top \in Frame
      /\ Len(stack') = Len(stack) - 1 /\ \A k \in 1..Len(stack) - 1 : stack'[k] = stack[k]
      /\ Current \in DOMAIN job.srcs /\ Places(Current, p, n)
  BY <1>1, TopOfStack DEF FrameOK
<1>4. \A k \in 1..Len(stack) : IsDir(stack[k].to) /\ Type[stack[k].node] # "file"
  BY <1>1 DEF SuccessInv, FramesAreDirs, InWalk
<1>5. /\ IsDir(p) /\ Type[n] # "file" /\ n \in Node /\ stack[Len(stack)].to = p
      /\ ToSet(stack[Len(stack)].todo) = {}
  <2>1. Len(stack) \in 1..Len(stack) /\ ToSet(<<>>) = {}
    BY <1>3 DEF ToSet
  <2>2. n \in Node
    BY <1>3 DEF Frame
  <2> QED
    BY <1>1, <1>3, <1>4, <2>1, <2>2
<1> HIDE DEF p, n, top
<1>6. p \in DOMAIN dst /\ dst[p].kind = "dir" /\ dst[p].data # "part"
  BY <1>1, <1>5 DEF IsDir, Exists, LocalInv, FailureIsLocal
<1>7. /\ DOMAIN dst' = DOMAIN dst
      /\ \A q \in DOMAIN dst : /\ dst'[q].kind = dst[q].kind /\ dst'[q].data = dst[q].data
                               /\ q # p => dst'[q] = dst[q]
      /\ preserve => dst'[p].time = n \/ p \in untimed'
      /\ \A q \in untimed : q # p => q \in untimed'
  <2>1. CASE Chtimes(p, n)
    <3>1. \A q \in untimed : q # p => q \in untimed'
      BY <2>1 DEF Chtimes
    <3> QED
      BY <1>2, <1>5, <1>6, <2>1, <3>1, ChtimesEffect
  <2>2. CASE ~preserve /\ UNCHANGED <<dst, untimed>>
    BY <2>2
  <2> QED BY <1>1, <2>1, <2>2
<1>8. p \in DOMAIN dst' /\ dst'[p].data # "part" /\ dst'[p].kind = "dir"
  BY <1>6, <1>7
<1>9. FramesAreDirs' /\ CopyIsFile' /\ AtEnd'
  <2>1. ASSUME NEW k \in 1..Len(stack')
        PROVE  IsDir(stack[k].to)' /\ Type[stack'[k].node] # "file"
    <3>1. k \in 1..Len(stack) /\ stack'[k] = stack[k]
      BY <1>3
    <3> QED
      BY <1>4, <1>7, <3>1 DEF IsDir, Exists
  <2> QED
    BY <1>1, <2>1 DEF FramesAreDirs, CopyIsFile, AtEnd
<1>10. ASSUME NEW j \in 1..Current, NEW w \in TrailsOf(j)
       PROVE  Accounted(j, w)'
  <2>1. Accounted(j, w)
    BY <1>1 DEF SuccessInv, AllAccounted, InWalk
  <2>2. CASE Settled(j, w) \/ (j = Current /\ PathOf(j, w) = p)
    <3>1. Settled(j, w)'
      BY <1>1, <1>2, <1>3, <1>5, <1>7, <1>8, <2>2, SettlesWhatItTouches
    <3> QED BY <3>1 DEF Accounted
  <2>3. CASE j = Current /\ Ahead(w)
    <3>1. PICK k \in 1..Len(stack) : \E l \in 1..Len(w) - 1 :
             /\ PathOf(Current, SubSeq(w, 1, l)) = stack[k].to
             /\ w[l + 1] \in ToSet(stack[k].todo)
      BY <2>3 DEF Ahead
    <3>2. k # Len(stack)
      BY <1>5, <3>1
    <3>3. k \in 1..Len(stack') /\ stack'[k] = stack[k]
      BY <1>3, <3>2
    <3>4. Ahead(w)'
      BY <1>1, <1>2, <3>1, <3>3, PathStays DEF Ahead
    <3> QED BY <1>2, <2>3, <3>4 DEF Accounted
  <2>4. CASE j = Current /\ Open(w) /\ PathOf(j, w) # p
    <3>1. PICK k \in 1..Len(stack) : PathOf(Current, w) = stack[k].to
      BY <2>4 DEF Open
    <3>2. k \in 1..Len(stack') /\ stack'[k] = stack[k]
      BY <1>3, <1>5, <2>4, <3>1
    <3>3. Open(w)'
      BY <1>1, <1>2, <3>1, <3>2, PathStays DEF Open
    <3> QED BY <1>2, <2>4, <3>3 DEF Accounted
  <2> QED BY <1>1, <2>1, <2>2, <2>3, <2>4 DEF Accounted, InCopy
<1>11. AllAccounted'
  BY <1>1, <1>2, <1>10, PathStays DEF AllAccounted
<1> QED BY <1>9, <1>11 DEF SuccessInv

LEMMA BeginningSucceeds ==
  ASSUME LocalInv, SuccessInv, ParseArgs \/ Connect \/ StatDestination
  PROVE  SuccessInv'
<1>1. /\ pc' \in {"connect", "start", "next", "error"} /\ job' = job /\ stack' = stack
      /\ pc' = "next" => args' = [i \in DOMAIN job.srcs |-> job.srcs[i].node]
  BY DEF ParseArgs, Connect, StatDestination, Proceed, commandLine
<1>2. stack = <<>> /\ job \in Job
  BY DEF ParseArgs, Connect, StatDestination, LocalInv, Untouched, TransferTypes
<1>3. pc' = "next" => Current' = 0
  <2> SUFFICES ASSUME pc' = "next" PROVE Current' = 0
    OBVIOUS
  <2>1. Len(job.srcs) \in Nat /\ DOMAIN job.srcs = 1..Len(job.srcs)
    BY <1>2, SourceTypes
  <2>2. Len(args') = Len(job.srcs)
    BY <1>1, <2>1
  <2> QED BY <1>1, <2>1, <2>2 DEF Current
<1>4. Len(stack') = 0
  BY <1>1, <1>2
<1>5. FramesAreDirs' /\ CopyIsFile' /\ AtEnd'
  BY <1>1, <1>4 DEF FramesAreDirs, CopyIsFile, AtEnd
<1>6. AllAccounted'
  BY <1>1, <1>3 DEF AllAccounted, InWalk
<1> QED BY <1>5, <1>6 DEF SuccessInv

LEMMA SameSucceeds ==
  ASSUME SuccessInv, UNCHANGED <<job, dstIsDir, preserve, args, stack, cur, dst, untimed>>,
         \/ pc' = pc
         \/ pc = "next" /\ pc' = "ok" /\ stack = <<>> /\ args = <<>>
  PROVE  SuccessInv'
<1>1. Current' = Current
  BY DEF Current
<1>2. InWalk' = InWalk
  BY DEF InWalk
<1>3. FramesAreDirs' /\ CopyIsFile' /\ AtEnd'
  BY <1>2 DEF SuccessInv, FramesAreDirs, CopyIsFile, AtEnd, IsDir, Exists
<1>4. ASSUME NEW j, NEW w, Accounted(j, w)
      PROVE  Accounted(j, w)'
  <2>1. Settled(j, w) => Settled(j, w)'
    BY PathStays DEF Settled, Arrived, IsDir, Exists
  <2>2. (Ahead(w) => Ahead(w)') /\ (Open(w) => Open(w)') /\ (InCopy(w) => InCopy(w)')
    BY <1>1, PathStays DEF Ahead, Open, InCopy
  <2> QED BY <1>1, <1>4, <2>1, <2>2 DEF Accounted
<1>5. AllAccounted'
  BY <1>1, <1>2, <1>4, PathStays DEF SuccessInv, AllAccounted
<1> QED BY <1>3, <1>5 DEF SuccessInv

LEMMA SuccessNextInv == LocalInv /\ SuccessInv /\ [TransferNext]_transferVars => SuccessInv'
<1> SUFFICES ASSUME LocalInv, SuccessInv, [TransferNext]_transferVars
             PROVE  SuccessInv'
  OBVIOUS
<1>1. CASE pc' = "error"
  BY <1>1 DEF SuccessInv, FramesAreDirs, CopyIsFile, AllAccounted, AtEnd, InWalk
<1>2. CASE AllDone
  BY <1>2, SameSucceeds DEF AllDone, Proceed, commandLine
<1>3. CASE UNCHANGED transferVars
  BY <1>3, SameSucceeds DEF transferVars
<1> QED
  BY <1>1, <1>2, <1>3, BeginningSucceeds, NextArgSucceeds, NextEntrySucceeds, CopySucceeds,
     FileTimesSucceeds, CloseSucceeds, LeaveDirSucceeds DEF TransferNext

\* A copy that reports success has written all of the last source that goes to a
\* path, which is whole but where its Close failed, with its times under -p but where
\* Chtimes failed: for any trees, destinations and failures of the walks in
\* client/sftp.go.
THEOREM SuccessIsCompleteCorrect == TransferSpec => []SuccessIsComplete
<1>1. TransferInit => LocalInv /\ SuccessInv
  BY LocalInitInv DEF TransferInit, SuccessInv, FramesAreDirs, CopyIsFile, AllAccounted, AtEnd, InWalk
<1>2. LocalInv /\ SuccessInv /\ [TransferNext]_transferVars => (LocalInv /\ SuccessInv)'
  BY LocalNextInv, SuccessNextInv
<1>3. LocalInv /\ SuccessInv => SuccessIsComplete
  <2> SUFFICES ASSUME LocalInv, SuccessInv, pc = "ok",
                      NEW i \in DOMAIN job.srcs, NEW w \in TrailsOf(i)
               PROVE  Later(i, PathOf(i, w)) \/ Arrived(PathOf(i, w), Last(w))
    BY DEF SuccessIsComplete
  <2>1. job \in Job /\ stack = <<>> /\ args = <<>>
    BY DEF LocalInv, TransferTypes, SuccessInv, AtEnd
  <2>2. Len(job.srcs) \in Nat /\ DOMAIN job.srcs = 1..Len(job.srcs) /\ Len(args) = 0 /\ Len(stack) = 0
    BY <2>1, SourceTypes
  <2>3. i \in 1..Current
    BY <2>2 DEF Current
  <2>4. Accounted(i, w)
    BY <2>3 DEF SuccessInv, AllAccounted, InWalk
  <2> QED
    BY <2>2, <2>4 DEF Accounted, Ahead, Open, InCopy, Settled
<1> QED
  BY <1>1, <1>2, <1>3, PTL DEF TransferSpec
=============================================================================
