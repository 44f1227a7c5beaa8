-------------------------- MODULE TrustedCAsProofs --------------------------
(***************************************************************************)
(* Proofs about TrustedCAs, for any controllers, keys and shared CAs, any  *)
(* bound on failures, changes and enrollments, and both kinds of sshd.     *)
(***************************************************************************)
EXTENDS TrustedCAs, TLAPS

\* Nothing that points sshd at a file, or replaces one, does so without a key.
SomeKey ==
  /\ conf => file # {}
  /\ sshd # {} => conf
  /\ \A j \in Jobs : At(j, "write") => job[j].keys # {}
  /\ At("enroll", "conf") => file # {}

\* Neither caller is at work before it can be: an Authenticate that fails cuts
\* none of them off between a rename and its reload.
QuietBeforeLogin ==
  /\ cached = {} => At("event", "idle")
  /\ daemon # "run" => At("poll", "idle")

IInv == TypeOK /\ SomeKey /\ QuietBeforeLogin /\ SshdCurrent

JobState == [pc: {"idle", "dial", "write", "conf", "reload"}, todo: SUBSET Ctrl, keys: SUBSET Key]
-----------------------------------------------------------------------------
(* The types.                                                              *)

LEMMA NoJobType == NoJob \in JobState
  BY DEF NoJob, JobState

\* A failure that is counted, or none, keeps the count in its bounds.
LEMMA FaultsBounded ==
  ASSUME faults \in 0..MaxFaults, NoFault \/ \E kind \in MayFail : Fault(kind)
  PROVE  faults' \in 0..MaxFaults
  BY CAAssumption DEF NoFault, Fault

\* The key of a controller is a key (KeyOf).
LEMMA DialType ==
  ASSUME TypeOK, NEW j \in Jobs, Dial(j)
  PROVE  job' \in [Jobs -> JobState]
<1> DEFINE c == CHOOSE c \in job[j].todo : TRUE
<1>1. c \in Ctrl
  BY DEF TypeOK, Dial
<1>2. KeyOf[c] \in Key
  BY <1>1, CAAssumption
<1> HIDE DEF c
<1>3. \/ job' = [job EXCEPT ![j] = [job[j] EXCEPT !.todo = @ \ {c}, !.keys = @ \union {KeyOf[c]}]]
      \/ job' = [job EXCEPT ![j] = [job[j] EXCEPT !.todo = @ \ {c}]]
  BY DEF Dial, c, TypeOK
<1>4. /\ [job[j] EXCEPT !.todo = @ \ {c}, !.keys = @ \union {KeyOf[c]}] \in JobState
      /\ [job[j] EXCEPT !.todo = @ \ {c}] \in JobState
  BY <1>2 DEF TypeOK, JobState
<1> QED
  BY <1>3, <1>4 DEF TypeOK, JobState

\* Every action keeps the types (TypeOK of TrustedCAs).
LEMMA TypeStep == TypeOK /\ [Next]_vars => TypeOK'
<1> SUFFICES ASSUME TypeOK, [Next]_vars PROVE TypeOK'
  OBVIOUS
<1> USE CAAssumption DEF TypeOK, JobState
<1>1. CASE UNCHANGED vars
  BY <1>1 DEF vars, hostVars, daemonVars
<1>2. CASE ClusterChanges
  BY <1>2 DEF ClusterChanges, Join, Leave, hostVars, daemonVars
<1>3. CASE ControllerUrlsUpdated
  BY <1>3, FaultsBounded DEF ControllerUrlsUpdated, Refresh, Jobs, Callers, NoFault, Fault
<1>4. CASE Tick
  BY <1>4, FaultsBounded, NoJobType DEF Tick, Refresh, Finish, Jobs, Callers, NoFault, Fault, hostVars, daemonVars
<1>5. CASE Enroll
  BY <1>5, FaultsBounded DEF Enroll, ControllersFromToken, Refresh, NoFault, Fault, daemonVars
<1>6. CASE Collected
  <2>1. job' \in [Jobs -> JobState]
    BY <1>6, NoJobType DEF Collected, Goto, Finish, Jobs
  <2> QED
    BY <1>6, <2>1 DEF Collected, NoFault, hostVars, daemonVars
<1>7. CASE WriteConf
  BY <1>7 DEF WriteConf, Goto, NoFault, Trusted, daemonVars
<1>8. CASE EnrollFails
  BY <1>8, FaultsBounded, NoJobType DEF EnrollFails, Finish, Fault, hostVars, daemonVars
<1>9. ASSUME NEW j \in Jobs, Dial(j)
      PROVE  TypeOK'
  BY <1>9, FaultsBounded, DialType DEF Dial, NoFault, Fault, hostVars, daemonVars
<1>10. ASSUME NEW j \in Jobs, Compare(j)
       PROVE  TypeOK'
  BY <1>10, FaultsBounded, NoJobType DEF Compare, Goto, Finish, NoFault, Fault, hostVars, daemonVars
<1>11. ASSUME NEW j \in Jobs, Write(j)
       PROVE  TypeOK'
  BY <1>11, FaultsBounded, NoJobType DEF Write, Finish, NoJob, NoFault, Fault, Trusted, daemonVars
<1>12. ASSUME NEW j \in Jobs, Reload(j)
       PROVE  TypeOK'
  BY <1>12, FaultsBounded, NoJobType DEF Reload, Finish, NoFault, Fault, Trusted, daemonVars
<1>13. CASE Start
  BY <1>13 DEF Start, hostVars
<1>14. CASE Authenticate
  BY <1>14 DEF Authenticate, hostVars
<1>15. ASSUME Ends, NoFault \/ \E kind \in MayFail : Fault(kind)
       PROVE  TypeOK'
  BY <1>15, FaultsBounded, NoJobType DEF Ends, hostVars
<1>16. CASE AuthenticateFails
  BY <1>15, <1>16 DEF AuthenticateFails
<1>17. CASE Crash
  BY <1>15, <1>17 DEF Crash, Fault
<1> QED
  BY <1>1, <1>2, <1>3, <1>4, <1>5, <1>6, <1>7, <1>8, <1>9, <1>10, <1>11, <1>12, <1>13,
     <1>14, <1>16, <1>17
     DEF Next, DaemonStep, ListenerStep, PollStep, EnrollStep, RefreshStep, Jobs, Callers
-----------------------------------------------------------------------------
(* sshd is never locked out, nor left behind.                              *)

\* Every action leaves sshd a key if it had one, and the file one if it is named.
LEMMA SomeKeyStep ==
  ASSUME TypeOK, SomeKey, [Next]_vars
  PROVE  SomeKey' /\ (sshd # {} => sshd' # {})
<1> USE DEF TypeOK, SomeKey, At, Jobs, Callers, JobState
<1>1. CASE UNCHANGED vars
  BY <1>1 DEF vars, hostVars, daemonVars
<1>2. CASE ClusterChanges
  BY <1>2 DEF ClusterChanges, hostVars, daemonVars
<1>3. CASE ControllerUrlsUpdated
  BY <1>3 DEF ControllerUrlsUpdated, Refresh
<1>4. CASE Tick
  BY <1>4 DEF Tick, Refresh, Finish, NoJob, hostVars, daemonVars
<1>5. CASE Enroll
  BY <1>5 DEF Enroll, Refresh
<1>6. CASE Collected
  BY <1>6 DEF Collected, Goto, Finish, NoJob, hostVars, daemonVars
<1>7. CASE WriteConf
  BY <1>7 DEF WriteConf, Goto, Trusted
<1>8. CASE EnrollFails
  BY <1>8 DEF EnrollFails, Finish, NoJob, hostVars, daemonVars
<1>9. ASSUME NEW j \in Jobs, Dial(j)
      PROVE  SomeKey' /\ (sshd # {} => sshd' # {})
  <2>1. \A k \in Jobs : job'[k].pc = job[k].pc /\ (k # j => job'[k] = job[k])
    BY <1>9 DEF Dial
  <2> QED
    BY <1>9, <2>1 DEF Dial, hostVars, daemonVars
<1>10. ASSUME NEW j \in Jobs, Compare(j)
       PROVE  SomeKey' /\ (sshd # {} => sshd' # {})
  BY <1>10 DEF Compare, Goto, Finish, NoJob, hostVars, daemonVars
<1>11. ASSUME NEW j \in Jobs, Write(j)
       PROVE  SomeKey' /\ (sshd # {} => sshd' # {})
  BY <1>11 DEF Write, Finish, NoJob, Trusted
<1>12. ASSUME NEW j \in Jobs, Reload(j)
       PROVE  SomeKey' /\ (sshd # {} => sshd' # {})
  BY <1>12 DEF Reload, Finish, NoJob, Trusted
<1>13. CASE Start
  BY <1>13 DEF Start, hostVars
<1>14. CASE Authenticate
  BY <1>14 DEF Authenticate, hostVars
<1>15. CASE Ends
  BY <1>15 DEF Ends, NoJob, hostVars
<1>16. CASE AuthenticateFails \/ Crash
  BY <1>15, <1>16 DEF AuthenticateFails, Crash
<1> QED
  BY <1>1, <1>2, <1>3, <1>4, <1>5, <1>6, <1>7, <1>8, <1>9, <1>10, <1>11, <1>12, <1>13,
     <1>14, <1>16
     DEF Next, DaemonStep, ListenerStep, PollStep, EnrollStep, RefreshStep, Jobs, Callers

\* The poll begins after the login, the listener with a list of controllers.
LEMMA QuietStep ==
  ASSUME TypeOK, QuietBeforeLogin, [Next]_vars
  PROVE  QuietBeforeLogin'
<1> USE DEF TypeOK, QuietBeforeLogin, At, Jobs, Callers, JobState
<1>1. CASE UNCHANGED vars
  BY <1>1 DEF vars, daemonVars
<1>2. CASE ClusterChanges
  BY <1>2 DEF ClusterChanges, daemonVars
<1>3. CASE ControllerUrlsUpdated
  BY <1>3 DEF ControllerUrlsUpdated, Refresh, Reachable
<1>4. CASE Tick
  BY <1>4 DEF Tick, Refresh, Finish, NoJob, daemonVars
<1>5. CASE Enroll \/ Collected \/ WriteConf \/ EnrollFails
  BY <1>5 DEF Enroll, Collected, WriteConf, EnrollFails, Refresh, Goto, Finish, daemonVars
<1>6. ASSUME NEW j \in Jobs, Dial(j) \/ Compare(j) \/ Write(j) \/ Reload(j)
      PROVE  QuietBeforeLogin'
  <2>1. ~At(j, "idle")
    BY <1>6 DEF Dial, Compare, Write, Reload
  <2>2. \A k \in Jobs : k # j => job'[k] = job[k]
    BY <1>6 DEF Dial, Compare, Write, Reload, Goto, Finish
  <2>3. UNCHANGED <<daemon, cached>>
    BY <1>6 DEF Dial, Compare, Write, Reload, daemonVars
  <2> QED
    BY <2>1, <2>2, <2>3
<1>7. CASE Start \/ Authenticate
  BY <1>7 DEF Start, Authenticate
<1>8. CASE Ends
  BY <1>8 DEF Ends, NoJob
<1> QED
  BY <1>1, <1>2, <1>3, <1>4, <1>5, <1>6, <1>7, <1>8
     DEF Next, DaemonStep, ListenerStep, PollStep, EnrollStep, RefreshStep, AuthenticateFails, Crash

\* A failure is one for good: the count never goes back to none.
LEMMA FaultStays ==
  ASSUME TypeOK, NEW kind, Fault(kind)
  PROVE  faults' # 0
  BY CAAssumption DEF TypeOK, Fault

\* The keys sshd has are the ones of the file, or a reload is due, whichever of
\* the three jobs takes a step.
LEMMA SshdCurrentStep ==
  ASSUME TypeOK, QuietBeforeLogin, SshdCurrent, [Next]_vars
  PROVE  SshdCurrent'
<1> USE DEF TypeOK, SshdCurrent, At, Jobs, Callers, JobState
<1>1. CASE UNCHANGED vars
  BY <1>1 DEF vars, hostVars, daemonVars
<1>2. CASE ClusterChanges
  BY <1>2 DEF ClusterChanges, hostVars, daemonVars
<1>3. CASE ControllerUrlsUpdated
  BY <1>3, FaultStays DEF ControllerUrlsUpdated, Refresh, NoFault
<1>4. CASE Tick
  BY <1>4, FaultStays DEF Tick, Refresh, Finish, NoJob, NoFault, hostVars, daemonVars
<1>5. CASE Enroll
  BY <1>5, FaultStays DEF Enroll, Refresh, NoFault
<1>6. CASE Collected
  BY <1>6 DEF Collected, Goto, Finish, NoJob, NoFault, hostVars, daemonVars
<1>7. CASE WriteConf
  BY <1>7 DEF WriteConf, Goto
<1>8. CASE EnrollFails
  BY <1>8, FaultStays DEF EnrollFails
<1>9. ASSUME NEW j \in Jobs, Dial(j)
      PROVE  SshdCurrent'
  <2>1. \A k \in Jobs : job'[k].pc = job[k].pc
    BY <1>9 DEF Dial
  <2> QED
    BY <1>9, <2>1, FaultStays DEF Dial, NoFault, hostVars, daemonVars
<1>10. ASSUME NEW j \in Jobs, Compare(j)
       PROVE  SshdCurrent'
  BY <1>10, FaultStays DEF Compare, Goto, Finish, NoJob, NoFault, hostVars, daemonVars
<1>11. ASSUME NEW j \in Jobs, Write(j)
       PROVE  SshdCurrent'
  BY <1>11, FaultStays DEF Write, NoJob, NoFault
<1>12. ASSUME NEW j \in Jobs, Reload(j)
       PROVE  SshdCurrent'
  BY <1>12, FaultStays DEF Reload
<1>13. CASE Start
  BY <1>13 DEF Start, hostVars
<1>14. CASE Authenticate
  BY <1>14 DEF Authenticate, hostVars
<1>15. CASE AuthenticateFails
  BY <1>15 DEF QuietBeforeLogin, AuthenticateFails, Ends, NoFault, NoJob, hostVars
<1>16. CASE Crash
  BY <1>16, FaultStays DEF Crash
<1> QED
  BY <1>1, <1>2, <1>3, <1>4, <1>5, <1>6, <1>7, <1>8, <1>9, <1>10, <1>11, <1>12, <1>13,
     <1>14, <1>15, <1>16
     DEF Next, DaemonStep, ListenerStep, PollStep, EnrollStep, RefreshStep, Jobs, Callers
-----------------------------------------------------------------------------
(* The theorems.                                                           *)

\* A host with nothing but the program (Init).
LEMMA InitInv == Init => IInv
<1> SUFFICES ASSUME Init PROVE IInv
  OBVIOUS
<1>1. job \in [Jobs -> JobState]
  BY NoJobType DEF Init
<1>2. TypeOK
  <2>1. socket \in BOOLEAN /\ members \in SUBSET Ctrl
    BY CAAssumption DEF Init
  <2>2. tokens \in 0..MaxTokens /\ faults \in 0..MaxFaults /\ changes \in 0..MaxChanges
    BY CAAssumption DEF Init
  <2> QED
    BY <1>1, <2>1, <2>2 DEF Init, TypeOK, JobState
<1>3. SomeKey /\ QuietBeforeLogin /\ SshdCurrent
  BY DEF Init, SomeKey, QuietBeforeLogin, SshdCurrent, Trusted, At, NoJob, Jobs, Callers
<1> QED
  BY <1>2, <1>3 DEF IInv

LEMMA StepInv == IInv /\ [Next]_vars => IInv'
  BY TypeStep, SomeKeyStep, QuietStep, SshdCurrentStep DEF IInv

\* Every variable has its type (TrustedCAs).
THEOREM CATypeOK == Spec => []TypeOK
<1>1. IInv => TypeOK
  BY DEF IInv
<1> QED
  BY <1>1, InitInv, StepInv, PTL DEF Spec

\* However many dials, writes and enrollments fail, sshd is not pointed at a file
\* without keys, and never loses its last one (refreshTrustedCAs, runEnroll).
THEOREM CANeverLockedOut == Spec => NeverLockedOut
<1>1. IInv => (conf => file # {})
  BY DEF IInv, SomeKey
<1>2. IInv /\ [Next]_vars => [sshd # {} => sshd' # {}]_vars
  BY SomeKeyStep DEF IInv
<1> QED
  BY <1>1, <1>2, InitInv, StepInv, PTL DEF Spec, NeverLockedOut

\* Without failures sshd has the keys that are there, or a reload is due.
THEOREM CASshdCurrent == Spec => []SshdCurrent
<1>1. IInv => SshdCurrent
  BY DEF IInv
<1> QED
  BY <1>1, InitInv, StepInv, PTL DEF Spec
=============================================================================
