---------------------------- MODULE ClientLogin ----------------------------
(***************************************************************************)
(* How ziti-ssh and ziti-scp get onto the network: each login of a command *)
(* reads the identity file, gets a token from the browser, and             *)
(* authenticates under RunWithTimeout, while its listener writes the       *)
(* controllers it hears of back to the file.  A command with no fresh      *)
(* certificate logs in twice, in runSign and in runConnect or runSCP.      *)
(* Enrollments write the same file, and everything a command has started   *)
(* dies with it.                                                           *)
(***************************************************************************)
EXTENDS IdentityFile, OIDCFlow, Sequences

CONSTANT FlowsOf  \* command -> the flow of each of its logins, NoFlow without an issuer

ASSUME LoginAssumption == FlowsOf \in [Cmd -> Seq(Flow \union {NoFlow})]

VARIABLES
  main,  \* command -> where its main goroutine is
  turn   \* command -> which login it is at

loginVars == <<main, turn>>
vars == <<fileVars, identityVars, flowVars, loginVars>>

At(c, label) == main[c] = label
MainGoto(c, label) == main' = [main EXCEPT ![c] = label] /\ UNCHANGED turn
MyFlow(c) == FlowsOf[c][turn[c]]
FlowSet(c) == {FlowsOf[c][i] : i \in DOMAIN FlowsOf[c]}
Loaded(c) == IF MyFlow(c) = NoFlow THEN "auth" ELSE "oidc"

\* ziti.NewContextFromFile; a file that is missing or torn ends the command.
LoadIdentity(c) ==
  /\ At(c, "load")
  /\ MainGoto(c, IF file \in Doc THEN Loaded(c) ELSE "return")
  /\ UNCHANGED <<fileVars, identityVars, flowVars>>

StartFlow(c) ==
  /\ At(c, "oidc")
  /\ RunFlow(MyFlow(c))
  /\ MainGoto(c, "flow")
  /\ UNCHANGED <<fileVars, identityVars>>

\* AddCredentials: AddJWT, or the error of the flow.
FlowReturned(c) ==
  /\ At(c, "flow")
  /\ flow[MyFlow(c)] \in {"token", "failed"}
  /\ MainGoto(c, IF flow[MyFlow(c)] = "token" THEN "auth" ELSE "return")
  /\ UNCHANGED <<fileVars, identityVars, flowVars>>

\* RunWithTimeout(Authenticate): an answer, or the timer, with Authenticate and
\* its events still under way.
Authenticated(c) ==
  /\ At(c, "auth")
  /\ MainGoto(c, "work") \/ MainGoto(c, "return")
  /\ UNCHANGED <<fileVars, identityVars, flowVars>>
AuthTimeoutIfQuiet(c) ==  \* mutant: Authenticate called without the timer
  /\ At(c, "auth") /\ event[c] # NoApis
  /\ MainGoto(c, "return")
  /\ UNCHANGED <<fileVars, identityVars, flowVars>>
AuthTimeout(c) ==
  /\ At(c, "auth")
  /\ MainGoto(c, "return")
  /\ UNCHANGED <<fileVars, identityVars, flowVars>>

\* The end of runSign, or of the session or copy.
WorkDone(c) ==
  /\ At(c, "work")
  /\ IF turn[c] < Len(FlowsOf[c])
     THEN main' = [main EXCEPT ![c] = "load"] /\ turn' = [turn EXCEPT ![c] = @ + 1]
     ELSE MainGoto(c, "return")
  /\ UNCHANGED <<fileVars, identityVars, flowVars>>

\* main returns, or the user interrupts it: the process ends.
Exit(c) ==
  /\ ~At(c, "exited")
  /\ MainGoto(c, "exited")
  /\ ListenerDies(c)
  /\ FlowsDie(FlowSet(c))

\* Events come at Authenticate and at each renewal of the session.
Event(c) ==
  /\ main[c] \in {"auth", "work"}
  /\ ControllerUrlsUpdated(c)
  /\ UNCHANGED <<flowVars, loginVars>>

Listener(c) ==
  /\ ReadIdentity(c) \/ AtomicWriteFile(c)
  /\ UNCHANGED <<flowVars, loginVars>>

Enroll(e) ==
  /\ RunEnroll(e) \/ AtomicWriteFile(e)
  /\ UNCHANGED <<flowVars, loginVars>>

KillEnroll(e) ==
  /\ Kill({e})
  /\ UNCHANGED <<identityVars, flowVars, loginVars>>

LosePower ==
  /\ IdentityPowerLoss
  /\ main' = [c \in Cmd |-> "exited"]
  /\ FlowsDie(Flow)
  /\ UNCHANGED turn

Init ==
  /\ IdentityInit
  /\ FlowInit
  /\ main = [c \in Cmd |-> "load"]
  /\ turn = [c \in Cmd |-> 1]

LoginStep(c) ==
  \/ LoadIdentity(c) \/ StartFlow(c) \/ FlowReturned(c)
  \/ Authenticated(c) \/ AuthTimeout(c) \/ WorkDone(c)

FlowMoves(f) == FlowStep(f) /\ UNCHANGED <<fileVars, identityVars, loginVars>>

Next ==
  \/ \E c \in Cmd : LoginStep(c) \/ Exit(c) \/ Event(c) \/ Listener(c)
  \/ \E e \in Enroller : Enroll(e) \/ KillEnroll(e)
  \/ \E f \in Flow : FlowMoves(f)
  \/ WriteBack /\ UNCHANGED <<identityVars, flowVars, loginVars>>
  \/ LosePower

Spec == Init /\ [][Next]_vars

\* The main goroutine runs on and its timers fire; a command that returns ends.
Fairness ==
  /\ FlowFairness
  /\ \A c \in Cmd : /\ WF_vars(LoadIdentity(c)) /\ WF_vars(StartFlow(c))
                    /\ WF_vars(FlowReturned(c)) /\ WF_vars(AuthTimeout(c))
                    /\ WF_vars(At(c, "return") /\ Exit(c))

FairSpec == Spec /\ Fairness
-----------------------------------------------------------------------------
(* Properties.                                                             *)

\* No login keeps its user waiting for ever: the command has its session or has
\* returned, though the port may be taken, the tab dead and the network silent.
LoginEnds == \A c \in Cmd : ~At(c, "load") ~> main[c] \in {"work", "exited"}
=============================================================================
