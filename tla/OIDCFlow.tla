------------------------------ MODULE OIDCFlow ------------------------------
(***************************************************************************)
(* internal/oidc.runFlow: the browser login of a command.  A flow starts   *)
(* an HTTP server on the fixed callback port, opens a browser tab on its   *)
(* /login, and waits for a token or two minutes.  Flows of one command     *)
(* follow each other, those of two commands share the port and the         *)
(* browser's cookie for localhost.                                         *)
(*                                                                         *)
(* The provider, the browser, its user, net/http and the relying party of  *)
(* zitadel/oidc are external: /login sets the cookie with the state of the *)
(* login, encrypted with keys of the flow, and the callback refuses any    *)
(* request whose cookie it cannot read or whose state differs.             *)
(***************************************************************************)
EXTENDS Naturals

CONSTANTS
  Flow,   \* calls of runFlow
  NoFlow

ASSUME FlowAssumption == NoFlow \notin Flow

VARIABLES
  flow,   \* flow -> where runFlow is, and how it returned
  server, \* flow -> its callback server
  tab,    \* flow -> the tab it opened: the server of its login, that of the callback
  cookie, \* the login the browser's state cookie is of: its tab and server
  tokens, \* flow -> the servers of the logins whose token is in its tokenChan
  login   \* observed: flow -> the server of the login its token comes from

flowVars == <<flow, server, tab, cookie, tokens, login>>

NoTab == [at |-> "none", srv |-> NoFlow, to |-> NoFlow]
NoCookie == [tab |-> NoFlow, srv |-> NoFlow]

Set(fn, f, value) == [fn EXCEPT ![f] = value]
Serves(f) == server[f] = "bound"

\* The relying party is discovered at the issuer, or fails.
RunFlow(f) ==
  /\ flow[f] = "idle"
  /\ \/ flow' = Set(flow, f, "starting")
     \/ flow' = Set(flow, f, "failed")
  /\ UNCHANGED <<server, tab, cookie, tokens, login>>

\* The two goroutines and the tab: the tab may be quicker than the server.
OpenBrowser(f) ==
  /\ flow[f] = "starting"
  /\ flow' = Set(flow, f, "waiting")
  /\ server' = Set(server, f, "starting")
  /\ tab' = Set(tab, f, [NoTab EXCEPT !.at = "opened"])
  /\ UNCHANGED <<cookie, tokens, login>>

\* A port that is in use is only logged.
ListenAndServe(f) ==
  /\ server[f] = "starting"
  /\ server' = Set(server, f, IF \E g \in Flow : Serves(g) THEN "failed" ELSE "bound")
  /\ UNCHANGED <<flow, tab, cookie, tokens, login>>

\* /login of whichever server answers, or a page that cannot be reached.
Login(f) ==
  /\ tab[f].at = "opened"
  /\ \/ \E s \in Flow : /\ Serves(s)
                        /\ tab' = Set(tab, f, [at |-> "provider", srv |-> s, to |-> NoFlow])
                        /\ cookie' = [tab |-> f, srv |-> s]
     \/ /\ \A s \in Flow : ~Serves(s)
        /\ tab' = Set(tab, f, NoTab)
        /\ UNCHANGED cookie
  /\ UNCHANGED <<flow, server, tokens, login>>

\* The user gives up.
CloseTab(f) ==
  /\ tab[f].at \in {"opened", "provider"}
  /\ tab' = Set(tab, f, NoTab)
  /\ UNCHANGED <<flow, server, cookie, tokens, login>>

\* The provider sends the tab back, to whichever server answers by then: the
\* handler goes on with the login its cookie is of, and with no other.
Accepts(s, f) == cookie = [tab |-> f, srv |-> s]
CallbackGoesTo(accepting, f) ==
  /\ tab[f].at = "provider"
  /\ tab' = Set(tab, f, IF accepting = {} THEN NoTab
                        ELSE [at |-> "exchange", srv |-> tab[f].srv,
                              to |-> CHOOSE s \in accepting : TRUE])
  /\ UNCHANGED <<flow, server, cookie, tokens, login>>
CallbackSharedKeys(f) ==  \* mutant: the keys of the cookie are the same in every flow
  CallbackGoesTo({s \in Flow : Serves(s) /\ cookie.tab = f}, f)
Callback(f) == CallbackGoesTo({s \in Flow : Serves(s) /\ Accepts(s, f)}, f)

\* The code is exchanged, or refused.  When nobody waits any more, the token
\* stays in the channel, or the handler stays with it.
ExchangeCode(f) ==
  /\ tab[f].at = "exchange"
  /\ \/ LET s == tab[f].to
        IN  tokens' = IF flow[s] = "waiting"
                      THEN Set(tokens, s, tokens[s] \union {tab[f].srv}) ELSE tokens
     \/ UNCHANGED tokens
  /\ tab' = Set(tab, f, NoTab)
  /\ UNCHANGED <<flow, server, cookie, login>>

\* The select takes a token that is there, or the end of flowCtx.
Returns(f, how, token) ==
  /\ flow[f] = "waiting"
  /\ flow' = Set(flow, f, how)
  /\ login' = Set(login, f, token)
  /\ tokens' = Set(tokens, f, {})
  /\ UNCHANGED <<server, tab, cookie>>
TakeToken(f) == \E s \in tokens[f] : Returns(f, "token", s)
FlowTimeout(f) == Returns(f, "failed", NoFlow)

\* The goroutine that waits for flowCtx, which the return cancels.  A server
\* that has not begun to listen never does.
ShutdownOnTimeout(f) ==  \* mutant: the return of the flow does not cancel flowCtx
  /\ flow[f] = "failed"
  /\ server[f] \in {"starting", "bound"}
  /\ server' = Set(server, f, "closed")
  /\ UNCHANGED <<flow, tab, cookie, tokens, login>>
Shutdown(f) ==
  /\ flow[f] \in {"token", "failed"}
  /\ server[f] \in {"starting", "bound"}
  /\ server' = Set(server, f, "closed")
  /\ UNCHANGED <<flow, tab, cookie, tokens, login>>

\* The process of the flows in S ends.
FlowsDie(S) ==
  /\ flow' = [f \in Flow |-> IF f \in S /\ flow[f] \in {"starting", "waiting"}
                             THEN "failed" ELSE flow[f]]
  /\ server' = [f \in Flow |-> IF f \in S /\ server[f] \in {"starting", "bound"}
                               THEN "closed" ELSE server[f]]
  /\ tokens' = [f \in Flow |-> IF f \in S THEN {} ELSE tokens[f]]
  /\ tab' = [f \in Flow |-> IF tab[f].to \in S THEN NoTab ELSE tab[f]]
  /\ UNCHANGED <<cookie, login>>

FlowInit ==
  /\ flow = [f \in Flow |-> "idle"]
  /\ server = [f \in Flow |-> "off"]
  /\ tab = [f \in Flow |-> NoTab]
  /\ cookie = NoCookie
  /\ tokens = [f \in Flow |-> {}]
  /\ login = [f \in Flow |-> NoFlow]

FlowStep(f) ==
  \/ OpenBrowser(f) \/ ListenAndServe(f) \/ Shutdown(f)
  \/ TakeToken(f) \/ FlowTimeout(f)
  \/ Login(f) \/ CloseTab(f) \/ Callback(f) \/ ExchangeCode(f)

\* The goroutines run, and the two minutes pass; nobody need log in.
FlowFairness ==
  \A f \in Flow : /\ WF_flowVars(OpenBrowser(f)) /\ WF_flowVars(ListenAndServe(f))
                  /\ WF_flowVars(FlowTimeout(f)) /\ WF_flowVars(Shutdown(f))
-----------------------------------------------------------------------------
(* Properties.                                                             *)

\* A flow returns the token of a login that began at its own server, with its
\* own relying party, whichever tabs, older flows and other commands use the
\* port and the cookie meanwhile (oidc.go:109-117 and 163).
TokenFromOwnLogin == \A f \in Flow : login[f] \in {f, NoFlow}

\* A callback server that is listening gives the port back.
PortIsFreed == \A f \in Flow : Serves(f) ~> ~Serves(f)
-----------------------------------------------------------------------------
(* What a comment says, and the code does not do.                          *)

\* oidc.go:20-22: the flow "opens a temporary localhost HTTP server [and] waits
\* for the identity provider to redirect back", so a flow that waits has a
\* server or is about to.  A port in use is only logged.
WaitsWithServer ==
  \A f \in Flow : flow[f] = "waiting" => server[f] \in {"starting", "bound"}
=============================================================================
