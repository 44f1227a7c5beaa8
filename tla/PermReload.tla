----------------------------- MODULE PermReload -----------------------------
(***************************************************************************)
(* Hot reload of the ziti-ssh-host.v1 service configs (serviceState and    *)
(* loadPermissionsConfig in cmd/ziti-ssh-host) and how it meets the        *)
(* connections that read them (OnConnect) and apply what they read         *)
(* (UserManager.EnsureUser), for the connections of one identity.          *)
(*                                                                         *)
(* A config stands for the permissions it resolves to for that identity.   *)
(* EnsureUser is one step here, with the effect it has when no command     *)
(* fails; UserManager models its commands.  The controller and the SDK's   *)
(* service cache and event emitter, which calls listeners one after the    *)
(* other, are external.                                                    *)
(***************************************************************************)
CONSTANTS
  Service,   \* bound services
  Conn,      \* connections of the identity alive at one time
  Config,    \* configs that load
  Bad,       \* a config that does not parse or validate
  Absent,    \* no config attached to the service: a nil *PermissionsConfig
  Globals,   \* the permissions of the environment variables
  NoPerms,   \* what an account without sessions has
  NoService, \* the service of an idle connection
  Cleanup,   \* ZITI_USER_CLEANUP: is an account deleted with its last session?
  MayHappen  \* "early": an update during startup; "bad": a bad config

ASSUME ReloadAssumption ==
  /\ Bad \notin Config /\ Absent \notin Config
  /\ NoService \notin Service
  /\ Cleanup \in BOOLEAN
  /\ MayHappen \subseteq {"early", "bad"}

VARIABLES
  cached,   \* service -> config in the SDK's cache
  events,   \* services with a service-changed event to be delivered
  phase,    \* "loading", "cleaning" (CleanupOrphans) or "serving"
  loaded,   \* services whose config was loaded at startup
  state,    \* service -> config in its serviceState
  reload,   \* the event handler: its service and what it loaded, or Idle
  conn,     \* connection -> where it is, and the permissions it read
  account   \* permissions applied to the Linux user

vars == <<cached, events, phase, loaded, state, reload, conn, account>>

Idle == [svc |-> NoService, config |-> Absent]
Away == [pc |-> "idle", svc |-> NoService, perms |-> NoPerms]

\* PermissionsConfig.Resolve: a nil config leaves the environment's fallbacks.
Resolve(config) == IF config = Absent THEN Globals ELSE config

\* loadPermissionsConfig returns nil and no error when no config is attached.
Loads(config) == config \in Config \union {Absent}

At(c, label) == conn[c].pc = label
-----------------------------------------------------------------------------
\* The SDK sees a changed config; without a listener its event is lost.
ServiceChanged(s, config) ==
  /\ config # cached[s]
  /\ config = Bad => "bad" \in MayHappen
  /\ phase # "serving" => "early" \in MayHappen
  /\ cached' = [cached EXCEPT ![s] = config]
  /\ events' = IF phase = "serving" THEN events \union {s} ELSE events
  /\ UNCHANGED <<phase, loaded, state, reload, conn, account>>

\* The configs are loaded as the listeners are opened.  On an error the
\* pointer is set to nil all the same: the global fallbacks.
LoadAtStartup(s) ==
  /\ phase = "loading"
  /\ s \notin loaded
  /\ loaded' = loaded \union {s}
  /\ state' = [state EXCEPT ![s] = IF Loads(cached[s]) THEN cached[s] ELSE Absent]
  /\ phase' = IF loaded' = Service THEN "cleaning" ELSE phase
  /\ UNCHANGED <<cached, events, reload, conn, account>>

\* CleanupOrphans returned: the listener is added and the proxies started.
Subscribe ==
  /\ phase = "cleaning"
  /\ phase' = "serving"
  /\ UNCHANGED <<cached, events, loaded, state, reload, conn, account>>

\* The handler reads the cache, not the event; an error leaves the old config.
TakeEventDebounced(s) ==  \* mutant: one reload answers all events so far
  /\ reload = Idle
  /\ s \in events
  /\ events' = {}
  /\ reload' = IF Loads(cached[s]) THEN [svc |-> s, config |-> cached[s]] ELSE Idle
  /\ UNCHANGED <<cached, phase, loaded, state, conn, account>>
TakeEvent(s) ==
  /\ reload = Idle
  /\ s \in events
  /\ events' = events \ {s}
  /\ reload' = IF Loads(cached[s]) THEN [svc |-> s, config |-> cached[s]] ELSE Idle
  /\ UNCHANGED <<cached, phase, loaded, state, conn, account>>

\* serviceState.set
SetForAll ==  \* mutant: the closure captures one state for all services
  /\ reload # Idle
  /\ state' = [s \in Service |-> reload.config]
  /\ reload' = Idle
  /\ UNCHANGED <<cached, events, phase, loaded, conn, account>>
Set ==
  /\ reload # Idle
  /\ state' = [state EXCEPT ![reload.svc] = reload.config]
  /\ reload' = Idle
  /\ UNCHANGED <<cached, events, phase, loaded, conn, account>>

\* OnConnect reads the config of the service the connection came in on.
OnConnect(c, s) ==
  /\ phase = "serving"
  /\ At(c, "idle")
  /\ conn' = [conn EXCEPT ![c] = [pc |-> "resolved", svc |-> s, perms |-> Resolve(state[s])]]
  /\ UNCHANGED <<cached, events, phase, loaded, state, reload, account>>

\* EnsureUser sets the one account of the identity to what was read.
EnsureUser(c) ==
  /\ At(c, "resolved")
  /\ conn' = [conn EXCEPT ![c].pc = "session"]
  /\ account' = conn[c].perms
  /\ UNCHANGED <<cached, events, phase, loaded, state, reload>>

\* The last session takes the account with it, if that is wanted; earlier ones
\* leave it as it is.
ReleaseUser(c) ==
  /\ At(c, "session")
  /\ conn' = [conn EXCEPT ![c] = Away]
  /\ account' = IF Cleanup /\ ~\E d \in Conn \ {c} : At(d, "session") THEN NoPerms ELSE account
  /\ UNCHANGED <<cached, events, phase, loaded, state, reload>>
-----------------------------------------------------------------------------
Init ==
  /\ cached \in [Service -> Config \union {Absent, Bad}]
  /\ \A s \in Service : cached[s] = Bad => "bad" \in MayHappen
  /\ events = {}
  /\ phase = "loading"
  /\ loaded = {}
  /\ state = [s \in Service |-> Absent]
  /\ reload = Idle
  /\ conn = [c \in Conn |-> Away]
  /\ account = NoPerms

Next ==
  \/ \E s \in Service : \/ \E config \in Config \union {Absent, Bad} : ServiceChanged(s, config)
                        \/ LoadAtStartup(s)
                        \/ TakeEvent(s)
  \/ Subscribe
  \/ Set
  \/ \E c \in Conn : \/ \E s \in Service : OnConnect(c, s)
                     \/ EnsureUser(c)
                     \/ ReleaseUser(c)

Spec == Init /\ [][Next]_vars

\* The handler and the startup code run on.
Fairness ==
  /\ \A s \in Service : WF_vars(LoadAtStartup(s)) /\ SF_vars(TakeEvent(s))
  /\ WF_vars(Subscribe) /\ WF_vars(Set)

FairSpec == Spec /\ Fairness
-----------------------------------------------------------------------------
(* Properties.                                                             *)

\* Every variable has its type.
TypeOK ==
  /\ cached \in [Service -> Config \union {Absent, Bad}]
  /\ events \subseteq Service
  /\ phase \in {"loading", "cleaning", "serving"}
  /\ loaded \subseteq Service
  /\ state \in [Service -> Config \union {Absent}]
  /\ reload \in [svc: Service \union {NoService}, config: Config \union {Absent}]
  /\ conn \in [Conn -> [pc: {"idle", "resolved", "session"}, svc: Service \union {NoService},
                        perms: Config \union {Globals, NoPerms}]]
  /\ account \in Config \union {Globals, NoPerms}

\* Once the daemon serves and the events of a service are handled, connections
\* on it read the newest config, unless that one is bad.
InSync ==
  phase = "serving" =>
    \A s \in Service :
      s \in events \/ reload.svc = s \/ ~Loads(cached[s]) \/ state[s] = cached[s]

\* A good config that stays is in force from some time on, whatever bad ones
\* came before it.
GoodConfigArrives ==
  \A s \in Service, config \in Config :
    <>[](cached[s] = config) => <>[](state[s] = config)
-----------------------------------------------------------------------------
(* What docs/operations.md says, and the code does not do.                 *)

\* Line 78: "Already-open sessions are not affected" by a reload.
OpenSessionUnaffected ==
  [][\A c \in Conn : At(c, "session") /\ At(c, "session")' => UNCHANGED account]_vars

\* Line 78: "the updated permissions apply [...] to connections established
\* after the reload", here while nothing else but old sessions is open.
UpdatedPermissionsApply ==
  \A c \in Conn : At(c, "session") /\ conn[c].perms = Resolve(state[conn[c].svc])
    => account = conn[c].perms

\* Line 82: "The service a connection arrived on determines which permissions
\* are applied", so they are those of a session that is open, with Cleanup.
PermsOfAnOpenSession ==
  account # NoPerms => \E c \in Conn : At(c, "session") /\ account = conn[c].perms
=============================================================================
