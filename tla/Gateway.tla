------------------------------- MODULE Gateway -------------------------------
(***************************************************************************)
(* A tool call from the IDE to the downstream server and back: the stdio   *)
(* relay (Relay) connected to a daemon (Dispatch), which builds one server *)
(* per session from the configuration it is running (Catalog) and may be   *)
(* reloaded, crash and be started again while sessions are open.           *)
(*                                                                         *)
(* The two sides share the sessions: a session is bound to its server when *)
(* it is opened and keeps it, with the rule engine of that moment, however *)
(* often the daemon reloads.                                               *)
(***************************************************************************)
EXTENDS Dispatch, Relay

CONSTANT Setups  \* initial situations, see Setup

VARIABLES
  setup,   \* the situation chosen
  cfg,     \* the configuration the daemon runs (d.cfg, d.catalog, d.engine)
  match,   \* ProfileServerForPath, between its two locks: the name found
  bound,   \* what each session was bound to when it was opened
  listed,  \* the tools the relay serves
  want     \* what each call asks for

gatewayVars == <<setup, cfg, match, bound, listed, want>>
vars == <<dispatchVars, relayVars, gatewayVars>>

(* match holds the name of a profile, "" for the whole catalog, or:        *)
Unset == "(unset)"      \* no request is between the two locks
Unmounted == "(none)"   \* no profile is mounted at the path
Broken == "(broken)"    \* the daemon died under the request

(* A profile's path is that of identify.http_path, "" if it has none; the  *)
(* default path /mcp/<name> is written as the name itself, /mcp/_all as All.*)
All == "_all"
Profile == [name : STRING \ {"", Unset, Unmounted, Broken}, path : STRING,
            allow : SUBSET SUBSET Name, deny : SUBSET SUBSET Name,
            lazy : BOOLEAN, limit : Nat]
Config == [raw : Seq(RawTool), bare : SUBSET Server,
           profiles : Seq(Profile), rules : Seq(Rule)]

(* What Load and Reload demand of a file, beyond the types above.          *)
Unique(s) == \A i, j \in DOMAIN s : s[i].name = s[j].name => i = j
Validate(config) == Unique(config.profiles) /\ Unique(config.rules)
ValidConfig == {config \in Config : Validate(config)}

(* configs: what the file may hold, the first one first; profile: the one  *)
(* the relay is started for, "" for none; wants: what each call may ask    *)
(* for - a tool, and for call_deferred_tool the tool_name in its arguments;*)
(* faults: a bound, what may go wrong - the daemon dies, a connection is   *)
(* lost, a call is cancelled, the IDE ends, a connection is not made, a    *)
(* downstream call or a save fails.                                        *)
Want == [name : Name, inner : Name]
Fault == {"crash", "drop", "cancel", "stop", "connect", "call", "disk"}
Setup == [configs : Seq(ValidConfig) \ {<<>>}, profile : STRING,
          wants : [Call -> SUBSET Want], faults : SUBSET Fault]

ASSUME GatewayAssumption ==
  /\ Request = Call \X {1, 2}
  /\ Setups \subseteq Setup
  /\ None \notin Config /\ None \notin Profile /\ None \notin Entry

----------------------------------------------------------------------------
Mount(profile) == IF profile.path = "" THEN profile.name ELSE profile.path

(* The first profile that satisfies P, or None.                            *)
First(profiles, P(_)) ==
  IF \E i \in DOMAIN profiles : P(profiles[i])
    THEN profiles[CHOOSE i \in DOMAIN profiles :
                    P(profiles[i]) /\ \A j \in 1 .. i - 1 : ~P(profiles[j])]
    ELSE None

Named(profiles, name) == First(profiles, LAMBDA p : p.name = name)

(* The path the relay connects to, from the configuration it reads itself. *)
PathForProfile(config, name) ==
  IF name = "" THEN All ELSE Mount(Named(config.profiles, name))

(* The profile mounted at a path, by name; None if there is none.          *)
ProfileAt(config, path) ==
  LET found == First(config.profiles, LAMBDA p : Mount(p) = path)
  IN  IF found = None THEN None ELSE found.name

Catalogued(config) == Build(config.raw, config.bare)

(* ProfileServer, and the empty server where it returns an error.  A       *)
(* binding also keeps, as history, what the server was built from.         *)
ProfileServer(config, name, used) ==
  IF name = "" THEN BuildServer(Catalogued(config))
  ELSE IF Named(config.profiles, name) = None THEN EmptyServer
  ELSE BuildProfileServer(Catalogued(config), Named(config.profiles, name), used)

Unbound == [server |-> EmptyServer, rules |-> <<>>, config |-> None,
            name |-> "", counts |-> NoCounts]

Binding(config, name, used) ==
  [server |-> ProfileServer(config, name, used), rules |-> config.rules,
   config |-> config, name |-> name, counts |-> used]

----------------------------------------------------------------------------
Init ==
  /\ setup \in Setups
  /\ cfg = setup.configs[1]
  /\ match = Unset
  /\ bound = [s \in Session |-> Unbound]
  /\ listed = {}
  /\ want = [c \in Call |-> None]
  /\ DispatchInit
  /\ RelayInit

Path == PathForProfile(setup.configs[1], setup.profile)
Connecting == relay = "starting" \/ \E c \in Call : pc[c] = "dial"

MayFail(fault) == fault \in setup.faults

----------------------------------------------------------------------------
(* The daemon runs another configuration: reload's swap (module Daemon).   *)
Reload ==
  /\ up
  /\ \E i \in DOMAIN setup.configs :
       setup.configs[i] # cfg /\ cfg' = setup.configs[i]
  /\ UNCHANGED <<dispatchVars, relayVars, setup, match, bound, listed, want>>


DaemonStep(r) ==
  /\ \/ Step(r)
     \/ MayFail("call") /\ CallFails(r)
     \/ MayFail("disk") /\ SaveFails(r)
  /\ UNCHANGED <<relayVars, gatewayVars>>

(* An answer nobody waits for any more.                                    *)
AnswerNobody(r) ==
  /\ Answer(r)
  /\ pc[r[1]] # (IF r[2] = 1 THEN "answering" ELSE "resent")
  /\ UNCHANGED <<relayVars, gatewayVars>>

DaemonCrash ==
  /\ MayFail("crash")
  /\ Crash
  /\ net' = [s \in Session |-> IF net[s] = "live" THEN "lost" ELSE net[s]]
  /\ match' = IF match = Unset THEN Unset ELSE Broken
  /\ UNCHANGED <<relay, pc, using, session, mu, setup, cfg, bound, listed, want>>

DaemonStart == Start /\ UNCHANGED <<relayVars, gatewayVars>>

----------------------------------------------------------------------------
(* ProfileServerForPath, first lock: the initialize request of a new       *)
(* session has arrived.                                                    *)
Resolve ==
  /\ up /\ Connecting /\ match = Unset
  /\ match' = CASE Path = All -> ""
                [] Path # All /\ ProfileAt(cfg, Path) = None -> Unmounted
                [] OTHER -> ProfileAt(cfg, Path)
  /\ UNCHANGED <<dispatchVars, relayVars, setup, cfg, bound, listed, want>>

(* Second lock: the server is built, and the session is open.              *)
Bind(s) ==
  /\ up /\ match \notin {Unset, Broken}
  /\ bound' = [bound EXCEPT ![s] = Binding(cfg, match, counts)]
  /\ match' = Unset
  /\ UNCHANGED <<dispatchVars, setup, cfg, listed, want>>

RelayConnects(s) == Connect(s) /\ Bind(s)
RelayReconnects(c, s) == Reconnect(c, s) /\ Bind(s)

Abandon == match' = Unset /\ UNCHANGED <<dispatchVars, setup, cfg, bound, listed, want>>

RelayConnectFails == MayFail("connect") /\ ConnectFails /\ Abandon
RelayReconnectFails(c) == ReconnectFails(c) /\ Abandon

RelayLists ==
  /\ List
  /\ listed' = Listed(bound[session].server)
  /\ UNCHANGED <<dispatchVars, setup, cfg, match, bound, want>>

(* The IDE calls a tool the relay serves.                                  *)
RelayCalls(c) ==
  /\ CallTool(c)
  /\ \E w \in setup.wants[c] : w.name \in listed /\ want' = [want EXCEPT ![c] = w]
  /\ UNCHANGED <<dispatchVars, setup, cfg, match, bound, listed>>

RelayStep(c) ==
  /\ ConnectionClosed(c) \/ Lock(c) \/ (RetryFails(c) /\ net[session] # "live")
  /\ UNCHANGED <<dispatchVars, gatewayVars>>

RelaySteps ==
  /\ \/ ListFails \/ Close
     \/ MayFail("stop") /\ StopServing
     \/ MayFail("cancel") /\ \E c \in Call : GiveUp(c) \/ RetryFails(c)
     \/ MayFail("drop") /\ \E s \in Session : Drop(s)
  /\ UNCHANGED <<dispatchVars, gatewayVars>>

----------------------------------------------------------------------------
(* The entry a tools/call request names on a server, None if the server    *)
(* answers by itself: it has no such tool, it is list_all_tools, or        *)
(* call_deferred_tool finds nothing of that name.                          *)
Target(server, w) ==
  CASE w.name \in DOMAIN server.direct -> server.direct[w.name]
    [] w.name \in server.meta /\ w.name = CallDeferredTool
         /\ w.inner \in DOMAIN server.deferred -> server.deferred[w.inner]
    [] OTHER -> None

(* A request arrives at the server of its session.                         *)
Serve(c, attempt, s) ==
  /\ LET target == Target(bound[s].server, want[c])
     IN  \/ target = None /\ Decline(<<c, attempt>>)
         \/ target # None /\ Begin(<<c, attempt>>, target, bound[s].rules)
  /\ UNCHANGED gatewayVars

RequestArrives(c) == Arrives(c) /\ Serve(c, 1, using[c])
RequestArrivesAgain(c) == ArrivesAgain(c) /\ Serve(c, 2, session)

AnswerArrives(c) ==
  \/ Answered(c) /\ Answer(<<c, 1>>) /\ UNCHANGED gatewayVars
  \/ AnsweredAgain(c) /\ Answer(<<c, 2>>) /\ UNCHANGED gatewayVars

----------------------------------------------------------------------------
CallStep(c) ==
  \/ RequestArrives(c) \/ AnswerArrives(c) \/ RelayStep(c)
  \/ RelayReconnectFails(c) \/ RequestArrivesAgain(c)
  \/ \E s \in Session : RelayReconnects(c, s)

Next ==
  \/ Reload \/ DaemonCrash \/ DaemonStart \/ Resolve
  \/ \E r \in Request : DaemonStep(r) \/ AnswerNobody(r)
  \/ \E s \in Session : RelayConnects(s)
  \/ RelayConnectFails \/ RelayLists \/ RelaySteps
  \/ \E c \in Call : RelayCalls(c) \/ CallStep(c)

Spec == Init /\ [][Next]_vars

(* A hook's script is stopped by its timeout, a downstream call by its own,*)
(* mutexes are handed over and HTTP requests to a local daemon end, one way*)
(* or the other.  Nothing is assumed of reloads, crashes, restarts, drops  *)
(* and cancelled calls.                                                    *)
Fairness ==
  /\ \A r \in Request : WF_vars(DaemonStep(r))
  /\ \A c \in Call : WF_vars(CallStep(c))
  /\ WF_vars(Close /\ UNCHANGED <<dispatchVars, gatewayVars>>)

FairSpec == Spec /\ Fairness

----------------------------------------------------------------------------
BoundProfile(b) == Named(b.config.profiles, b.name)

(* The entries of a session's configuration that its profile permits; said *)
(* without FilterEntries.                                                  *)
Permits(b, name) ==
  \/ b.name = ""
  \/ /\ BoundProfile(b) # None
     /\ name \in (UNION BoundProfile(b).allow) \ (UNION BoundProfile(b).deny)

PermittedAt(b) ==
  IF b.config = None \/ b.name = Unmounted THEN {}
  ELSE LET entries == Catalogued(b.config)
       IN  {i \in DOMAIN entries : Permits(b, entries[i].exposed)}

Permitted(b) == {Catalogued(b.config)[i] : i \in PermittedAt(b)}

(* Nothing is called downstream that the profile of the call's session does*)
(* not permit - denied names least of all - whichever way the call comes,  *)
(* directly or through call_deferred_tool, over the first session or the   *)
(* one that replaced it, and whatever has been reloaded meanwhile          *)
(* (FilterEntries, buildLazyServer, callDeferredTool).                     *)
OnlyAllowedCalled ==
  \A c \in Call :
    /\ pc[c] = "answering" /\ req[<<c, 1>>].entry # None
         => req[<<c, 1>>].entry \in Permitted(bound[using[c]])
    /\ pc[c] = "resent" /\ req[<<c, 2>>].entry # None
         => req[<<c, 2>>].entry \in Permitted(bound[session])

(* What the profile permits can be called: a name is registered or found by*)
(* call_deferred_tool, unless a permitted tool is itself named             *)
(* call_deferred_tool (buildLazyServer, addMetaTools).                     *)
AllowedIsReachable ==
  \A s \in Session :
    LET names == {e.exposed : e \in Permitted(bound[s])}
    IN  CallDeferredTool \notin names
          => \A n \in names : \E w \in Want :
               LET e == Target(bound[s].server, w) IN e # None /\ e.exposed = n

(* n comes before m for a lazy session: it was called more often, or as    *)
(* often and stands further ahead in the catalog.                          *)
Precedes(b, n, m) ==
  LET Under(name) == {i \in PermittedAt(b) : Catalogued(b.config)[i].exposed = name}
  IN  \/ b.counts[n] > b.counts[m]
      \/ b.counts[n] = b.counts[m] /\ \E i \in Under(n) : \A j \in Under(m) : i < j

(* A lazy session lists, besides the meta-tools, as many tools as the limit*)
(* says if no two entries share a name, and each of them comes before all  *)
(* those left out: by the counts the daemon had when the session was opened*)
(* and, where they are equal, by the catalog's order, whatever the filter  *)
(* and the sort did to it (FilterEntries, sortByUsage).  So two sessions of*)
(* one profile may list different tools with no reload between them, which *)
(* is not what docs/CONFIG.md:72-75 says.                                  *)
MostUsedAreDirect ==
  \A s \in Session :
    LET b == bound[s]
        names == {e.exposed : e \in Permitted(b)}
        limit == IF BoundProfile(b).limit = 0 THEN DefaultLazyLoadLimit
                 ELSE BoundProfile(b).limit
        direct == DOMAIN b.server.direct
    IN  names # {} /\ b.name # "" /\ BoundProfile(b).lazy =>
          /\ Cardinality(direct) <= limit
          /\ Cardinality(PermittedAt(b)) = Cardinality(names)
               => Cardinality(direct) = limit \/ direct = names
          /\ \A n \in direct, m \in names \ direct : Precedes(b, n, m)

----------------------------------------------------------------------------
(* Every tool the profile of a session permits can be called in it - the   *)
(* tool itself, and not another one of that name - unless one of them is   *)
(* named call_deferred_tool.                                               *)
EachIsReachable(b) ==
  CallDeferredTool \notin {e.exposed : e \in Permitted(b)}
    => \A e \in Permitted(b) : \E w \in Want : Target(b.server, w) = e

(* aggregator.go calls the catalog collision-free, and says of a collision *)
(* that it is "logged as warnings, never silently dropped": every tool the *)
(* downstream servers list and the profile permits can be called.  The name*)
(* a tool is forced to is not compared with those of the others.           *)
NoToolIsDropped == \A s \in Session : EachIsReachable(bound[s])

(* Two tools a configuration's servers list meet under one name if both    *)
(* have the same namespaced name, or one server opted out of namespacing   *)
(* and lists a tool under the namespaced name of another.                  *)
NamesMeet(config) ==
  LET listing == {config.raw[i] : i \in DOMAIN config.raw}
  IN  \E raw \in listing : \E other \in listing \ {raw} :
        \/ NamespacedName(raw) = NamespacedName(other)
        \/ raw.server \in config.bare /\ raw.tool = NamespacedName(other)

(* Whatever plain names the servers that opted out share, no tool is lost  *)
(* by it: only a name that already looks namespaced can hide one           *)
(* (aggregator.Build, BuildServer, addMetaTools).                          *)
DroppedOnlyIfNamesMeet ==
  \A s \in Session :
    bound[s].config # None /\ ~NamesMeet(bound[s].config) => EachIsReachable(bound[s])

(* Every tool call of the IDE returns, however many of them find the same  *)
(* connection lost and whatever becomes of the daemon, and the relay ends  *)
(* when the IDE has closed its end: nobody keeps daemonConn.mu.            *)
CallReturns ==
  /\ \A c \in Call : pc[c] = "sent" ~> pc[c] = "done"
  /\ relay = "closing" ~> relay = "exited"
=============================================================================
