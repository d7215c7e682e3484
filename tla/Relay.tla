-------------------------------- MODULE Relay --------------------------------
(***************************************************************************)
(* The stdio relay: RunStdio and daemonConn of transport/stdio.go.  An IDE *)
(* starts one relay; every tool call of the IDE is a goroutine that sends  *)
(* over the shared session to the daemon, and when it finds the connection *)
(* closed replaces the session, once, and sends again.                     *)
(*                                                                         *)
(* What the daemon does with a call is left to module Gateway, which       *)
(* composes the two; here a call on a live session is answered or not.     *)
(***************************************************************************)
EXTENDS Naturals, FiniteSets

CONSTANTS
  Call,        \* tool calls of the IDE
  MaxSessions, \* bound: sessions the relay can ever open
  Nobody       \* no call, no session

Session == 1 .. MaxSessions

ASSUME RelayAssumption ==
  /\ MaxSessions \in Nat \ {0}
  /\ Nobody \notin Call /\ Nobody \notin Session

VARIABLES
  relay,    \* where RunStdio is
  pc,       \* where each call is in daemonConn.CallTool
  using,    \* the session its first attempt went to
  session,  \* daemonConn.session
  mu,       \* the call that holds daemonConn.mu, or Nobody
  net       \* the state of each session

relayVars == <<relay, pc, using, session, mu, net>>
relayOnly == <<relay, using, session, mu, net>>

RelayStates == {"starting", "listing", "serving", "closing", "exited"}
Locs == {"idle", "sent", "answering", "lock", "dial", "resend", "resent", "done"}

RelayTypeOK ==
  /\ relay \in RelayStates
  /\ pc \in [Call -> Locs]
  /\ using \in [Call -> Session \cup {Nobody}]
  /\ session \in Session \cup {Nobody}
  /\ mu \in Call \cup {Nobody}
  /\ net \in [Session -> {"unused", "live", "lost", "closed"}]

RelayInit ==
  /\ relay = "starting"
  /\ pc = [c \in Call |-> "idle"]
  /\ using = [c \in Call |-> Nobody]
  /\ session = Nobody
  /\ mu = Nobody
  /\ net = [s \in Session |-> "unused"]

----------------------------------------------------------------------------
(* connectDaemon: sessions are opened in the order of their numbers.       *)
Opens(s) ==
  /\ net[s] = "unused"
  /\ \A t \in Session : t < s => net[t] # "unused"

(* RunStdio connects, lists the tools of the session and serves them.      *)
Connect(s) ==
  /\ relay = "starting" /\ Opens(s)
  /\ relay' = "listing"
  /\ session' = s
  /\ net' = [net EXCEPT ![s] = "live"]
  /\ UNCHANGED <<pc, using, mu>>

ConnectFails ==
  /\ relay = "starting"
  /\ relay' = "exited"
  /\ UNCHANGED <<pc, using, session, mu, net>>

List ==
  /\ relay = "listing" /\ net[session] = "live"
  /\ relay' = "serving"
  /\ UNCHANGED <<pc, using, session, mu, net>>

ListFails ==
  /\ relay = "listing" /\ net[session] # "live"
  /\ relay' = "closing"
  /\ UNCHANGED <<pc, using, session, mu, net>>

----------------------------------------------------------------------------
Goes(c, from, to) == pc[c] = from /\ pc' = [pc EXCEPT ![c] = to]

(* The relay's handler: d.session is read under mu and used after it.      *)
CallTool(c) ==
  /\ relay = "serving" /\ mu = Nobody
  /\ Goes(c, "idle", "sent")
  /\ using' = [using EXCEPT ![c] = session]
  /\ UNCHANGED <<relay, session, mu, net>>

Arrives(c) ==
  /\ Goes(c, "sent", "answering")
  /\ net[using[c]] = "live"
  /\ UNCHANGED relayOnly

Answered(c) ==
  /\ Goes(c, "answering", "done")
  /\ net[using[c]] = "live"
  /\ UNCHANGED relayOnly

(* Mutant: every error is taken for a closed connection.                   *)
GiveUpRetries(c) ==
  /\ pc[c] \in {"sent", "answering"}
  /\ pc' = [pc EXCEPT ![c] = "lock"]
  /\ UNCHANGED relayOnly

(* Any other error - the call was cancelled, the server reports one - goes *)
(* to the IDE as it is.                                                    *)
GiveUp(c) ==
  /\ pc[c] \in {"sent", "answering"}
  /\ pc' = [pc EXCEPT ![c] = "done"]
  /\ UNCHANGED relayOnly

(* mcp.ErrConnectionClosed: the connection is lost, or another call has    *)
(* closed the session it replaced.                                         *)
ConnectionClosed(c) ==
  /\ pc[c] \in {"sent", "answering"}
  /\ net[using[c]] \in {"lost", "closed"}
  /\ pc' = [pc EXCEPT ![c] = "lock"]
  /\ UNCHANGED relayOnly

(* Mutant: the session is replaced without looking whether it still is the *)
(* one that failed.                                                        *)
LockAndDial(c) ==
  /\ mu = Nobody /\ mu' = c
  /\ Goes(c, "lock", "dial")
  /\ UNCHANGED <<relay, using, session, net>>

(* From here on mu is held until CallTool returns.                         *)
Lock(c) ==
  /\ mu = Nobody /\ mu' = c
  /\ Goes(c, "lock", IF session = using[c] THEN "dial" ELSE "resend")
  /\ UNCHANGED <<relay, using, session, net>>

Reconnect(c, s) ==
  /\ Goes(c, "dial", "resend") /\ Opens(s)
  /\ session' = s
  /\ net' = [net EXCEPT ![using[c]] = "closed", ![s] = "live"]
  /\ UNCHANGED <<relay, using, mu>>

(* Mutant: the mutex is not released.                                      *)
ReconnectFailsLocked(c) ==
  /\ Goes(c, "dial", "done")
  /\ UNCHANGED relayOnly

Release == mu' = Nobody /\ UNCHANGED <<relay, using, session, net>>

ReconnectFails(c) == Goes(c, "dial", "done") /\ Release

ArrivesAgain(c) ==
  /\ Goes(c, "resend", "resent")
  /\ net[session] = "live"
  /\ UNCHANGED relayOnly

AnsweredAgain(c) ==
  /\ Goes(c, "resent", "done")
  /\ net[session] = "live"
  /\ Release

(* The second attempt fails, for whatever reason: there is no third.       *)
RetryFails(c) ==
  /\ pc[c] \in {"resend", "resent"}
  /\ pc' = [pc EXCEPT ![c] = "done"]
  /\ Release

----------------------------------------------------------------------------
(* A connection to a live daemon may drop as well.                         *)
Drop(s) ==
  /\ net[s] = "live"
  /\ net' = [net EXCEPT ![s] = "lost"]
  /\ UNCHANGED <<relay, pc, using, session, mu>>

(* relay.Run returns - the IDE closed its end - and the deferred Close     *)
(* waits for mu; then the process exits, with whatever calls are left.     *)
StopServing ==
  /\ relay = "serving"
  /\ relay' = "closing"
  /\ UNCHANGED <<pc, using, session, mu, net>>

Close ==
  /\ relay = "closing" /\ mu = Nobody
  /\ relay' = "exited"
  /\ net' = [net EXCEPT ![session] = "closed"]
  /\ pc' = [c \in Call |-> "done"]
  /\ UNCHANGED <<using, session, mu>>

----------------------------------------------------------------------------
(* The relay holds one connection: a session other than the current one is *)
(* never live, so that no connection is leaked in the daemon however many  *)
(* calls find the same connection closed (daemonConn.CallTool).            *)
OneSession ==
  \A s \in Session : net[s] = "live" => s = session /\ relay # "exited"

(* A call looks for another session only when the connection of its first  *)
(* attempt was lost - a call that failed for another reason may have run - *)
(* and nothing is sent again over the session that failed, whoever has     *)
(* replaced it (daemonConn.CallTool).                                      *)
RetriedOnlyAfterLoss ==
  \A c \in Call :
    /\ pc[c] \in {"lock", "dial", "resend", "resent"}
         => net[using[c]] \in {"lost", "closed"}
    /\ pc[c] \in {"resend", "resent"} => using[c] # session
=============================================================================
