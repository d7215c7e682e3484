---------------------------- MODULE GatewayProofs ----------------------------
(***************************************************************************)
(* What of Gateway is proved for any number of calls and sessions, and any *)
(* configurations, profiles and counts.                                    *)
(*                                                                         *)
(* The relay holds one connection, and sends again only after a loss       *)
(* (RelayInv): who holds daemonConn.mu, and what the state of RunStdio says*)
(* about the session and the calls.  Every step of Gateway is a step of the*)
(* relay, or leaves it alone, or is a crash, which loses the sessions.     *)
(*                                                                         *)
(* A session lists what its profile permits, and a call reaches only that  *)
(* (SessionInv).  What BuildServer and BuildLazyServer build is computed   *)
(* once for any entries (BuildServerOffers, LazyServerOffers,              *)
(* ShownAreMostUsed), then for what a session is bound to (BindingOffers,  *)
(* BindingListsMostUsed).  That a session stays bound to it, and a request *)
(* to the entry it found there, is the invariant; for it a session must be *)
(* known to be bound before the relay uses it (UsedIsOpen), and every step *)
(* of Gateway to be one of a few of Dispatch (NextIs).                     *)
(***************************************************************************)
EXTENDS Gateway, ArrangementProofs, TLAPS

Retrying == {"dial", "resend", "resent"}

LiveIsCurrent == \A s \in Session : net[s] = "live" => s = session /\ relay # "exited"

(* The mutex is held from the second look at the session on; the session a *)
(* call is about to replace is the one it failed on, and it sends again    *)
(* over another.                                                           *)
HolderIsRetrying ==
  \A c \in Call :
    /\ pc[c] \in Retrying <=> mu = c
    /\ pc[c] = "dial" => session = using[c]
    /\ pc[c] \in {"resend", "resent"} => session # using[c]

(* A call that has failed for a lost connection: the session stays lost.   *)
RetryingLost ==
  \A c \in Call :
    /\ pc[c] \in {"sent", "answering"} => using[c] \in Session
    /\ pc[c] \in {"lock"} \cup Retrying
         => using[c] \in Session /\ net[using[c]] \in {"lost", "closed"}

PhasesAgree ==
  /\ relay = "starting" => session = Nobody
  /\ relay \in {"listing", "serving", "closing"} => session \in Session
  /\ relay \in {"starting", "listing"} => \A c \in Call : pc[c] = "idle"
  /\ relay = "exited" => \A c \in Call : pc[c] \in {"idle", "done"}

RelayInv ==
  /\ RelayTypeOK
  /\ LiveIsCurrent
  /\ HolderIsRetrying
  /\ RetryingLost
  /\ PhasesAgree

----------------------------------------------------------------------------
LEMMA RelConnect ==
  ASSUME NEW s \in Session, RelayInv, Connect(s)
  PROVE  RelayInv'
<1>1. RelayTypeOK'
  BY RelayAssumption DEF RelayInv, Connect, Opens, RelayTypeOK, RelayStates, Locs, LiveIsCurrent, HolderIsRetrying, RetryingLost, PhasesAgree, Retrying
<1>2. LiveIsCurrent'
  BY RelayAssumption DEF RelayInv, Connect, Opens, RelayTypeOK, RelayStates, Locs, LiveIsCurrent, HolderIsRetrying, RetryingLost, PhasesAgree, Retrying
<1>3. HolderIsRetrying'
  BY RelayAssumption DEF RelayInv, Connect, Opens, RelayTypeOK, RelayStates, Locs, LiveIsCurrent, HolderIsRetrying, RetryingLost, PhasesAgree, Retrying
<1>4. RetryingLost'
  BY RelayAssumption DEF RelayInv, Connect, Opens, RelayTypeOK, RelayStates, Locs, LiveIsCurrent, HolderIsRetrying, RetryingLost, PhasesAgree, Retrying
<1>5. PhasesAgree'
  BY RelayAssumption DEF RelayInv, Connect, Opens, RelayTypeOK, RelayStates, Locs, LiveIsCurrent, HolderIsRetrying, RetryingLost, PhasesAgree, Retrying
<1>q. QED BY <1>1, <1>2, <1>3, <1>4, <1>5 DEF RelayInv

LEMMA RelConnectFails ==
  ASSUME RelayInv, ConnectFails
  PROVE  RelayInv'
<1>1. RelayTypeOK'
  BY RelayAssumption DEF RelayInv, ConnectFails, RelayTypeOK, RelayStates, Locs, LiveIsCurrent, HolderIsRetrying, RetryingLost, PhasesAgree, Retrying
<1>2. LiveIsCurrent'
  BY RelayAssumption DEF RelayInv, ConnectFails, RelayTypeOK, RelayStates, Locs, LiveIsCurrent, HolderIsRetrying, RetryingLost, PhasesAgree, Retrying
<1>3. HolderIsRetrying'
  BY RelayAssumption DEF RelayInv, ConnectFails, RelayTypeOK, RelayStates, Locs, LiveIsCurrent, HolderIsRetrying, RetryingLost, PhasesAgree, Retrying
<1>4. RetryingLost'
  BY RelayAssumption DEF RelayInv, ConnectFails, RelayTypeOK, RelayStates, Locs, LiveIsCurrent, HolderIsRetrying, RetryingLost, PhasesAgree, Retrying
<1>5. PhasesAgree'
  BY RelayAssumption DEF RelayInv, ConnectFails, RelayTypeOK, RelayStates, Locs, LiveIsCurrent, HolderIsRetrying, RetryingLost, PhasesAgree, Retrying
<1>q. QED BY <1>1, <1>2, <1>3, <1>4, <1>5 DEF RelayInv

LEMMA RelList ==
  ASSUME RelayInv, List
  PROVE  RelayInv'
<1>1. RelayTypeOK'
  BY RelayAssumption DEF RelayInv, List, RelayTypeOK, RelayStates, Locs, LiveIsCurrent, HolderIsRetrying, RetryingLost, PhasesAgree, Retrying
<1>2. LiveIsCurrent'
  BY RelayAssumption DEF RelayInv, List, RelayTypeOK, RelayStates, Locs, LiveIsCurrent, HolderIsRetrying, RetryingLost, PhasesAgree, Retrying
<1>3. HolderIsRetrying'
  BY RelayAssumption DEF RelayInv, List, RelayTypeOK, RelayStates, Locs, LiveIsCurrent, HolderIsRetrying, RetryingLost, PhasesAgree, Retrying
<1>4. RetryingLost'
  BY RelayAssumption DEF RelayInv, List, RelayTypeOK, RelayStates, Locs, LiveIsCurrent, HolderIsRetrying, RetryingLost, PhasesAgree, Retrying
<1>5. PhasesAgree'
  BY RelayAssumption DEF RelayInv, List, RelayTypeOK, RelayStates, Locs, LiveIsCurrent, HolderIsRetrying, RetryingLost, PhasesAgree, Retrying
<1>q. QED BY <1>1, <1>2, <1>3, <1>4, <1>5 DEF RelayInv

LEMMA RelListFails ==
  ASSUME RelayInv, ListFails
  PROVE  RelayInv'
<1>1. RelayTypeOK'
  BY RelayAssumption DEF RelayInv, ListFails, RelayTypeOK, RelayStates, Locs, LiveIsCurrent, HolderIsRetrying, RetryingLost, PhasesAgree, Retrying
<1>2. LiveIsCurrent'
  BY RelayAssumption DEF RelayInv, ListFails, RelayTypeOK, RelayStates, Locs, LiveIsCurrent, HolderIsRetrying, RetryingLost, PhasesAgree, Retrying
<1>3. HolderIsRetrying'
  BY RelayAssumption DEF RelayInv, ListFails, RelayTypeOK, RelayStates, Locs, LiveIsCurrent, HolderIsRetrying, RetryingLost, PhasesAgree, Retrying
<1>4. RetryingLost'
  BY RelayAssumption DEF RelayInv, ListFails, RelayTypeOK, RelayStates, Locs, LiveIsCurrent, HolderIsRetrying, RetryingLost, PhasesAgree, Retrying
<1>5. PhasesAgree'
  BY RelayAssumption DEF RelayInv, ListFails, RelayTypeOK, RelayStates, Locs, LiveIsCurrent, HolderIsRetrying, RetryingLost, PhasesAgree, Retrying
<1>q. QED BY <1>1, <1>2, <1>3, <1>4, <1>5 DEF RelayInv

LEMMA RelCallTool ==
  ASSUME NEW c \in Call, RelayInv, CallTool(c)
  PROVE  RelayInv'
<1>1. RelayTypeOK'
  BY RelayAssumption DEF RelayInv, CallTool, Goes, RelayTypeOK, RelayStates, Locs, LiveIsCurrent, HolderIsRetrying, RetryingLost, PhasesAgree, Retrying
<1>2. LiveIsCurrent'
  BY RelayAssumption DEF RelayInv, CallTool, Goes, RelayTypeOK, RelayStates, Locs, LiveIsCurrent, HolderIsRetrying, RetryingLost, PhasesAgree, Retrying
<1>3. HolderIsRetrying'
  BY RelayAssumption DEF RelayInv, CallTool, Goes, RelayTypeOK, RelayStates, Locs, LiveIsCurrent, HolderIsRetrying, RetryingLost, PhasesAgree, Retrying
<1>4. RetryingLost'
  BY RelayAssumption DEF RelayInv, CallTool, Goes, RelayTypeOK, RelayStates, Locs, LiveIsCurrent, HolderIsRetrying, RetryingLost, PhasesAgree, Retrying
<1>5. PhasesAgree'
  BY RelayAssumption DEF RelayInv, CallTool, Goes, RelayTypeOK, RelayStates, Locs, LiveIsCurrent, HolderIsRetrying, RetryingLost, PhasesAgree, Retrying
<1>q. QED BY <1>1, <1>2, <1>3, <1>4, <1>5 DEF RelayInv

LEMMA RelArrives ==
  ASSUME NEW c \in Call, RelayInv, Arrives(c)
  PROVE  RelayInv'
<1>1. RelayTypeOK'
  BY RelayAssumption DEF RelayInv, Arrives, Goes, relayOnly, RelayTypeOK, RelayStates, Locs, LiveIsCurrent, HolderIsRetrying, RetryingLost, PhasesAgree, Retrying
<1>2. LiveIsCurrent'
  BY RelayAssumption DEF RelayInv, Arrives, Goes, relayOnly, RelayTypeOK, RelayStates, Locs, LiveIsCurrent, HolderIsRetrying, RetryingLost, PhasesAgree, Retrying
<1>3. HolderIsRetrying'
  BY RelayAssumption DEF RelayInv, Arrives, Goes, relayOnly, RelayTypeOK, RelayStates, Locs, LiveIsCurrent, HolderIsRetrying, RetryingLost, PhasesAgree, Retrying
<1>4. RetryingLost'
  BY RelayAssumption DEF RelayInv, Arrives, Goes, relayOnly, RelayTypeOK, RelayStates, Locs, LiveIsCurrent, HolderIsRetrying, RetryingLost, PhasesAgree, Retrying
<1>5. PhasesAgree'
  BY RelayAssumption DEF RelayInv, Arrives, Goes, relayOnly, RelayTypeOK, RelayStates, Locs, LiveIsCurrent, HolderIsRetrying, RetryingLost, PhasesAgree, Retrying
<1>q. QED BY <1>1, <1>2, <1>3, <1>4, <1>5 DEF RelayInv

LEMMA RelAnswered ==
  ASSUME NEW c \in Call, RelayInv, Answered(c)
  PROVE  RelayInv'
<1>1. RelayTypeOK'
  BY RelayAssumption DEF RelayInv, Answered, Goes, relayOnly, RelayTypeOK, RelayStates, Locs, LiveIsCurrent, HolderIsRetrying, RetryingLost, PhasesAgree, Retrying
<1>2. LiveIsCurrent'
  BY RelayAssumption DEF RelayInv, Answered, Goes, relayOnly, RelayTypeOK, RelayStates, Locs, LiveIsCurrent, HolderIsRetrying, RetryingLost, PhasesAgree, Retrying
<1>3. HolderIsRetrying'
  BY RelayAssumption DEF RelayInv, Answered, Goes, relayOnly, RelayTypeOK, RelayStates, Locs, LiveIsCurrent, HolderIsRetrying, RetryingLost, PhasesAgree, Retrying
<1>4. RetryingLost'
  BY RelayAssumption DEF RelayInv, Answered, Goes, relayOnly, RelayTypeOK, RelayStates, Locs, LiveIsCurrent, HolderIsRetrying, RetryingLost, PhasesAgree, Retrying
<1>5. PhasesAgree'
  BY RelayAssumption DEF RelayInv, Answered, Goes, relayOnly, RelayTypeOK, RelayStates, Locs, LiveIsCurrent, HolderIsRetrying, RetryingLost, PhasesAgree, Retrying
<1>q. QED BY <1>1, <1>2, <1>3, <1>4, <1>5 DEF RelayInv

LEMMA RelGiveUp ==
  ASSUME NEW c \in Call, RelayInv, GiveUp(c)
  PROVE  RelayInv'
<1>1. RelayTypeOK'
  BY RelayAssumption DEF RelayInv, GiveUp, relayOnly, RelayTypeOK, RelayStates, Locs, LiveIsCurrent, HolderIsRetrying, RetryingLost, PhasesAgree, Retrying
<1>2. LiveIsCurrent'
  BY RelayAssumption DEF RelayInv, GiveUp, relayOnly, RelayTypeOK, RelayStates, Locs, LiveIsCurrent, HolderIsRetrying, RetryingLost, PhasesAgree, Retrying
<1>3. HolderIsRetrying'
  BY RelayAssumption DEF RelayInv, GiveUp, relayOnly, RelayTypeOK, RelayStates, Locs, LiveIsCurrent, HolderIsRetrying, RetryingLost, PhasesAgree, Retrying
<1>4. RetryingLost'
  BY RelayAssumption DEF RelayInv, GiveUp, relayOnly, RelayTypeOK, RelayStates, Locs, LiveIsCurrent, HolderIsRetrying, RetryingLost, PhasesAgree, Retrying
<1>5. PhasesAgree'
  BY RelayAssumption DEF RelayInv, GiveUp, relayOnly, RelayTypeOK, RelayStates, Locs, LiveIsCurrent, HolderIsRetrying, RetryingLost, PhasesAgree, Retrying
<1>q. QED BY <1>1, <1>2, <1>3, <1>4, <1>5 DEF RelayInv

LEMMA RelConnectionClosed ==
  ASSUME NEW c \in Call, RelayInv, ConnectionClosed(c)
  PROVE  RelayInv'
<1>1. RelayTypeOK'
  BY RelayAssumption DEF RelayInv, ConnectionClosed, relayOnly, RelayTypeOK, RelayStates, Locs, LiveIsCurrent, HolderIsRetrying, RetryingLost, PhasesAgree, Retrying
<1>2. LiveIsCurrent'
  BY RelayAssumption DEF RelayInv, ConnectionClosed, relayOnly, RelayTypeOK, RelayStates, Locs, LiveIsCurrent, HolderIsRetrying, RetryingLost, PhasesAgree, Retrying
<1>3. HolderIsRetrying'
  BY RelayAssumption DEF RelayInv, ConnectionClosed, relayOnly, RelayTypeOK, RelayStates, Locs, LiveIsCurrent, HolderIsRetrying, RetryingLost, PhasesAgree, Retrying
<1>4. RetryingLost'
  BY RelayAssumption DEF RelayInv, ConnectionClosed, relayOnly, RelayTypeOK, RelayStates, Locs, LiveIsCurrent, HolderIsRetrying, RetryingLost, PhasesAgree, Retrying
<1>5. PhasesAgree'
  BY RelayAssumption DEF RelayInv, ConnectionClosed, relayOnly, RelayTypeOK, RelayStates, Locs, LiveIsCurrent, HolderIsRetrying, RetryingLost, PhasesAgree, Retrying
<1>q. QED BY <1>1, <1>2, <1>3, <1>4, <1>5 DEF RelayInv

LEMMA RelLock ==
  ASSUME NEW c \in Call, RelayInv, Lock(c)
  PROVE  RelayInv'
<1>1. RelayTypeOK'
  BY RelayAssumption DEF RelayInv, Lock, Goes, RelayTypeOK, RelayStates, Locs, LiveIsCurrent, HolderIsRetrying, RetryingLost, PhasesAgree, Retrying
<1>2. LiveIsCurrent'
  BY RelayAssumption DEF RelayInv, Lock, Goes, RelayTypeOK, RelayStates, Locs, LiveIsCurrent, HolderIsRetrying, RetryingLost, PhasesAgree, Retrying
<1>3. HolderIsRetrying'
  BY RelayAssumption DEF RelayInv, Lock, Goes, RelayTypeOK, RelayStates, Locs, LiveIsCurrent, HolderIsRetrying, RetryingLost, PhasesAgree, Retrying
<1>4. RetryingLost'
  BY RelayAssumption DEF RelayInv, Lock, Goes, RelayTypeOK, RelayStates, Locs, LiveIsCurrent, HolderIsRetrying, RetryingLost, PhasesAgree, Retrying
<1>5. PhasesAgree'
  BY RelayAssumption DEF RelayInv, Lock, Goes, RelayTypeOK, RelayStates, Locs, LiveIsCurrent, HolderIsRetrying, RetryingLost, PhasesAgree, Retrying
<1>q. QED BY <1>1, <1>2, <1>3, <1>4, <1>5 DEF RelayInv

LEMMA RelReconnect ==
  ASSUME NEW c \in Call, NEW s \in Session, RelayInv, Reconnect(c, s)
  PROVE  RelayInv'
<1>1. RelayTypeOK'
  BY RelayAssumption DEF RelayInv, Reconnect, Goes, Opens, RelayTypeOK, RelayStates, Locs, LiveIsCurrent, HolderIsRetrying, RetryingLost, PhasesAgree, Retrying
<1>2. LiveIsCurrent'
  BY RelayAssumption DEF RelayInv, Reconnect, Goes, Opens, RelayTypeOK, RelayStates, Locs, LiveIsCurrent, HolderIsRetrying, RetryingLost, PhasesAgree, Retrying
<1>3. HolderIsRetrying'
  BY RelayAssumption DEF RelayInv, Reconnect, Goes, Opens, RelayTypeOK, RelayStates, Locs, LiveIsCurrent, HolderIsRetrying, RetryingLost, PhasesAgree, Retrying
<1>4. RetryingLost'
  BY RelayAssumption DEF RelayInv, Reconnect, Goes, Opens, RelayTypeOK, RelayStates, Locs, LiveIsCurrent, HolderIsRetrying, RetryingLost, PhasesAgree, Retrying
<1>5. PhasesAgree'
  BY RelayAssumption DEF RelayInv, Reconnect, Goes, Opens, RelayTypeOK, RelayStates, Locs, LiveIsCurrent, HolderIsRetrying, RetryingLost, PhasesAgree, Retrying
<1>q. QED BY <1>1, <1>2, <1>3, <1>4, <1>5 DEF RelayInv

LEMMA RelReconnectFails ==
  ASSUME NEW c \in Call, RelayInv, ReconnectFails(c)
  PROVE  RelayInv'
<1>1. RelayTypeOK'
  BY RelayAssumption DEF RelayInv, ReconnectFails, Goes, Release, RelayTypeOK, RelayStates, Locs, LiveIsCurrent, HolderIsRetrying, RetryingLost, PhasesAgree, Retrying
<1>2. LiveIsCurrent'
  BY RelayAssumption DEF RelayInv, ReconnectFails, Goes, Release, RelayTypeOK, RelayStates, Locs, LiveIsCurrent, HolderIsRetrying, RetryingLost, PhasesAgree, Retrying
<1>3. HolderIsRetrying'
  BY RelayAssumption DEF RelayInv, ReconnectFails, Goes, Release, RelayTypeOK, RelayStates, Locs, LiveIsCurrent, HolderIsRetrying, RetryingLost, PhasesAgree, Retrying
<1>4. RetryingLost'
  BY RelayAssumption DEF RelayInv, ReconnectFails, Goes, Release, RelayTypeOK, RelayStates, Locs, LiveIsCurrent, HolderIsRetrying, RetryingLost, PhasesAgree, Retrying
<1>5. PhasesAgree'
  BY RelayAssumption DEF RelayInv, ReconnectFails, Goes, Release, RelayTypeOK, RelayStates, Locs, LiveIsCurrent, HolderIsRetrying, RetryingLost, PhasesAgree, Retrying
<1>q. QED BY <1>1, <1>2, <1>3, <1>4, <1>5 DEF RelayInv

LEMMA RelArrivesAgain ==
  ASSUME NEW c \in Call, RelayInv, ArrivesAgain(c)
  PROVE  RelayInv'
<1>1. RelayTypeOK'
  BY RelayAssumption DEF RelayInv, ArrivesAgain, Goes, relayOnly, RelayTypeOK, RelayStates, Locs, LiveIsCurrent, HolderIsRetrying, RetryingLost, PhasesAgree, Retrying
<1>2. LiveIsCurrent'
  BY RelayAssumption DEF RelayInv, ArrivesAgain, Goes, relayOnly, RelayTypeOK, RelayStates, Locs, LiveIsCurrent, HolderIsRetrying, RetryingLost, PhasesAgree, Retrying
<1>3. HolderIsRetrying'
  BY RelayAssumption DEF RelayInv, ArrivesAgain, Goes, relayOnly, RelayTypeOK, RelayStates, Locs, LiveIsCurrent, HolderIsRetrying, RetryingLost, PhasesAgree, Retrying
<1>4. RetryingLost'
  BY RelayAssumption DEF RelayInv, ArrivesAgain, Goes, relayOnly, RelayTypeOK, RelayStates, Locs, LiveIsCurrent, HolderIsRetrying, RetryingLost, PhasesAgree, Retrying
<1>5. PhasesAgree'
  BY RelayAssumption DEF RelayInv, ArrivesAgain, Goes, relayOnly, RelayTypeOK, RelayStates, Locs, LiveIsCurrent, HolderIsRetrying, RetryingLost, PhasesAgree, Retrying
<1>q. QED BY <1>1, <1>2, <1>3, <1>4, <1>5 DEF RelayInv

LEMMA RelAnsweredAgain ==
  ASSUME NEW c \in Call, RelayInv, AnsweredAgain(c)
  PROVE  RelayInv'
<1>1. RelayTypeOK'
  BY RelayAssumption DEF RelayInv, AnsweredAgain, Goes, Release, RelayTypeOK, RelayStates, Locs, LiveIsCurrent, HolderIsRetrying, RetryingLost, PhasesAgree, Retrying
<1>2. LiveIsCurrent'
  BY RelayAssumption DEF RelayInv, AnsweredAgain, Goes, Release, RelayTypeOK, RelayStates, Locs, LiveIsCurrent, HolderIsRetrying, RetryingLost, PhasesAgree, Retrying
<1>3. HolderIsRetrying'
  BY RelayAssumption DEF RelayInv, AnsweredAgain, Goes, Release, RelayTypeOK, RelayStates, Locs, LiveIsCurrent, HolderIsRetrying, RetryingLost, PhasesAgree, Retrying
<1>4. RetryingLost'
  BY RelayAssumption DEF RelayInv, AnsweredAgain, Goes, Release, RelayTypeOK, RelayStates, Locs, LiveIsCurrent, HolderIsRetrying, RetryingLost, PhasesAgree, Retrying
<1>5. PhasesAgree'
  BY RelayAssumption DEF RelayInv, AnsweredAgain, Goes, Release, RelayTypeOK, RelayStates, Locs, LiveIsCurrent, HolderIsRetrying, RetryingLost, PhasesAgree, Retrying
<1>q. QED BY <1>1, <1>2, <1>3, <1>4, <1>5 DEF RelayInv

LEMMA RelRetryFails ==
  ASSUME NEW c \in Call, RelayInv, RetryFails(c)
  PROVE  RelayInv'
<1>1. RelayTypeOK'
  BY RelayAssumption DEF RelayInv, RetryFails, Release, RelayTypeOK, RelayStates, Locs, LiveIsCurrent, HolderIsRetrying, RetryingLost, PhasesAgree, Retrying
<1>2. LiveIsCurrent'
  BY RelayAssumption DEF RelayInv, RetryFails, Release, RelayTypeOK, RelayStates, Locs, LiveIsCurrent, HolderIsRetrying, RetryingLost, PhasesAgree, Retrying
<1>3. HolderIsRetrying'
  BY RelayAssumption DEF RelayInv, RetryFails, Release, RelayTypeOK, RelayStates, Locs, LiveIsCurrent, HolderIsRetrying, RetryingLost, PhasesAgree, Retrying
<1>4. RetryingLost'
  BY RelayAssumption DEF RelayInv, RetryFails, Release, RelayTypeOK, RelayStates, Locs, LiveIsCurrent, HolderIsRetrying, RetryingLost, PhasesAgree, Retrying
<1>5. PhasesAgree'
  BY RelayAssumption DEF RelayInv, RetryFails, Release, RelayTypeOK, RelayStates, Locs, LiveIsCurrent, HolderIsRetrying, RetryingLost, PhasesAgree, Retrying
<1>q. QED BY <1>1, <1>2, <1>3, <1>4, <1>5 DEF RelayInv

LEMMA RelDrop ==
  ASSUME NEW s \in Session, RelayInv, Drop(s)
  PROVE  RelayInv'
<1>1. RelayTypeOK'
  BY RelayAssumption DEF RelayInv, Drop, RelayTypeOK, RelayStates, Locs, LiveIsCurrent, HolderIsRetrying, RetryingLost, PhasesAgree, Retrying
<1>2. LiveIsCurrent'
  BY RelayAssumption DEF RelayInv, Drop, RelayTypeOK, RelayStates, Locs, LiveIsCurrent, HolderIsRetrying, RetryingLost, PhasesAgree, Retrying
<1>3. HolderIsRetrying'
  BY RelayAssumption DEF RelayInv, Drop, RelayTypeOK, RelayStates, Locs, LiveIsCurrent, HolderIsRetrying, RetryingLost, PhasesAgree, Retrying
<1>4. RetryingLost'
  BY RelayAssumption DEF RelayInv, Drop, RelayTypeOK, RelayStates, Locs, LiveIsCurrent, HolderIsRetrying, RetryingLost, PhasesAgree, Retrying
<1>5. PhasesAgree'
  BY RelayAssumption DEF RelayInv, Drop, RelayTypeOK, RelayStates, Locs, LiveIsCurrent, HolderIsRetrying, RetryingLost, PhasesAgree, Retrying
<1>q. QED BY <1>1, <1>2, <1>3, <1>4, <1>5 DEF RelayInv

LEMMA RelStopServing ==
  ASSUME RelayInv, StopServing
  PROVE  RelayInv'
<1>1. RelayTypeOK'
  BY RelayAssumption DEF RelayInv, StopServing, RelayTypeOK, RelayStates, Locs, LiveIsCurrent, HolderIsRetrying, RetryingLost, PhasesAgree, Retrying
<1>2. LiveIsCurrent'
  BY RelayAssumption DEF RelayInv, StopServing, RelayTypeOK, RelayStates, Locs, LiveIsCurrent, HolderIsRetrying, RetryingLost, PhasesAgree, Retrying
<1>3. HolderIsRetrying'
  BY RelayAssumption DEF RelayInv, StopServing, RelayTypeOK, RelayStates, Locs, LiveIsCurrent, HolderIsRetrying, RetryingLost, PhasesAgree, Retrying
<1>4. RetryingLost'
  BY RelayAssumption DEF RelayInv, StopServing, RelayTypeOK, RelayStates, Locs, LiveIsCurrent, HolderIsRetrying, RetryingLost, PhasesAgree, Retrying
<1>5. PhasesAgree'
  BY RelayAssumption DEF RelayInv, StopServing, RelayTypeOK, RelayStates, Locs, LiveIsCurrent, HolderIsRetrying, RetryingLost, PhasesAgree, Retrying
<1>q. QED BY <1>1, <1>2, <1>3, <1>4, <1>5 DEF RelayInv

LEMMA RelClose ==
  ASSUME RelayInv, Close
  PROVE  RelayInv'
<1>1. RelayTypeOK'
  BY RelayAssumption DEF RelayInv, Close, RelayTypeOK, RelayStates, Locs, LiveIsCurrent, HolderIsRetrying, RetryingLost, PhasesAgree, Retrying
<1>2. LiveIsCurrent'
  BY RelayAssumption DEF RelayInv, Close, RelayTypeOK, RelayStates, Locs, LiveIsCurrent, HolderIsRetrying, RetryingLost, PhasesAgree, Retrying
<1>3. HolderIsRetrying'
  BY RelayAssumption DEF RelayInv, Close, RelayTypeOK, RelayStates, Locs, LiveIsCurrent, HolderIsRetrying, RetryingLost, PhasesAgree, Retrying
<1>4. RetryingLost'
  BY RelayAssumption DEF RelayInv, Close, RelayTypeOK, RelayStates, Locs, LiveIsCurrent, HolderIsRetrying, RetryingLost, PhasesAgree, Retrying
<1>5. PhasesAgree'
  BY RelayAssumption DEF RelayInv, Close, RelayTypeOK, RelayStates, Locs, LiveIsCurrent, HolderIsRetrying, RetryingLost, PhasesAgree, Retrying
<1>q. QED BY <1>1, <1>2, <1>3, <1>4, <1>5 DEF RelayInv

LEMMA RelUnchanged == ASSUME RelayInv, UNCHANGED relayVars PROVE RelayInv'
BY DEF RelayInv, relayVars, RelayTypeOK, LiveIsCurrent, HolderIsRetrying, RetryingLost,
       PhasesAgree

LEMMA RelCrash == ASSUME RelayInv, DaemonCrash PROVE RelayInv'
<1>1. RelayTypeOK'
  BY DEF RelayInv, DaemonCrash, RelayTypeOK
<1>2. LiveIsCurrent' /\ HolderIsRetrying' /\ RetryingLost' /\ PhasesAgree'
  BY DEF RelayInv, DaemonCrash, RelayTypeOK, LiveIsCurrent, HolderIsRetrying, RetryingLost,
         PhasesAgree, Retrying
<1>q. QED BY <1>1, <1>2 DEF RelayInv

----------------------------------------------------------------------------
LEMMA RelInit == Init => RelayInv
BY RelayAssumption DEF Init, RelayInit, RelayInv, RelayTypeOK, LiveIsCurrent,
   HolderIsRetrying, RetryingLost, PhasesAgree, RelayStates, Locs, Retrying

LEMMA RelCallStep ==
  ASSUME RelayInv, NEW c \in Call, CallStep(c)
  PROVE  RelayInv'
<1>1. CASE RequestArrives(c)
  BY <1>1, RelArrives DEF RequestArrives
<1>2. CASE AnswerArrives(c)
  BY <1>2, RelAnswered, RelAnsweredAgain DEF AnswerArrives
<1>3. CASE RelayStep(c)
  BY <1>3, RelConnectionClosed, RelLock, RelRetryFails DEF RelayStep
<1>4. CASE RelayReconnectFails(c)
  BY <1>4, RelReconnectFails DEF RelayReconnectFails
<1>5. CASE RequestArrivesAgain(c)
  BY <1>5, RelArrivesAgain DEF RequestArrivesAgain
<1>6. ASSUME NEW s \in Session, RelayReconnects(c, s) PROVE RelayInv'
  BY <1>6, RelReconnect DEF RelayReconnects
<1>q. QED BY <1>1, <1>2, <1>3, <1>4, <1>5, <1>6 DEF CallStep

LEMMA RelNext == RelayInv /\ [Next]_vars => RelayInv'
<1> SUFFICES ASSUME RelayInv, [Next]_vars PROVE RelayInv'
  OBVIOUS
<1>1. CASE Reload \/ DaemonStart \/ Resolve
  BY <1>1, RelUnchanged DEF Reload, DaemonStart, Resolve
<1>2. CASE DaemonCrash
  BY <1>2, RelCrash
<1>3. ASSUME NEW r \in Request, DaemonStep(r) \/ AnswerNobody(r) PROVE RelayInv'
  BY <1>3, RelUnchanged DEF DaemonStep, AnswerNobody
<1>4. ASSUME NEW s \in Session, RelayConnects(s) PROVE RelayInv'
  BY <1>4, RelConnect DEF RelayConnects
<1>5. CASE RelayConnectFails
  BY <1>5, RelConnectFails DEF RelayConnectFails
<1>6. CASE RelayLists
  BY <1>6, RelList DEF RelayLists
<1>7. CASE RelaySteps
  BY <1>7, RelListFails, RelStopServing, RelClose, RelGiveUp, RelRetryFails, RelDrop
  DEF RelaySteps
<1>8. ASSUME NEW c \in Call, RelayCalls(c) PROVE RelayInv'
  BY <1>8, RelCallTool DEF RelayCalls
<1>9. ASSUME NEW c \in Call, CallStep(c) PROVE RelayInv'
  BY <1>9, RelCallStep
<1>10. CASE UNCHANGED vars
  BY <1>10, RelUnchanged DEF vars
<1>q. QED BY <1>1, <1>2, <1>3, <1>4, <1>5, <1>6, <1>7, <1>8, <1>9, <1>10 DEF Next

(* The relay never leaks a connection, and never holds one after its exit. *)
THEOREM OneSessionHolds == Spec => []OneSession
<1>1. RelayInv => OneSession
  BY DEF RelayInv, LiveIsCurrent, OneSession
<1>q. QED BY <1>1, RelInit, RelNext, PTL DEF Spec

(* A call is sent again only after the connection of its first attempt was *)
(* lost, over a session that is not the one it was lost on.                *)
THEOREM RetriedOnlyAfterLossHolds == Spec => []RetriedOnlyAfterLoss
<1>1. RelayInv => RetriedOnlyAfterLoss
  BY DEF RelayInv, HolderIsRetrying, RetryingLost, RetriedOnlyAfterLoss, Retrying
<1>q. QED BY <1>1, RelInit, RelNext, PTL DEF Spec

(* daemonConn.mu is held by a call that is dialling or sending again, and  *)
(* by no other: whoever has returned, with or without an error, holds it   *)
(* no longer.                                                              *)
THEOREM OnlyRetryingHoldMutex == Spec => []HolderIsRetrying
<1>1. RelayInv => HolderIsRetrying
  BY DEF RelayInv
<1>q. QED BY <1>1, RelInit, RelNext, PTL DEF Spec

-----------------------------------------------------------------------------
(* Requests.  A request is a record with the fields of Idle; that much of  *)
(* its type the proofs need.                                               *)
Shaped(q) == q = [f \in DOMAIN Idle |-> q[f]]

ReqShape ==
  /\ req = [r \in Request |-> req[r]]
  /\ \A r \in Request : Shaped(req[r])

LEMMA IdleFields ==
  /\ DOMAIN Idle = {"at", "entry", "rules", "hook", "todo", "pre", "fired", "value",
                    "script", "outcome", "kept"}
  /\ Shaped(Idle)
BY DEF Idle, Shaped

(* A step of one request that leaves its entry and its count alone.        *)
Moves(r, to, scripts) ==
  \E q : /\ Shaped(q) /\ req' = [req EXCEPT ![r] = q]
         /\ q.entry = req[r].entry /\ q.kept = req[r].kept
         /\ q.at \in to /\ q.script \in scripts

LEMMA MovesForward ==
  ASSUME ReqShape, NEW r \in Request, Forward(r)
  PROVE  Moves(r, {"call"}, {req[r].script})
<1> DEFINE q == [req[r] EXCEPT !.at = "call"]
<1>1. Shaped(req[r]) /\ req' = [req EXCEPT ![r] = q]
  BY DEF Forward, ReqShape
<1>2. /\ Shaped(q) /\ q.at \in {"call"} /\ q.script \in {req[r].script}
      /\ q.entry = req[r].entry /\ q.kept = req[r].kept
  BY <1>1, IdleFields DEF Shaped
<1> HIDE DEF q
<1>3. QED BY <1>1, <1>2 DEF Moves

LEMMA MovesCallFails ==
  ASSUME ReqShape, NEW r \in Request, CallFails(r)
  PROVE  Moves(r, {"record"}, {req[r].script})
<1> DEFINE q == [req[r] EXCEPT !.at = "record", !.outcome = "error"]
<1>1. Shaped(req[r]) /\ req' = [req EXCEPT ![r] = q]
  BY DEF CallFails, ReqShape
<1>2. /\ Shaped(q) /\ q.at \in {"record"} /\ q.script \in {req[r].script}
      /\ q.entry = req[r].entry /\ q.kept = req[r].kept
  BY <1>1, IdleFields DEF Shaped
<1> HIDE DEF q
<1>3. QED BY <1>1, <1>2 DEF Moves

LEMMA MovesRecord ==
  ASSUME ReqShape, NEW r \in Request, Record(r)
  PROVE  Moves(r, {"count"}, {req[r].script})
<1> DEFINE q == [req[r] EXCEPT !.at = "count"]
<1>1. Shaped(req[r]) /\ req' = [req EXCEPT ![r] = q]
  BY DEF Record, ReqShape
<1>2. /\ Shaped(q) /\ q.at \in {"count"} /\ q.script \in {req[r].script}
      /\ q.entry = req[r].entry /\ q.kept = req[r].kept
  BY <1>1, IdleFields DEF Shaped
<1> HIDE DEF q
<1>3. QED BY <1>1, <1>2 DEF Moves

LEMMA MovesSaveTmp ==
  ASSUME ReqShape, NEW r \in Request, SaveTmp(r)
  PROVE  Moves(r, {"rename"}, {req[r].script})
<1> DEFINE q == [req[r] EXCEPT !.at = "rename"]
<1>1. Shaped(req[r]) /\ req' = [req EXCEPT ![r] = q]
  BY DEF SaveTmp, ReqShape
<1>2. /\ Shaped(q) /\ q.at \in {"rename"} /\ q.script \in {req[r].script}
      /\ q.entry = req[r].entry /\ q.kept = req[r].kept
  BY <1>1, IdleFields DEF Shaped
<1> HIDE DEF q
<1>3. QED BY <1>1, <1>2 DEF Moves

LEMMA MovesDecline ==
  ASSUME ReqShape, NEW r \in Request, Decline(r)
  PROVE  Moves(r, {"answer"}, {req[r].script})
<1> DEFINE q == [req[r] EXCEPT !.at = "answer", !.outcome = "local"]
<1>1. Shaped(req[r]) /\ req' = [req EXCEPT ![r] = q]
  BY DEF Decline, ReqShape
<1>2. /\ Shaped(q) /\ q.at \in {"answer"} /\ q.script \in {req[r].script}
      /\ q.entry = req[r].entry /\ q.kept = req[r].kept
  BY <1>1, IdleFields DEF Shaped
<1> HIDE DEF q
<1>3. QED BY <1>1, <1>2 DEF Moves

LEMMA MovesInterrupt ==
  ASSUME ReqShape, NEW r \in Request, Interrupt(r)
  PROVE  Moves(r, {"reap"}, {req[r].script})
<1> DEFINE q == [req[r] EXCEPT !.at = "reap"]
<1>1. Shaped(req[r]) /\ req' = [req EXCEPT ![r] = q]
  BY DEF Interrupt, ReqShape
<1>2. /\ Shaped(q) /\ q.at \in {"reap"} /\ q.script \in {req[r].script}
      /\ q.entry = req[r].entry /\ q.kept = req[r].kept
  BY <1>1, IdleFields DEF Shaped
<1> HIDE DEF q
<1>3. QED BY <1>1, <1>2 DEF Moves

LEMMA MovesKill ==
  ASSUME ReqShape, NEW r \in Request, Kill(r)
  PROVE  Moves(r, {req[r].at}, {"fail"})
<1> DEFINE q == [req[r] EXCEPT !.script = "fail"]
<1>1. Shaped(req[r]) /\ req' = [req EXCEPT ![r] = q]
  BY DEF Kill, ReqShape
<1>2. /\ Shaped(q) /\ q.at \in {req[r].at} /\ q.script \in {"fail"}
      /\ q.entry = req[r].entry /\ q.kept = req[r].kept
  BY <1>1, IdleFields DEF Shaped
<1> HIDE DEF q
<1>3. QED BY <1>1, <1>2 DEF Moves

LEMMA MovesStartRule ==
  ASSUME ReqShape, NEW r \in Request, StartRule(r)
  PROVE  Moves(r, {"script"}, {"running"})
<1> DEFINE q == [req[r] EXCEPT
       !.at = "script", !.script = "running",
       !.fired = Append(@, [rule |-> Head(req[r].todo), verdict |-> "none"])]
<1>1. Shaped(req[r]) /\ req' = [req EXCEPT ![r] = q]
  BY DEF StartRule, ReqShape
<1>2. /\ Shaped(q) /\ q.at \in {"script"} /\ q.script \in {"running"}
      /\ q.entry = req[r].entry /\ q.kept = req[r].kept
  BY <1>1, IdleFields DEF Shaped
<1> HIDE DEF q
<1>3. QED BY <1>1, <1>2 DEF Moves

LEMMA MovesReturn ==
  ASSUME ReqShape, NEW r \in Request, Return(r)
  PROVE  Moves(r, {"hook"}, {req[r].script})
<1> DEFINE q == [req[r] EXCEPT
       !.at = "hook", !.hook = "post", !.outcome = "result",
       !.todo = Applicable(req[r].rules, "post", req[r].entry),
       !.pre = req[r].fired, !.fired = <<>>, !.value = <<>>]
<1>1. Shaped(req[r]) /\ req' = [req EXCEPT ![r] = q]
  BY DEF Return, ReqShape
<1>2. /\ Shaped(q) /\ q.at \in {"hook"} /\ q.script \in {req[r].script}
      /\ q.entry = req[r].entry /\ q.kept = req[r].kept
  BY <1>1, IdleFields DEF Shaped
<1> HIDE DEF q
<1>3. QED BY <1>1, <1>2 DEF Moves

LEMMA MovesScriptEnds ==
  ASSUME ReqShape, NEW r \in Request, ScriptEnds(r)
  PROVE  Moves(r, {req[r].at}, Output)
<1>1. PICK out \in Output : req' = [req EXCEPT ![r].script = out]
  BY DEF ScriptEnds
<1> DEFINE q == [req[r] EXCEPT !.script = out]
<1>2. Shaped(req[r]) /\ req' = [req EXCEPT ![r] = q]
  BY <1>1 DEF ReqShape
<1>3. /\ Shaped(q) /\ q.at \in {req[r].at} /\ q.script \in Output
      /\ q.entry = req[r].entry /\ q.kept = req[r].kept
  BY <1>2, IdleFields DEF Shaped
<1> HIDE DEF q
<1>4. QED BY <1>2, <1>3 DEF Moves

LEMMA MovesPostDone ==
  ASSUME ReqShape, NEW r \in Request, PostDone(r)
  PROVE  Moves(r, {"record"}, {req[r].script})
<1>1. PICK result \in {"result", "error"} : req' = [req EXCEPT ![r].at = "record", ![r].outcome = result]
  BY DEF PostDone
<1> DEFINE q == [req[r] EXCEPT !.at = "record", !.outcome = result]
<1>2. Shaped(req[r]) /\ req' = [req EXCEPT ![r] = q]
  BY <1>1 DEF ReqShape
<1>3. /\ Shaped(q) /\ q.at \in {"record"} /\ q.script \in {req[r].script}
      /\ q.entry = req[r].entry /\ q.kept = req[r].kept
  BY <1>2, IdleFields DEF Shaped
<1> HIDE DEF q
<1>4. QED BY <1>2, <1>3 DEF Moves

(* What RunHook makes of an output has no script left.                     *)
LEMMA RanIs ==
  ASSUME NEW q, Shaped(q), NEW out
  PROVE  /\ Shaped(Ran(q, out)) /\ Ran(q, out).script = "none"
         /\ Ran(q, out).at \in {"hook", "record"}
         /\ Ran(q, out).entry = q.entry /\ Ran(q, out).kept = q.kept
<1> DEFINE v == Verdict(q, out)
<1>1. Shaped(v) /\ v.script = "none" /\ v.entry = q.entry /\ v.kept = q.kept
  BY IdleFields DEF Verdict, Shaped
<1>2. Ran(q, out) \in {[v EXCEPT !.at = "record", !.outcome = "rejected", !.todo = <<>>]}
        \/ \E t, x : Ran(q, out) = [v EXCEPT !.at = "hook", !.todo = t, !.value = x]
  BY DEF Ran
<1>3. QED BY <1>1, <1>2, IdleFields DEF Shaped

LEMMA MovesRan ==
  ASSUME ReqShape, NEW r \in Request, TakeOutput(r) \/ Reap(r)
  PROVE  Moves(r, {"hook", "record"}, {"none"})
<1>1. \E out : req' = [req EXCEPT ![r] = Ran(req[r], out)]
  BY DEF TakeOutput, Reap
<1>2. PICK out : req' = [req EXCEPT ![r] = Ran(req[r], out)]
  BY <1>1
<1>3. Shaped(req[r])
  BY DEF ReqShape
<1> DEFINE q == Ran(req[r], out)
<1>4. req' = [req EXCEPT ![r] = q]
  BY <1>2
<1>5. /\ Shaped(q) /\ q.script = "none" /\ q.at \in {"hook", "record"}
      /\ q.entry = req[r].entry /\ q.kept = req[r].kept
  BY <1>3, RanIs
<1> HIDE DEF q
<1>6. QED BY <1>4, <1>5 DEF Moves

(* A call that begins has its entry from then on.                          *)
LEMMA BeginIs ==
  ASSUME ReqShape, NEW r \in Request, NEW entry, NEW rules, Begin(r, entry, rules)
  PROVE  \E q : /\ Shaped(q) /\ req' = [req EXCEPT ![r] = q]
                /\ q.entry = entry /\ q.kept = req[r].kept
                /\ q.at = "hook" /\ q.script = req[r].script
<1> DEFINE q == [req[r] EXCEPT !.at = "hook", !.entry = entry, !.rules = rules,
                               !.todo = Applicable(rules, "pre", entry)]
<1>1. Shaped(req[r]) /\ req' = [req EXCEPT ![r] = q]
  BY DEF Begin, ReqShape
<1>2. /\ Shaped(q) /\ q.at = "hook" /\ q.script = req[r].script
      /\ q.entry = entry /\ q.kept = req[r].kept
  BY <1>1, IdleFields DEF Shaped
<1> HIDE DEF q
<1>3. QED BY <1>1, <1>2

LEMMA CountIs ==
  ASSUME ReqShape, NEW r \in Request, Counted(r)
  PROVE  \E q : /\ Shaped(q) /\ req' = [req EXCEPT ![r] = q]
                /\ q.entry = req[r].entry /\ q.kept = "memory"
                /\ q.at = "save" /\ q.script = req[r].script
<1> DEFINE q == [req[r] EXCEPT !.at = "save", !.kept = "memory"]
<1>1. Shaped(req[r]) /\ req' = [req EXCEPT ![r] = q]
  BY DEF Counted, ReqShape
<1>2. /\ Shaped(q) /\ q.at = "save" /\ q.script = req[r].script
      /\ q.entry = req[r].entry /\ q.kept = "memory"
  BY <1>1, IdleFields DEF Shaped
<1> HIDE DEF q
<1>3. QED BY <1>1, <1>2

LEMMA SaveFailsIs ==
  ASSUME ReqShape, NEW r \in Request, SaveFails(r)
  PROVE  \E q : /\ Shaped(q) /\ req' = [req EXCEPT ![r] = q]
                /\ q.entry = req[r].entry /\ q.kept = "unsaved"
                /\ q.at = "answer" /\ q.script = req[r].script
<1> DEFINE q == [req[r] EXCEPT !.at = "answer", !.kept = "unsaved"]
<1>1. Shaped(req[r]) /\ req' = [req EXCEPT ![r] = q]
  BY DEF SaveFails, ReqShape
<1>2. /\ Shaped(q) /\ q.at = "answer" /\ q.script = req[r].script
      /\ q.entry = req[r].entry /\ q.kept = "unsaved"
  BY <1>1, IdleFields DEF Shaped
<1> HIDE DEF q
<1>3. QED BY <1>1, <1>2

(* The history of a count, and the end of a handler.                       *)
LEMMA KeptIs ==
  ASSUME NEW q, Shaped(q), NEW from, NEW to
  PROVE  /\ Shaped(Kept(q, from, to))
         /\ Kept(q, from, to).script = q.script /\ Kept(q, from, to).at = q.at
         /\ Kept(q, from, to).entry = q.entry /\ Kept(q, from, to).outcome = q.outcome
         /\ Kept(q, from, to).kept = IF q.kept \in from THEN to ELSE q.kept
BY IdleFields DEF Kept, Shaped

LEMMA EndedIs ==
  ASSUME NEW q, NEW where
  PROVE  /\ Shaped(Ended(q, where)) /\ Ended(q, where).script = "none"
         /\ Ended(q, where).at = where /\ Ended(q, where).entry = q.entry
         /\ Ended(q, where).kept = q.kept /\ Ended(q, where).outcome = q.outcome
<1> DEFINE e == [Idle EXCEPT !.at = where, !.entry = q.entry, !.outcome = q.outcome,
                             !.kept = q.kept]
<1>1. Idle.script = "none"
  BY DEF Idle
<1>2. /\ Shaped(e) /\ e.script = "none" /\ e.at = where /\ e.entry = q.entry
      /\ e.kept = q.kept /\ e.outcome = q.outcome
  BY <1>1, IdleFields DEF Shaped
<1>3. QED BY <1>2 DEF Ended

LEMMA AnswerIs ==
  ASSUME ReqShape, NEW r \in Request, Answer(r)
  PROVE  /\ Moves(r, {"done"}, {"none"})
         /\ req'[r].outcome = req[r].outcome
<1> DEFINE q == Ended(req[r], "done")
<1>1. req' = [req EXCEPT ![r] = q] /\ req'[r] = q
  BY DEF Answer, ReqShape
<1>2. /\ Shaped(q) /\ q.script = "none" /\ q.at = "done"
      /\ q.entry = req[r].entry /\ q.kept = req[r].kept /\ q.outcome = req[r].outcome
  BY EndedIs
<1> HIDE DEF q
<1>3. QED BY <1>1, <1>2 DEF Moves

(* A save that succeeds makes up for those that failed; a crash takes what *)
(* is not in the file.                                                     *)
LEMMA RenameIs ==
  ASSUME ReqShape, NEW r \in Request, Rename(r)
  PROVE  /\ ReqShape'
         /\ \A x \in Request :
              /\ req'[x].entry = req[x].entry /\ req'[x].outcome = req[x].outcome
              /\ req'[x].script = req[x].script
              /\ req'[x].at = IF x = r THEN "answer" ELSE req[x].at
              /\ req'[x].kept = IF req[x].kept \in {"memory", "unsaved"} THEN "disk"
                               ELSE req[x].kept
<1> DEFINE K(x) == Kept(req[x], {"memory", "unsaved"}, "disk")
<1>1. req' = [x \in Request |-> IF x = r THEN [K(x) EXCEPT !.at = "answer"] ELSE K(x)]
  BY DEF Rename
<1>2. \A x \in Request :
        /\ Shaped(K(x)) /\ K(x).script = req[x].script /\ K(x).at = req[x].at
        /\ K(x).entry = req[x].entry /\ K(x).outcome = req[x].outcome
        /\ K(x).kept = IF req[x].kept \in {"memory", "unsaved"} THEN "disk" ELSE req[x].kept
  BY KeptIs DEF ReqShape
<1> DEFINE q == [K(r) EXCEPT !.at = "answer"]
<1>3. /\ Shaped(q) /\ q.at = "answer" /\ q.script = K(r).script /\ q.entry = K(r).entry
      /\ q.outcome = K(r).outcome /\ q.kept = K(r).kept
  BY <1>2, IdleFields DEF Shaped
<1>4. req' = [x \in Request |-> IF x = r THEN q ELSE K(x)]
  BY <1>1
<1> HIDE DEF K, q
<1>5. QED BY <1>2, <1>3, <1>4 DEF ReqShape

LEMMA CrashIs ==
  ASSUME ReqShape, Crash
  PROVE  /\ ReqShape'
         /\ \A x \in Request :
              /\ req'[x].entry = req[x].entry /\ req'[x].outcome = req[x].outcome
              /\ req'[x].at = IF Active(x) THEN "gone" ELSE req[x].at
              /\ req'[x].script = IF Active(x) THEN "none" ELSE req[x].script
              /\ req'[x].kept = IF req[x].kept \in {"memory", "unsaved"} THEN "lost"
                               ELSE req[x].kept
<1> DEFINE K(x) == Kept(req[x], {"memory", "unsaved"}, "lost")
           E(x) == Ended(K(x), "gone")
<1>1. req' = [x \in Request |-> IF Active(x) THEN E(x) ELSE K(x)]
  BY DEF Crash
<1>2. \A x \in Request :
        /\ Shaped(K(x)) /\ K(x).script = req[x].script /\ K(x).at = req[x].at
        /\ K(x).entry = req[x].entry /\ K(x).outcome = req[x].outcome
        /\ K(x).kept = IF req[x].kept \in {"memory", "unsaved"} THEN "lost" ELSE req[x].kept
  BY KeptIs DEF ReqShape
<1> HIDE DEF K
<1>3. \A x \in Request :
        /\ Shaped(E(x)) /\ E(x).script = "none" /\ E(x).at = "gone"
        /\ E(x).entry = K(x).entry /\ E(x).outcome = K(x).outcome /\ E(x).kept = K(x).kept
  BY EndedIs
<1> HIDE DEF E
<1>4. QED BY <1>1, <1>2, <1>3 DEF ReqShape

-----------------------------------------------------------------------------
(* Which catalogs there are.                                               *)
LEMMA CataloguedIs ==
  ASSUME NEW config \in Config
  PROVE  /\ Catalogued(config) \in Seq(Entry)
         /\ DOMAIN Catalogued(config) = DOMAIN config.raw
<1>1. PICK raw, bare : raw = config.raw /\ bare = config.bare
  OBVIOUS
<1>2. raw \in Seq(RawTool)
  BY <1>1 DEF Config
<1>3. DOMAIN raw = 1 .. Len(raw) /\ Len(raw) \in Nat /\ \A i \in DOMAIN raw : raw[i] \in RawTool
  BY <1>2
<1> DEFINE entries == Build(raw, bare)
<1>4. ASSUME NEW i \in DOMAIN raw
      PROVE  entries[i] \in Entry
  <2>1. raw[i].server \in Server /\ raw[i].tool \in Name
    BY <1>3 DEF RawTool
  <2>2. NamespacedName(raw[i]) \in Name
    BY <2>1, CatalogAssumption DEF NamespacedName
  <2>3. CandidateName(raw[i], bare) \in {raw[i].tool, NamespacedName(raw[i])}
    BY DEF CandidateName
  <2>4. \E n \in {CandidateName(raw[i], bare), NamespacedName(raw[i])} :
          entries[i] = [server |-> raw[i].server, tool |-> raw[i].tool, exposed |-> n]
    BY DEF Build
  <2>5. QED BY <2>1, <2>2, <2>3, <2>4 DEF Entry
<1>5. DOMAIN entries = DOMAIN raw /\ entries = [i \in 1 .. Len(raw) |-> entries[i]]
  BY <1>3 DEF Build
<1>6. Catalogued(config) = entries
  BY <1>1 DEF Catalogued
<1> HIDE DEF entries
<1>7. entries \in Seq(Entry)
  BY <1>3, <1>4, <1>5
<1>8. QED BY <1>1, <1>5, <1>6, <1>7

LEMMA EntriesAre ==
  ASSUME NEW entries \in Seq(Entry)
  PROVE  /\ DOMAIN entries = 1 .. Len(entries) /\ Len(entries) \in Nat
         /\ \A i \in DOMAIN entries : entries[i] \in Entry /\ entries[i].exposed \in Name
<1>1. /\ DOMAIN entries = 1 .. Len(entries) /\ Len(entries) \in Nat
      /\ \A i \in DOMAIN entries : entries[i] \in Entry
  OBVIOUS
<1>2. \A e \in Entry : e.exposed \in Name
  BY DEF Entry
<1>3. QED BY <1>1, <1>2

(* A map by name has an entry for every name, which bears it.              *)
LEMMA ByNameIs ==
  ASSUME NEW entries \in Seq(Entry)
  PROVE  /\ DOMAIN ByName(entries) = Names(entries)
         /\ \A n \in Names(entries) :
              /\ \E i \in DOMAIN entries : ByName(entries)[n] = entries[i]
              /\ ByName(entries)[n].exposed = n
<1> SUFFICES ASSUME NEW n \in Names(entries)
             PROVE  /\ \E i \in DOMAIN entries : Latest(entries, n) = entries[i]
                    /\ Latest(entries, n).exposed = n
  BY DEF ByName
<1> DEFINE I == {i \in DOMAIN entries : entries[i].exposed = n}
           Last(i) == i \in I /\ \A j \in I : j <= i
<1>1. I # {} /\ I \subseteq DOMAIN entries
  BY DEF Names
<1>2. \E i \in DOMAIN entries : Last(i)
  <2> HIDE DEF I
  <2>1. PICK i \in I : \A j \in I : j <= i
    BY <1>1, LastOf
  <2>2. QED BY <1>1, <2>1
<1>3. Latest(entries, n) = entries[CHOOSE i \in DOMAIN entries : Last(i)]
  <2>1. \A i \in DOMAIN entries : Last(i) <=>
          /\ entries[i].exposed = n
          /\ \A j \in DOMAIN entries : entries[j].exposed = n => j <= i
    OBVIOUS
  <2> HIDE DEF Last
  <2>2. QED BY <2>1 DEF Latest
<1>4. PICK i \in DOMAIN entries : Last(i) /\ Latest(entries, n) = entries[i]
  <2> HIDE DEF Last
  <2>1. QED BY <1>2, <1>3
<1>5. QED BY <1>4

Elements(entries) == {entries[i] : i \in DOMAIN entries}

(* The entries a profile permits, in their order.                          *)
LEMMA FilterEntriesIs ==
  ASSUME NEW entries \in Seq(Entry), NEW profile
  PROVE  /\ FilterEntries(entries, profile) \in Seq(Entry)
         /\ Len(FilterEntries(entries, profile)) =
              Cardinality({i \in DOMAIN entries : Allowed(profile, entries[i].exposed)})
<1> DEFINE T == {e \in Entry : Allowed(profile, e.exposed)}
<1>1. Where(entries, T) = {i \in DOMAIN entries : Allowed(profile, entries[i].exposed)}
  BY DEF Where
<1>2. FilterEntries(entries, profile) = Only(entries, T)
  BY DEF FilterEntries
<1> HIDE DEF T
<1>3. Only(entries, T) \in Seq(Entry) /\ Len(Only(entries, T)) = Cardinality(Where(entries, T))
  BY OnlyIs
<1>4. QED BY <1>1, <1>2, <1>3

(* mine is what entries has at the positions I: at says where each stood.  *)
PicksFrom(mine, entries, I, at) ==
  /\ \A k \in DOMAIN mine : at[k] \in I /\ mine[k] = entries[at[k]]
  /\ \A i \in I : \E k \in DOMAIN mine : at[k] = i
  /\ \A k, l \in DOMAIN mine : k < l <=> at[k] < at[l]

LEMMA FilterEntriesPlaces ==
  ASSUME NEW entries \in Seq(Entry), NEW profile, NEW I,
         I = {i \in DOMAIN entries : Allowed(profile, entries[i].exposed)}
  PROVE  \E at : PicksFrom(FilterEntries(entries, profile), entries, I, at)
<1> DEFINE T == {e \in Entry : Allowed(profile, e.exposed)}
<1>1. Where(entries, T) = I
  BY DEF Where
<1>2. PICK mine : mine = FilterEntries(entries, profile) /\ mine = Only(entries, T)
  BY DEF FilterEntries
<1> HIDE DEF T
<1>3. PICK at : /\ \A k \in DOMAIN Only(entries, T) :
                     at[k] \in Where(entries, T) /\ Only(entries, T)[k] = entries[at[k]]
                /\ \A i \in Where(entries, T) : \E k \in DOMAIN Only(entries, T) : at[k] = i
                /\ \A k, l \in DOMAIN Only(entries, T) : k < l <=> at[k] < at[l]
  BY OnlyPicks
<1>4. PicksFrom(mine, entries, I, at)
  BY <1>1, <1>2, <1>3 DEF PicksFrom
<1>5. QED BY <1>2, <1>4

LEMMA FilteredElements ==
  ASSUME NEW entries \in Seq(Entry), NEW profile
  PROVE  Elements(FilterEntries(entries, profile)) =
           {entries[i] : i \in {j \in DOMAIN entries : Allowed(profile, entries[j].exposed)}}
<1> DEFINE T == {e \in Entry : Allowed(profile, e.exposed)}
<1>1. \A i \in DOMAIN entries : entries[i] \in T <=> Allowed(profile, entries[i].exposed)
  OBVIOUS
<1>2. FilterEntries(entries, profile) = Only(entries, T)
  BY DEF FilterEntries
<1> HIDE DEF T
<1>3. \A k \in DOMAIN Only(entries, T) :
        Only(entries, T)[k] \in T /\ \E i \in DOMAIN entries : Only(entries, T)[k] = entries[i]
  BY OnlyHolds
<1>4. \A i \in DOMAIN entries : entries[i] \in T =>
        \E k \in DOMAIN Only(entries, T) : Only(entries, T)[k] = entries[i]
  BY OnlyHolds
<1>5. PICK mine : mine = Only(entries, T)
  OBVIOUS
<1>6. Elements(mine) =
        {entries[i] : i \in {j \in DOMAIN entries : Allowed(profile, entries[j].exposed)}}
  BY <1>1, <1>3, <1>4, <1>5 DEF Elements
<1>7. QED BY <1>2, <1>5, <1>6

(* Sorted by usage the entries are the same, and those called more often   *)
(* come first.                                                             *)
LEMMA SortByUsageIs ==
  ASSUME NEW entries \in Seq(Entry), NEW used \in [Name -> Nat]
  PROVE  /\ SortByUsage(entries, used) \in Seq(Entry)
         /\ Len(SortByUsage(entries, used)) = Len(entries)
         /\ DOMAIN SortByUsage(entries, used) = DOMAIN entries
         /\ \A k \in DOMAIN entries : \E i \in DOMAIN entries :
              SortByUsage(entries, used)[k] = entries[i]
         /\ \A i \in DOMAIN entries : \E k \in DOMAIN entries :
              SortByUsage(entries, used)[k] = entries[i]
         /\ \A k, l \in DOMAIN entries : k < l =>
              used[SortByUsage(entries, used)[k].exposed]
                >= used[SortByUsage(entries, used)[l].exposed]
<1> DEFINE key == [i \in DOMAIN entries |-> -used[entries[i].exposed]]
           sorted == StableSort(entries, key)
           pos == Sorting(entries, key)
<1>1. DOMAIN entries = 1 .. Len(entries) /\ \A i \in DOMAIN entries : entries[i].exposed \in Name
  BY EntriesAre
<1>2. \A i \in DOMAIN entries : used[entries[i].exposed] \in Nat
                                /\ key[i] = -used[entries[i].exposed] /\ key[i] \in Int
  BY <1>1
<1>3. key \in [DOMAIN entries -> Int]
  BY <1>2
<1>4. SortByUsage(entries, used) = sorted
  BY DEF SortByUsage
<1> HIDE DEF key
<1>5. /\ sorted \in Seq(Entry) /\ Len(sorted) = Len(entries) /\ DOMAIN sorted = DOMAIN entries
      /\ \A k \in DOMAIN entries : \E i \in DOMAIN entries : sorted[k] = entries[i]
      /\ \A i \in DOMAIN entries : \E k \in DOMAIN entries : sorted[k] = entries[i]
  BY <1>3, StableSortHolds
<1>6. \A k \in 1 .. Len(entries) : pos[k] \in 1 .. Len(entries) /\ sorted[k] = entries[pos[k]]
  BY <1>3, StableSortIs
<1>7. \A k, l \in 1 .. Len(entries) : k < l => \/ key[pos[k]] < key[pos[l]]
                                               \/ key[pos[k]] = key[pos[l]] /\ pos[k] < pos[l]
  BY <1>3, StableSortIs
<1> HIDE DEF pos, sorted
<1>8. ASSUME NEW k \in DOMAIN entries, NEW l \in DOMAIN entries, k < l
      PROVE  used[sorted[k].exposed] >= used[sorted[l].exposed]
  <2>1. PICK i, j : i = pos[k] /\ j = pos[l]
    OBVIOUS
  <2>2. i \in DOMAIN entries /\ j \in DOMAIN entries /\ sorted[k] = entries[i] /\ sorted[l] = entries[j]
    BY <1>1, <1>6, <2>1
  <2>3. key[i] < key[j] \/ key[i] = key[j]
    BY <1>1, <1>7, <1>8, <2>1
  <2>4. -used[entries[i].exposed] <= -used[entries[j].exposed]
    BY <1>2, <2>2, <2>3
  <2>5. QED BY <1>2, <2>2, <2>4
<1>9. QED BY <1>4, <1>5, <1>8

(* Where each comes from: of two called as often the one that stood ahead  *)
(* stays ahead.                                                            *)
ByUsage(sorted, entries, used, at) ==
  /\ \A k \in DOMAIN entries : at[k] \in DOMAIN entries /\ sorted[k] = entries[at[k]]
  /\ \A i \in DOMAIN entries : \E k \in DOMAIN entries : at[k] = i
  /\ \A k, l \in DOMAIN entries : k < l =>
       \/ used[entries[at[k]].exposed] > used[entries[at[l]].exposed]
       \/ /\ used[entries[at[k]].exposed] = used[entries[at[l]].exposed]
          /\ at[k] < at[l]

LEMMA SortByUsagePlaces ==
  ASSUME NEW entries \in Seq(Entry), NEW used \in [Name -> Nat]
  PROVE  \E at : ByUsage(SortByUsage(entries, used), entries, used, at)
<1> DEFINE key == [i \in DOMAIN entries |-> -used[entries[i].exposed]]
<1>1. DOMAIN entries = 1 .. Len(entries) /\ \A i \in DOMAIN entries : entries[i].exposed \in Name
  BY EntriesAre
<1>2. \A i \in DOMAIN entries : used[entries[i].exposed] \in Nat
                                /\ key[i] = -used[entries[i].exposed] /\ key[i] \in Int
  BY <1>1
<1>3. key \in [DOMAIN entries -> Int]
  BY <1>2
<1>4. PICK sorted : sorted = SortByUsage(entries, used) /\ sorted = StableSort(entries, key)
  BY DEF SortByUsage
<1> HIDE DEF key
<1>5. PICK at : Sorted(sorted, entries, key, at)
  BY <1>3, <1>4, SortPicks
<1>6. ASSUME NEW k \in DOMAIN entries, NEW l \in DOMAIN entries, k < l
      PROVE  \/ used[entries[at[k]].exposed] > used[entries[at[l]].exposed]
             \/ /\ used[entries[at[k]].exposed] = used[entries[at[l]].exposed]
                /\ at[k] < at[l]
  <2>1. PICK i, j : i = at[k] /\ j = at[l]
    OBVIOUS
  <2>2. i \in DOMAIN entries /\ j \in DOMAIN entries
    BY <1>1, <1>5, <2>1 DEF Sorted
  <2>3. key[i] < key[j] \/ (key[i] = key[j] /\ i < j)
    BY <1>1, <1>5, <1>6, <2>1 DEF Sorted
  <2>4. \/ -used[entries[i].exposed] < -used[entries[j].exposed]
        \/ -used[entries[i].exposed] = -used[entries[j].exposed] /\ i < j
    BY <1>2, <2>2, <2>3
  <2>5. \/ used[entries[i].exposed] > used[entries[j].exposed]
        \/ used[entries[i].exposed] = used[entries[j].exposed] /\ i < j
    BY <1>2, <2>2, <2>4
  <2>6. QED BY <2>1, <2>5
<1>7. /\ \A k \in DOMAIN entries : at[k] \in DOMAIN entries /\ sorted[k] = entries[at[k]]
      /\ \A i \in DOMAIN entries : \E k \in DOMAIN entries : at[k] = i
  BY <1>1, <1>5 DEF Sorted
<1>8. ByUsage(sorted, entries, used, at)
  BY <1>6, <1>7 DEF ByUsage
<1>9. QED BY <1>4, <1>8

(* What a server offers of a set of entries: nothing else, under its own   *)
(* name, and all of it unless one is named call_deferred_tool.             *)
Offers(server, E) ==
  /\ \A n \in DOMAIN server.direct : server.direct[n] \in E /\ server.direct[n].exposed = n
  /\ \A n \in DOMAIN server.deferred : server.deferred[n] \in E /\ server.deferred[n].exposed = n
  /\ CallDeferredTool \notin {e.exposed : e \in E} =>
       \/ DOMAIN server.direct = {e.exposed : e \in E}
       \/ CallDeferredTool \in server.meta /\ DOMAIN server.deferred = {e.exposed : e \in E}

LEMMA ElementNames ==
  ASSUME NEW entries
  PROVE  {e.exposed : e \in Elements(entries)} = Names(entries)
BY DEF Elements, Names

LEMMA ByNameOffers ==
  ASSUME NEW entries \in Seq(Entry), NEW n \in DOMAIN ByName(entries)
  PROVE  ByName(entries)[n] \in Elements(entries) /\ ByName(entries)[n].exposed = n
BY ByNameIs DEF Elements

LEMMA ServerFields ==
  /\ EmptyServer.direct = <<>> /\ EmptyServer.meta = {} /\ EmptyServer.deferred = <<>>
  /\ DOMAIN EmptyServer = {"direct", "meta", "deferred"}
  /\ DOMAIN EmptyServer.direct = {} /\ DOMAIN EmptyServer.deferred = {}
BY DEF EmptyServer

LEMMA EmptyOffers == Offers(EmptyServer, {})
BY ServerFields DEF Offers

LEMMA BuildServerIs ==
  ASSUME NEW entries
  PROVE  /\ BuildServer(entries).direct = ByName(entries)
         /\ BuildServer(entries).meta = {}
         /\ DOMAIN BuildServer(entries).deferred = {}
         /\ DOMAIN BuildServer(entries) = {"direct", "meta", "deferred"}
BY ServerFields DEF BuildServer

LEMMA BuildServerOffers ==
  ASSUME NEW entries \in Seq(Entry)
  PROVE  Offers(BuildServer(entries), Elements(entries))
BY BuildServerIs, ByNameIs, ByNameOffers, ElementNames DEF Offers

(* The tools listed are the first of those sorted by usage.                *)
Shown(entries, limit, used) ==
  LET sorted == SortByUsage(entries, used)
  IN  IF limit < Len(sorted) THEN SubSeq(sorted, 1, limit) ELSE sorted

LEMMA ShownIs ==
  ASSUME NEW entries \in Seq(Entry), NEW limit \in Nat, NEW used \in [Name -> Nat]
  PROVE  /\ Shown(entries, limit, used) \in Seq(Entry)
         /\ Len(Shown(entries, limit, used)) =
              IF limit < Len(entries) THEN limit ELSE Len(entries)
         /\ \A k \in DOMAIN Shown(entries, limit, used) :
              /\ k \in DOMAIN entries
              /\ Shown(entries, limit, used)[k] = SortByUsage(entries, used)[k]
<1>1. PICK sorted : sorted = SortByUsage(entries, used)
  OBVIOUS
<1>2. sorted \in Seq(Entry) /\ Len(sorted) = Len(entries) /\ Len(sorted) \in Nat
  BY <1>1, SortByUsageIs
<1>3. Shown(entries, limit, used) = IF limit < Len(sorted) THEN SubSeq(sorted, 1, limit) ELSE sorted
  BY <1>1 DEF Shown
<1>4. DOMAIN sorted = DOMAIN entries /\ DOMAIN sorted = 1 .. Len(sorted)
  BY <1>1, <1>2, SortByUsageIs
<1>5. CASE limit < Len(sorted)
  <2>1. \A k \in 1 .. limit : k \in 1 .. Len(sorted)
    BY <1>2, <1>5
  <2>2. SubSeq(sorted, 1, limit) \in Seq(Entry) /\ Len(SubSeq(sorted, 1, limit)) = limit
          /\ \A k \in 1 .. limit : SubSeq(sorted, 1, limit)[k] = sorted[k]
    BY <1>2, <1>5
  <2>3. DOMAIN SubSeq(sorted, 1, limit) = 1 .. limit
    BY <2>2
  <2>4. QED BY <1>1, <1>2, <1>3, <1>4, <1>5, <2>1, <2>2, <2>3
<1>6. CASE ~(limit < Len(sorted))
  BY <1>1, <1>2, <1>3, <1>4, <1>6
<1>7. QED BY <1>5, <1>6

LEMMA LazyServerIs ==
  ASSUME NEW entries, NEW limit, NEW used
  PROVE  /\ BuildLazyServer(entries, limit, used).direct = ByName(Shown(entries, limit, used))
         /\ BuildLazyServer(entries, limit, used).meta =
              {ListAllTools, CallDeferredTool} \ Names(SortByUsage(entries, used))
         /\ BuildLazyServer(entries, limit, used).deferred =
              IF CallDeferredTool \in Names(SortByUsage(entries, used)) THEN <<>>
              ELSE ByName(SortByUsage(entries, used))
<1> DEFINE shown == Shown(entries, limit, used)
           sorted == SortByUsage(entries, used)
<1>1. BuildLazyServer(entries, limit, used) = AddMetaTools(BuildServer(shown), sorted)
  BY DEF BuildLazyServer, Shown
<1>2. /\ DOMAIN BuildServer(shown) = {"direct", "meta", "deferred"}
      /\ BuildServer(shown).direct = ByName(shown)
  BY BuildServerIs
<1> HIDE DEF shown, sorted
<1>3. QED BY <1>1, <1>2 DEF AddMetaTools, shown, sorted

LEMMA SortedElements ==
  ASSUME NEW entries \in Seq(Entry), NEW used \in [Name -> Nat]
  PROVE  Elements(SortByUsage(entries, used)) = Elements(entries)
<1>1. PICK sorted : sorted = SortByUsage(entries, used)
  OBVIOUS
<1>2. /\ DOMAIN sorted = DOMAIN entries
      /\ \A k \in DOMAIN entries : \E i \in DOMAIN entries : sorted[k] = entries[i]
      /\ \A i \in DOMAIN entries : \E k \in DOMAIN entries : sorted[k] = entries[i]
  BY <1>1, SortByUsageIs
<1>3. Elements(sorted) = Elements(entries)
  BY <1>2 DEF Elements
<1>4. QED BY <1>1, <1>3

LEMMA LazyServerOffers ==
  ASSUME NEW entries \in Seq(Entry), NEW limit \in Nat, NEW used \in [Name -> Nat]
  PROVE  Offers(BuildLazyServer(entries, limit, used), Elements(entries))
<1> DEFINE E == Elements(entries)
<1>1. PICK server, sorted, shown :
        /\ server = BuildLazyServer(entries, limit, used)
        /\ sorted = SortByUsage(entries, used) /\ shown = Shown(entries, limit, used)
  OBVIOUS
<1>2. /\ server.direct = ByName(shown)
      /\ server.meta = {ListAllTools, CallDeferredTool} \ Names(sorted)
      /\ server.deferred = IF CallDeferredTool \in Names(sorted) THEN <<>> ELSE ByName(sorted)
  BY <1>1, LazyServerIs
<1>3. sorted \in Seq(Entry) /\ shown \in Seq(Entry)
  BY <1>1, SortByUsageIs, ShownIs
<1>4. Elements(sorted) = E
  BY <1>1, SortedElements
<1>5. Elements(shown) \subseteq E
  <2>1. \A k \in DOMAIN shown : shown[k] = sorted[k] /\ k \in DOMAIN entries
    BY <1>1, ShownIs
  <2>2. DOMAIN sorted = DOMAIN entries
    BY <1>1, SortByUsageIs
  <2>3. Elements(shown) \subseteq Elements(sorted)
    BY <2>1, <2>2 DEF Elements
  <2>4. QED BY <1>4, <2>3
<1>6. Names(sorted) = {e.exposed : e \in E}
  BY <1>4, ElementNames
<1>7. \A n \in DOMAIN server.direct : server.direct[n] \in E /\ server.direct[n].exposed = n
  BY <1>2, <1>3, <1>5, ByNameOffers
<1>8. \A n \in DOMAIN server.deferred : server.deferred[n] \in E /\ server.deferred[n].exposed = n
  <2>1. CASE CallDeferredTool \in Names(sorted)
    BY <1>2, <2>1
  <2>2. CASE CallDeferredTool \notin Names(sorted)
    BY <1>2, <1>3, <1>4, <2>2, ByNameOffers
  <2>3. QED BY <2>1, <2>2
<1>9. CallDeferredTool \notin Names(sorted) =>
        CallDeferredTool \in server.meta /\ DOMAIN server.deferred = Names(sorted)
  BY <1>2, <1>3, ByNameIs
<1> HIDE DEF E
<1>10. Offers(server, E)
  BY <1>6, <1>7, <1>8, <1>9 DEF Offers
<1>11. QED BY <1>1, <1>10 DEF E

(* Build: a tool bears its namespaced name, or the plain one of a server   *)
(* that opted out, which then no other tool has as its candidate.          *)
LEMMA ExposedIs ==
  ASSUME NEW raw, NEW bare, NEW i \in DOMAIN raw, NEW e, e = Build(raw, bare)[i]
  PROVE  /\ e = [server |-> raw[i].server, tool |-> raw[i].tool, exposed |-> e.exposed]
         /\ \/ e.exposed = NamespacedName(raw[i])
            \/ /\ raw[i].server \in bare /\ e.exposed = raw[i].tool
               /\ \A j \in DOMAIN raw \ {i} : CandidateName(raw[j], bare) # e.exposed
<1> DEFINE Candidate(k) == CandidateName(raw[k], bare)
           Collides(k) == \E l \in DOMAIN raw \ {k} : Candidate(l) = Candidate(k)
           Exposed(k) == IF Collides(k) THEN NamespacedName(raw[k]) ELSE Candidate(k)
<1>1. e = [server |-> raw[i].server, tool |-> raw[i].tool, exposed |-> Exposed(i)]
  BY DEF Build
<1>2. e.exposed = Exposed(i)
  <2> HIDE DEF Exposed
  <2>1. QED BY <1>1
<1>3. CASE Collides(i)
  <2>1. Exposed(i) = NamespacedName(raw[i])
    BY <1>3
  <2> HIDE DEF Exposed
  <2>2. QED BY <1>1, <1>2, <2>1
<1>4. CASE ~Collides(i)
  <2>1. Exposed(i) = Candidate(i) /\ \A j \in DOMAIN raw \ {i} : Candidate(j) # Candidate(i)
    BY <1>4
  <2>2. \/ Candidate(i) = NamespacedName(raw[i])
        \/ raw[i].server \in bare /\ Candidate(i) = raw[i].tool
    BY DEF CandidateName
  <2> HIDE DEF Exposed, Candidate
  <2>3. \/ e.exposed = NamespacedName(raw[i])
        \/ /\ raw[i].server \in bare /\ e.exposed = raw[i].tool
           /\ \A j \in DOMAIN raw \ {i} : Candidate(j) # e.exposed
    BY <1>2, <2>1, <2>2
  <2>4. QED BY <1>1, <1>2, <2>3 DEF Candidate
<1>5. QED BY <1>3, <1>4

(* So two entries of one name are the same, unless names meet.             *)
LEMMA NamesKeptApart ==
  ASSUME NEW config, ~NamesMeet(config),
         NEW i \in DOMAIN config.raw, NEW j \in DOMAIN config.raw,
         Catalogued(config)[i].exposed = Catalogued(config)[j].exposed
  PROVE  Catalogued(config)[i] = Catalogued(config)[j]
<1>1. PICK raw, bare, x, y : /\ raw = config.raw /\ bare = config.bare
                             /\ x = Build(raw, bare)[i] /\ y = Build(raw, bare)[j]
  OBVIOUS
<1>2. x = Catalogued(config)[i] /\ y = Catalogued(config)[j] /\ x.exposed = y.exposed
  BY <1>1 DEF Catalogued
<1>3. /\ x = [server |-> raw[i].server, tool |-> raw[i].tool, exposed |-> x.exposed]
      /\ y = [server |-> raw[j].server, tool |-> raw[j].tool, exposed |-> y.exposed]
  BY <1>1, ExposedIs
<1>4. CASE raw[i] = raw[j]
  BY <1>2, <1>3, <1>4
<1>5. CASE raw[i] # raw[j]
  <2>1. /\ NamespacedName(raw[i]) # NamespacedName(raw[j])
        /\ ~(raw[i].server \in bare /\ raw[i].tool = NamespacedName(raw[j]))
        /\ ~(raw[j].server \in bare /\ raw[j].tool = NamespacedName(raw[i]))
    BY <1>1, <1>5 DEF NamesMeet
  <2>2. /\ \/ x.exposed = NamespacedName(raw[i])
           \/ /\ raw[i].server \in bare /\ x.exposed = raw[i].tool
              /\ CandidateName(raw[j], bare) # x.exposed
        /\ \/ y.exposed = NamespacedName(raw[j])
           \/ raw[j].server \in bare /\ y.exposed = raw[j].tool
    <3>1. i \in DOMAIN raw /\ j \in DOMAIN raw \ {i}
      BY <1>1, <1>5
    <3>2. \/ x.exposed = NamespacedName(raw[i])
          \/ /\ raw[i].server \in bare /\ x.exposed = raw[i].tool
             /\ \A k \in DOMAIN raw \ {i} : CandidateName(raw[k], bare) # x.exposed
      BY <1>1, <3>1, ExposedIs
    <3>3. \/ y.exposed = NamespacedName(raw[j])
          \/ raw[j].server \in bare /\ y.exposed = raw[j].tool
      BY <1>1, <3>1, ExposedIs
    <3>4. QED BY <3>1, <3>2, <3>3
  <2>3. raw[j].server \in bare => CandidateName(raw[j], bare) = raw[j].tool
    BY DEF CandidateName
  <2>4. QED BY <1>2, <2>1, <2>2, <2>3
<1>6. QED BY <1>4, <1>5

-----------------------------------------------------------------------------
(* What a session is bound to.  The names of a valid configuration's       *)
(* profiles are unique, so that the first of a name is there to be found.  *)
LEMMA NamedIs ==
  ASSUME NEW profiles \in Seq(Profile), Unique(profiles), NEW name
  PROVE  \/ /\ Named(profiles, name) = None
            /\ \A i \in DOMAIN profiles : profiles[i].name # name
         \/ /\ Named(profiles, name) \in Profile
            /\ Named(profiles, name).name = name
<1> DEFINE Found(i) == /\ profiles[i].name = name
                       /\ \A j \in 1 .. i - 1 : ~(profiles[j].name = name)
           first == CHOOSE i \in DOMAIN profiles : Found(i)
<1>1. DOMAIN profiles = 1 .. Len(profiles) /\ \A i \in DOMAIN profiles : profiles[i] \in Profile
  OBVIOUS
<1>2. Named(profiles, name) = IF \E i \in DOMAIN profiles : profiles[i].name = name
                                THEN profiles[first] ELSE None
  BY DEF Named, First
<1>3. CASE \E i \in DOMAIN profiles : profiles[i].name = name
  <2>1. PICK i \in DOMAIN profiles : profiles[i].name = name
    BY <1>3
  <2>2. ASSUME NEW j \in 1 .. i - 1 PROVE profiles[j].name # name
    <3>1. j \in DOMAIN profiles /\ j # i
      BY <1>1
    <3>2. QED BY <2>1, <3>1 DEF Unique
  <2>3. Found(i)
    BY <2>1, <2>2
  <2> HIDE DEF Found
  <2>4. first \in DOMAIN profiles /\ Found(first)
    BY <2>3
  <2>5. profiles[first].name = name
    BY <2>4 DEF Found
  <2> HIDE DEF first
  <2>6. QED BY <1>1, <1>2, <1>3, <2>4, <2>5
<1>4. CASE ~\E i \in DOMAIN profiles : profiles[i].name = name
  BY <1>2, <1>4
<1>5. QED BY <1>3, <1>4

LEMMA ConfigIs ==
  ASSUME NEW config \in ValidConfig
  PROVE  /\ config \in Config /\ config # None
         /\ config.profiles \in Seq(Profile) /\ Unique(config.profiles)
         /\ config.rules \in Seq(Rule) /\ Unique(config.rules)
BY GatewayAssumption DEF ValidConfig, Validate, Config

LEMMA BindingIs ==
  ASSUME NEW config, NEW name, NEW used, NEW b, b = Binding(config, name, used)
  PROVE  /\ b.server = ProfileServer(config, name, used)
         /\ b.rules = config.rules /\ b.config = config
         /\ b.name = name /\ b.counts = used
BY DEF Binding

LEMMA UnmountedIsNamed ==
  ASSUME NEW config \in ValidConfig
  PROVE  Named(config.profiles, Unmounted) = None
<1>1. \A p \in Profile : p.name # Unmounted
  BY DEF Profile
<1>2. QED BY <1>1, ConfigIs, NamedIs

LEMMA AllowedIsPermitted ==
  ASSUME NEW profile, NEW name
  PROVE  Allowed(profile, name) <=> name \in (UNION profile.allow) \ (UNION profile.deny)
BY DEF Allowed, Matches

(* What a binding permits: everything without a profile, nothing if the    *)
(* profile is gone, and else what the profile's filter lets through.       *)
LEMMA PermittedIs ==
  ASSUME NEW b, b.config \in ValidConfig
  PROVE  /\ b.name = "" => PermittedAt(b) = DOMAIN Catalogued(b.config)
         /\ b.name # "" /\ BoundProfile(b) = None => PermittedAt(b) = {}
         /\ b.name # "" /\ BoundProfile(b) # None =>
              PermittedAt(b) = {i \in DOMAIN Catalogued(b.config) :
                                  Allowed(BoundProfile(b), Catalogued(b.config)[i].exposed)}
<1>1. PICK config, entries, p : /\ config = b.config /\ entries = Catalogued(config)
                                /\ p = BoundProfile(b)
  OBVIOUS
<1>2. config # None
  BY <1>1, ConfigIs
<1>3. b.name = Unmounted => p = None
  BY <1>1, UnmountedIsNamed DEF BoundProfile
<1>4. PermittedAt(b) = IF b.name = Unmounted THEN {}
                       ELSE {i \in DOMAIN entries : Permits(b, entries[i].exposed)}
  BY <1>1, <1>2 DEF PermittedAt
<1>5. ASSUME NEW n
      PROVE  Permits(b, n) <=> b.name = "" \/ (p # None /\ Allowed(p, n))
  BY <1>1, AllowedIsPermitted DEF Permits
<1>6. Unmounted # ""
  BY DEF Unmounted
<1>7. QED BY <1>1, <1>3, <1>4, <1>5, <1>6

LEMMA EffectiveLimitIs ==
  ASSUME NEW profile \in Profile
  PROVE  EffectiveLimit(profile) \in Nat \ {0} /\ profile.lazy \in BOOLEAN
BY CatalogAssumption DEF EffectiveLimit, Profile

(* Every session offers what its profile permits, and nothing else.        *)
LEMMA BindingOffers ==
  ASSUME NEW config \in ValidConfig, NEW name, NEW used \in [Name -> Nat],
         NEW b, b = Binding(config, name, used)
  PROVE  Offers(b.server, Permitted(b))
<1>1. /\ b.server = ProfileServer(config, name, used)
      /\ b.config = config /\ b.name = name /\ b.counts = used
  BY BindingIs
<1>2. PICK entries, p : entries = Catalogued(config) /\ p = Named(config.profiles, name)
  OBVIOUS
<1>3. entries \in Seq(Entry) /\ (p = None \/ p \in Profile)
  BY <1>2, ConfigIs, CataloguedIs, NamedIs
<1>4. BoundProfile(b) = p /\ Permitted(b) = {entries[i] : i \in PermittedAt(b)}
  BY <1>1, <1>2 DEF BoundProfile, Permitted
<1>5. CASE name = ""
  <2>1. b.server = BuildServer(entries)
    BY <1>1, <1>2, <1>5 DEF ProfileServer
  <2>2. PermittedAt(b) = DOMAIN entries
    BY <1>1, <1>2, <1>5, PermittedIs
  <2>3. Permitted(b) = Elements(entries)
    BY <1>4, <2>2 DEF Elements
  <2>4. QED BY <1>3, <2>1, <2>3, BuildServerOffers
<1>6. CASE name # "" /\ p = None
  <2>1. b.server = EmptyServer
    BY <1>1, <1>2, <1>6 DEF ProfileServer
  <2>2. PermittedAt(b) = {}
    BY <1>1, <1>2, <1>4, <1>6, PermittedIs
  <2>3. Permitted(b) = {}
    BY <1>4, <2>2
  <2>4. QED BY <2>1, <2>3, EmptyOffers
<1>7. CASE name # "" /\ p # None
  <2>1. PICK mine : mine = FilterEntries(entries, p)
    OBVIOUS
  <2>2. mine \in Seq(Entry)
    BY <1>3, <2>1, FilterEntriesIs
  <2>3. b.server = IF p.lazy THEN BuildLazyServer(mine, EffectiveLimit(p), used)
                   ELSE BuildServer(mine)
    BY <1>1, <1>2, <1>7, <2>1 DEF ProfileServer, BuildProfileServer
  <2>4. PermittedAt(b) = {i \in DOMAIN entries : Allowed(p, entries[i].exposed)}
    BY <1>1, <1>2, <1>4, <1>7, PermittedIs
  <2>5. Permitted(b) = Elements(mine)
    BY <1>3, <1>4, <2>1, <2>4, FilteredElements
  <2>6. EffectiveLimit(p) \in Nat
    BY <1>3, <1>7, EffectiveLimitIs
  <2>7. Offers(b.server, Elements(mine))
    BY <2>2, <2>3, <2>6, BuildServerOffers, LazyServerOffers
  <2>8. QED BY <2>5, <2>7
<1>8. QED BY <1>5, <1>6, <1>7

(* A sequence has at most as many names as entries, and as many only if no *)
(* two share one.                                                          *)
Distinct(entries) ==
  \A i, j \in DOMAIN entries : entries[i].exposed = entries[j].exposed => i = j

LEMMA NamesCounted ==
  ASSUME NEW entries \in Seq(Entry)
  PROVE  /\ IsFiniteSet(Names(entries)) /\ Cardinality(Names(entries)) \in Nat
         /\ Cardinality(Names(entries)) <= Len(entries)
         /\ Cardinality(Names(entries)) = Len(entries) <=> Distinct(entries)
<1> DEFINE n == Len(entries)
           exposed == [i \in 1 .. n |-> entries[i].exposed]
<1>1. DOMAIN entries = 1 .. n /\ n \in Nat
  BY EntriesAre
<1>2. IsFiniteSet(1 .. n) /\ Cardinality(1 .. n) = n
  BY <1>1, FS_Interval
<1>3. exposed \in Surjection(1 .. n, Names(entries))
  BY <1>1 DEF Names, Surjection
<1>4. exposed \in Injection(1 .. n, Names(entries)) <=> Distinct(entries)
  BY <1>1, <1>3 DEF Injection, IsInjective, Surjection, Distinct
<1> HIDE DEF exposed, n
<1>5. /\ IsFiniteSet(Names(entries))
      /\ Cardinality(Names(entries)) <= Cardinality(1 .. n)
      /\ Cardinality(Names(entries)) = Cardinality(1 .. n)
           <=> exposed \in Injection(1 .. n, Names(entries))
  BY <1>2, <1>3, FS_Surjection
<1>6. QED BY <1>2, <1>4, <1>5, FS_CardinalityType DEF n

(* Precedes, of the entries a profile permits.                             *)
ComesBefore(mine, used, n, m) ==
  \/ used[n] > used[m]
  \/ /\ used[n] = used[m]
     /\ \E i \in DOMAIN mine :
          /\ mine[i].exposed = n
          /\ \A j \in DOMAIN mine : mine[j].exposed = m => i < j

(* Of those permitted the ones used most are listed.                       *)
LEMMA ShownAreMostUsed ==
  ASSUME NEW mine \in Seq(Entry), NEW limit \in Nat, NEW used \in [Name -> Nat],
         NEW shown, shown = Shown(mine, limit, used)
  PROVE  /\ Cardinality(Names(shown)) <= limit
         /\ Len(mine) = Cardinality(Names(mine)) =>
              Cardinality(Names(shown)) = limit \/ Names(shown) = Names(mine)
         /\ \A n \in Names(shown), m \in Names(mine) \ Names(shown) :
              ComesBefore(mine, used, n, m)
<1>1. PICK sorted : sorted = SortByUsage(mine, used)
  OBVIOUS
<1>2. /\ shown \in Seq(Entry)
      /\ Len(shown) = IF limit < Len(mine) THEN limit ELSE Len(mine)
      /\ \A k \in DOMAIN shown : k \in DOMAIN mine /\ shown[k] = sorted[k]
  BY <1>1, ShownIs
<1>3. /\ sorted \in Seq(Entry) /\ Len(sorted) = Len(mine) /\ DOMAIN sorted = DOMAIN mine
      /\ \A k, l \in DOMAIN mine : k < l => used[sorted[k].exposed] >= used[sorted[l].exposed]
  BY <1>1, SortByUsageIs
<1>4. /\ DOMAIN shown = 1 .. Len(shown) /\ DOMAIN mine = 1 .. Len(mine)
      /\ Len(shown) \in Nat /\ Len(mine) \in Nat
  BY <1>2, EntriesAre
<1>5. Names(sorted) = Names(mine)
  BY <1>1, SortedElements, ElementNames
<1>6. Cardinality(Names(shown)) <= limit
  <2>1. Cardinality(Names(shown)) <= Len(shown) /\ Cardinality(Names(shown)) \in Nat
    BY <1>2, NamesCounted
  <2>2. QED BY <1>2, <1>4, <2>1
<1>7. ASSUME Len(mine) = Cardinality(Names(mine))
      PROVE  Cardinality(Names(shown)) = limit \/ Names(shown) = Names(mine)
  <2>1. Distinct(sorted)
    BY <1>3, <1>5, <1>7, NamesCounted
  <2>2. CASE limit < Len(mine)
    <3>1. Len(shown) = limit
      BY <1>2, <2>2
    <3>2. Distinct(shown)
      BY <1>2, <1>3, <2>1 DEF Distinct
    <3>3. QED BY <1>2, <3>1, <3>2, NamesCounted
  <2>3. CASE ~(limit < Len(mine))
    <3>1. DOMAIN shown = DOMAIN sorted
      BY <1>2, <1>3, <1>4, <2>3
    <3>2. Names(shown) = Names(sorted)
      BY <1>2, <3>1 DEF Names
    <3>3. QED BY <1>5, <3>2
  <2>4. QED BY <2>2, <2>3
<1>8. ASSUME NEW n \in Names(shown), NEW m \in Names(mine) \ Names(shown)
      PROVE  ComesBefore(mine, used, n, m)
  <2>1. PICK k \in DOMAIN shown : n = shown[k].exposed
    BY DEF Names
  <2>2. PICK at : ByUsage(sorted, mine, used, at)
    BY <1>1, SortByUsagePlaces
  <2>3. k \in DOMAIN mine /\ at[k] \in DOMAIN mine /\ mine[at[k]].exposed = n
    BY <1>2, <2>1, <2>2 DEF ByUsage
  <2>4. ASSUME NEW j \in DOMAIN mine, mine[j].exposed = m
        PROVE  used[n] > used[m] \/ (used[n] = used[m] /\ at[k] < j)
    <3>1. PICK l \in DOMAIN mine : at[l] = j
      BY <2>2 DEF ByUsage
    <3>2. sorted[l].exposed = m
      BY <2>2, <2>4, <3>1 DEF ByUsage
    <3>3. ASSUME l \in DOMAIN shown PROVE FALSE
      BY <1>2, <3>2, <3>3 DEF Names
    <3>4. k < l
      BY <1>2, <1>4, <3>1, <3>3
    <3>5. QED BY <2>2, <2>3, <2>4, <3>1, <3>4 DEF ByUsage
  <2>5. PICK j \in DOMAIN mine : mine[j].exposed = m
    BY DEF Names
  <2>6. CASE used[n] > used[m]
    BY <2>6 DEF ComesBefore
  <2>7. CASE ~(used[n] > used[m])
    <3>1. used[n] = used[m]
      BY <2>4, <2>5, <2>7
    <3>2. \A i \in DOMAIN mine : mine[i].exposed = m => at[k] < i
      BY <2>4, <2>7
    <3>3. QED BY <2>3, <3>1, <3>2 DEF ComesBefore
  <2>8. QED BY <2>6, <2>7
<1>9. QED BY <1>6, <1>7, <1>8

(* MostUsedAreDirect, of one session.                                      *)
ListsMostUsed(b, names, limit, direct) ==
  /\ Cardinality(direct) <= limit
  /\ Cardinality(PermittedAt(b)) = Cardinality(names)
       => Cardinality(direct) = limit \/ direct = names
  /\ \A n \in direct, m \in names \ direct : Precedes(b, n, m)

PermittedNames(b) == {e.exposed : e \in Permitted(b)}

MostUsed(b) ==
  PermittedNames(b) # {} /\ b.name # "" /\ BoundProfile(b).lazy =>
    ListsMostUsed(b, PermittedNames(b), EffectiveLimit(BoundProfile(b)), DOMAIN b.server.direct)

LEMMA BindingListsMostUsed ==
  ASSUME NEW config \in ValidConfig, NEW name, NEW used \in [Name -> Nat],
         NEW b, b = Binding(config, name, used)
  PROVE  MostUsed(b)
<1>1. PICK entries, p : entries = Catalogued(config) /\ p = Named(config.profiles, name)
  OBVIOUS
<1>2. entries \in Seq(Entry) /\ (p = None \/ p \in Profile)
  BY <1>1, ConfigIs, CataloguedIs, NamedIs
<1>3. /\ b.server = ProfileServer(config, name, used)
      /\ b.config = config /\ b.name = name /\ b.counts = used
  BY BindingIs
<1>4. BoundProfile(b) = p /\ Permitted(b) = {entries[i] : i \in PermittedAt(b)}
  BY <1>1, <1>3 DEF BoundProfile, Permitted
<1>5. SUFFICES ASSUME PermittedNames(b) # {}, name # "", p.lazy
               PROVE  ListsMostUsed(b, PermittedNames(b), EffectiveLimit(p),
                                    DOMAIN b.server.direct)
  BY <1>3, <1>4 DEF MostUsed
<1>6. name # "" /\ p # None
  <2>1. PermittedNames(b) # {} /\ name # ""
    BY <1>5
  <2>2. p = None => PermittedAt(b) = {}
    BY <1>3, <1>4, <2>1, PermittedIs
  <2>3. QED BY <1>4, <2>1, <2>2 DEF PermittedNames
<1>7. PICK mine, shown, limit : /\ limit = EffectiveLimit(p)
                                /\ mine = FilterEntries(entries, p)
                                /\ shown = Shown(mine, limit, used)
  OBVIOUS
<1>8. PermittedAt(b) = {i \in DOMAIN entries : Allowed(p, entries[i].exposed)}
  BY <1>1, <1>3, <1>4, <1>6, PermittedIs
<1>9. mine \in Seq(Entry) /\ Len(mine) = Cardinality(PermittedAt(b))
  BY <1>2, <1>7, <1>8, FilterEntriesIs
<1>10. PermittedNames(b) = Names(mine)
  <2>1. Permitted(b) = Elements(mine)
    BY <1>2, <1>4, <1>7, <1>8, FilteredElements
  <2>2. QED BY <2>1, ElementNames DEF PermittedNames
<1>11. limit \in Nat
  BY <1>2, <1>6, <1>7, EffectiveLimitIs
<1>12. DOMAIN b.server.direct = Names(shown)
  <2>1. b.server = BuildLazyServer(mine, limit, used)
    BY <1>1, <1>3, <1>5, <1>6, <1>7 DEF ProfileServer, BuildProfileServer
  <2>2. shown \in Seq(Entry)
    BY <1>7, <1>9, <1>11, ShownIs
  <2>3. b.server.direct = ByName(shown)
    BY <1>7, <2>1, LazyServerIs
  <2>4. QED BY <2>2, <2>3, ByNameIs
<1>13. /\ Cardinality(Names(shown)) <= limit
       /\ Len(mine) = Cardinality(Names(mine)) =>
            Cardinality(Names(shown)) = limit \/ Names(shown) = Names(mine)
       /\ \A n \in Names(shown), m \in Names(mine) \ Names(shown) :
            ComesBefore(mine, used, n, m)
  BY <1>7, <1>9, <1>11, ShownAreMostUsed
<1>14. ASSUME NEW n, NEW m, ComesBefore(mine, used, n, m)
       PROVE  Precedes(b, n, m)
  <2>1. PICK at : PicksFrom(mine, entries, PermittedAt(b), at)
    BY <1>2, <1>7, <1>8, FilterEntriesPlaces
  <2>2. CASE used[n] > used[m]
    BY <1>3, <2>2 DEF Precedes
  <2>3. CASE ~(used[n] > used[m])
    <3>1. used[n] = used[m]
      BY <1>14, <2>3 DEF ComesBefore
    <3>2. PICK k \in DOMAIN mine :
            /\ mine[k].exposed = n
            /\ \A l \in DOMAIN mine : mine[l].exposed = m => k < l
      BY <1>14, <2>3 DEF ComesBefore
    <3>3. at[k] \in PermittedAt(b) /\ entries[at[k]].exposed = n
      BY <2>1, <3>2 DEF PicksFrom
    <3>4. ASSUME NEW j \in PermittedAt(b), entries[j].exposed = m
          PROVE  at[k] < j
      <4>1. PICK l \in DOMAIN mine : at[l] = j
        BY <2>1 DEF PicksFrom
      <4>2. mine[l].exposed = m
        BY <2>1, <3>4, <4>1 DEF PicksFrom
      <4>3. QED BY <2>1, <3>2, <4>1, <4>2 DEF PicksFrom
    <3>5. QED BY <1>1, <1>3, <3>1, <3>3, <3>4 DEF Precedes
  <2>4. QED BY <2>2, <2>3
<1>15. QED BY <1>3, <1>7, <1>9, <1>10, <1>12, <1>13, <1>14 DEF ListsMostUsed

-----------------------------------------------------------------------------
(* Sessions.  A session is bound once, before anything goes over it, and   *)
(* to a configuration that was loaded.                                     *)
BoundTo(b) ==
  b = Unbound \/ /\ b.config \in ValidConfig /\ b.counts \in [Name -> Nat]
                 /\ b = Binding(b.config, b.name, b.counts)

Loaded == setup \in Setups /\ cfg \in ValidConfig

CountTypeOK == counts \in [Name -> Nat] /\ tmp \in [Name -> Nat] /\ disk \in [Name -> Nat]

SessionsBound ==
  /\ bound = [s \in Session |-> bound[s]]
  /\ \A s \in Session : BoundTo(bound[s])

UsedIsOpen ==
  /\ session \in Session => net[session] # "unused"
  /\ \A c \in Call : using[c] \in Session => net[using[c]] # "unused"

IdleIsEmpty == \A r \in Request : req[r].at = "idle" => req[r].entry = None

SessionInv ==
  /\ RelayInv /\ ReqShape
  /\ Loaded /\ CountTypeOK /\ SessionsBound
  /\ UsedIsOpen /\ IdleIsEmpty
  /\ OnlyAllowedCalled

(* What is true of every session.                                          *)
LEMMA BoundOffers ==
  ASSUME NEW b, BoundTo(b)
  PROVE  Offers(b.server, Permitted(b)) /\ MostUsed(b)
<1>1. CASE b = Unbound
  <2>1. b.server = EmptyServer /\ b.config = None
    BY <1>1 DEF Unbound
  <2>2. PermittedAt(b) = {}
    BY <2>1 DEF PermittedAt
  <2>3. Permitted(b) = {}
    BY <2>2 DEF Permitted
  <2>4. PermittedNames(b) = {}
    BY <2>3 DEF PermittedNames
  <2>5. QED BY <2>1, <2>3, <2>4, EmptyOffers DEF MostUsed
<1>2. CASE b # Unbound
  <2>1. PICK config, name, used : config = b.config /\ name = b.name /\ used = b.counts
    OBVIOUS
  <2>2. config \in ValidConfig /\ used \in [Name -> Nat] /\ b = Binding(config, name, used)
    BY <1>2, <2>1 DEF BoundTo
  <2>3. QED BY <2>2, BindingOffers, BindingListsMostUsed
<1>3. QED BY <1>1, <1>2

LEMMA TargetIsOffered ==
  ASSUME NEW server, NEW E, Offers(server, E), NEW w, Target(server, w) # None
  PROVE  Target(server, w) \in E
BY DEF Target, Offers

LEMMA PermittedAreEntries ==
  ASSUME NEW b, BoundTo(b)
  PROVE  /\ Permitted(b) \subseteq Entry
         /\ b.rules \in Seq(Rule) /\ Unique(b.rules)
<1>1. CASE b = Unbound
  <2>1. b.rules = <<>> /\ b.config = None
    BY <1>1 DEF Unbound
  <2>2. PermittedAt(b) = {}
    BY <2>1 DEF PermittedAt
  <2>3. QED BY <2>1, <2>2 DEF Permitted, Unique
<1>2. CASE b # Unbound
  <2>1. PICK config, entries : config = b.config /\ entries = Catalogued(config)
    OBVIOUS
  <2>2. config \in ValidConfig /\ b = Binding(config, b.name, b.counts)
    BY <1>2, <2>1 DEF BoundTo
  <2>3. entries \in Seq(Entry) /\ b.rules = config.rules
    BY <2>1, <2>2, ConfigIs, CataloguedIs, BindingIs
  <2>4. PermittedAt(b) \subseteq DOMAIN entries
    BY <2>1 DEF PermittedAt
  <2>5. \A i \in DOMAIN entries : entries[i] \in Entry
    BY <2>3
  <2>6. Permitted(b) \subseteq Entry
    BY <2>1, <2>4, <2>5 DEF Permitted
  <2>7. QED BY <2>2, <2>3, <2>6, ConfigIs
<1>3. QED BY <1>1, <1>2

LEMMA NamesAreReachable ==
  ASSUME NEW b, BoundTo(b), CallDeferredTool \notin PermittedNames(b),
         NEW n \in PermittedNames(b)
  PROVE  \E w \in Want : Target(b.server, w) # None /\ Target(b.server, w).exposed = n
<1> DEFINE server == b.server
           direct == [name |-> n, inner |-> n]
           deferred == [name |-> CallDeferredTool, inner |-> n]
<1>1. Offers(server, Permitted(b)) /\ Permitted(b) \subseteq Entry
  BY BoundOffers, PermittedAreEntries
<1>2. \A e \in Permitted(b) : e # None /\ e.exposed \in Name
  BY <1>1, GatewayAssumption DEF Entry
<1>3. direct \in Want /\ deferred \in Want
  BY <1>2, CatalogAssumption DEF Want, PermittedNames
<1>4. CASE n \in DOMAIN server.direct
  <2>1. Target(server, direct) = server.direct[n]
    BY <1>4 DEF Target
  <2>2. server.direct[n] \in Permitted(b) /\ server.direct[n].exposed = n
    BY <1>1, <1>4 DEF Offers
  <2> HIDE DEF direct, server
  <2>3. QED BY <1>2, <1>3, <2>1, <2>2 DEF server
<1>5. CASE n \notin DOMAIN server.direct
  <2>1. DOMAIN server.direct # PermittedNames(b)
    BY <1>5
  <2>2. CallDeferredTool \in server.meta /\ DOMAIN server.deferred = PermittedNames(b)
    BY <1>1, <2>1 DEF Offers, PermittedNames
  <2>3. CallDeferredTool \notin DOMAIN server.direct
    BY <1>1 DEF Offers, PermittedNames
  <2>4. Target(server, deferred) = server.deferred[n]
    BY <2>2, <2>3 DEF Target
  <2>5. server.deferred[n] \in Permitted(b) /\ server.deferred[n].exposed = n
    BY <1>1, <2>2 DEF Offers
  <2> HIDE DEF deferred, server
  <2>6. QED BY <1>2, <1>3, <2>4, <2>5 DEF server
<1>6. QED BY <1>4, <1>5

(* What the daemon does in a step: nothing to its requests, or it dies or  *)
(* is started, or it takes a step of one request.                          *)
Begins(r, s) ==
  \E w : /\ Target(bound[s].server, w) # None
         /\ Begin(r, Target(bound[s].server, w), bound[s].rules)

Handles(r) ==
  \/ Step(r) \/ CallFails(r) \/ SaveFails(r) \/ Decline(r) \/ Answer(r)
  \/ \E s \in Session : Begins(r, s)

LEMMA RequestsAre ==
  ASSUME NEW c \in Call
  PROVE  <<c, 1>> \in Request /\ <<c, 2>> \in Request
BY GatewayAssumption

LEMMA ServeIs ==
  ASSUME NEW c \in Call, NEW attempt \in {1, 2}, NEW s, Serve(c, attempt, s)
  PROVE  <<c, attempt>> \in Request /\ (Decline(<<c, attempt>>) \/ Begins(<<c, attempt>>, s))
BY RequestsAre DEF Serve, Begins

(* The session a request arrives over is open.                             *)
LEMMA ArrivesOver ==
  ASSUME RelayInv, NEW c \in Call
  PROVE  /\ pc[c] \in {"sent", "answering"} => using[c] \in Session
         /\ pc[c] \in {"resend", "resent"} => session \in Session
BY DEF RelayInv, RelayTypeOK, RelayStates, PhasesAgree, RetryingLost

LEMMA NextIs ==
  ASSUME RelayInv, [Next]_vars
  PROVE  \/ UNCHANGED dispatchVars
         \/ Crash \/ Start
         \/ \E r \in Request : Handles(r)
<1>1. CASE Reload \/ Resolve \/ RelayConnectFails \/ RelayLists \/ RelaySteps \/ UNCHANGED vars
  BY <1>1 DEF Reload, Resolve, RelayConnectFails, Abandon, RelayLists, RelaySteps, vars
<1>2. CASE DaemonCrash \/ DaemonStart
  BY <1>2 DEF DaemonCrash, DaemonStart
<1>3. ASSUME NEW r \in Request, DaemonStep(r) \/ AnswerNobody(r)
      PROVE  \E q \in Request : Handles(q)
  BY <1>3 DEF DaemonStep, AnswerNobody, Handles
<1>4. ASSUME NEW s \in Session, RelayConnects(s) PROVE UNCHANGED dispatchVars
  BY <1>4 DEF RelayConnects, Bind
<1>5. ASSUME NEW c \in Call, RelayCalls(c) PROVE UNCHANGED dispatchVars
  BY <1>5 DEF RelayCalls
<1>6. ASSUME NEW c \in Call, CallStep(c)
      PROVE  UNCHANGED dispatchVars \/ \E r \in Request : Handles(r)
  <2>1. CASE RequestArrives(c)
    <3>1. using[c] \in Session /\ Serve(c, 1, using[c])
      BY <2>1, ArrivesOver DEF RequestArrives, Arrives, Goes
    <3>2. QED BY <3>1, ServeIs DEF Handles
  <2>2. CASE RequestArrivesAgain(c)
    <3>1. session \in Session /\ Serve(c, 2, session)
      BY <2>2, ArrivesOver DEF RequestArrivesAgain, ArrivesAgain, Goes
    <3>2. QED BY <3>1, ServeIs DEF Handles
  <2>3. CASE AnswerArrives(c)
    BY <2>3, RequestsAre DEF AnswerArrives, Handles
  <2>4. CASE RelayStep(c) \/ RelayReconnectFails(c)
    BY <2>4 DEF RelayStep, RelayReconnectFails, Abandon
  <2>5. ASSUME NEW s \in Session, RelayReconnects(c, s) PROVE UNCHANGED dispatchVars
    BY <2>5 DEF RelayReconnects, Bind
  <2>6. QED BY <1>6, <2>1, <2>2, <2>3, <2>4, <2>5 DEF CallStep
<1>7. QED BY <1>1, <1>2, <1>3, <1>4, <1>5, <1>6 DEF Next

(* Most steps leave the shape, and what each request calls, as they were.  *)
EntriesStay ==
  /\ ReqShape'
  /\ \A x \in Request : /\ req'[x].entry = req[x].entry
                        /\ req'[x].at = "idle" => req[x].at = "idle"

LEMMA OneMoves ==
  ASSUME ReqShape, NEW r \in Request, NEW q, Shaped(q), req' = [req EXCEPT ![r] = q]
  PROVE  ReqShape' /\ req'[r] = q /\ \A x \in Request \ {r} : req'[x] = req[x]
BY DEF ReqShape

LEMMA MovesStays ==
  ASSUME ReqShape, NEW r \in Request, NEW to, NEW scripts, Moves(r, to, scripts),
         "idle" \in to => req[r].at = "idle"
  PROVE  EntriesStay
<1>1. PICK q : /\ Shaped(q) /\ req' = [req EXCEPT ![r] = q]
               /\ q.entry = req[r].entry /\ q.at \in to
  BY DEF Moves
<1>2. ReqShape' /\ req'[r] = q /\ \A x \in Request \ {r} : req'[x] = req[x]
  BY <1>1, OneMoves
<1>3. QED BY <1>1, <1>2 DEF EntriesStay

LEMMA StepStays ==
  ASSUME ReqShape, NEW r \in Request,
         Step(r) \/ CallFails(r) \/ SaveFails(r) \/ Decline(r) \/ Answer(r)
  PROVE  EntriesStay
<1>1. CASE Forward(r) \/ CallFails(r) \/ Record(r) \/ SaveTmp(r) \/ Decline(r) \/ Interrupt(r)
  BY <1>1, MovesStays, MovesForward, MovesCallFails, MovesRecord, MovesSaveTmp, MovesDecline,
     MovesInterrupt
<1>2. CASE StartRule(r) \/ Return(r) \/ PostDone(r) \/ Answer(r) \/ TakeOutput(r) \/ Reap(r)
  BY <1>2, MovesStays, MovesStartRule, MovesReturn, MovesPostDone, MovesRan, AnswerIs
<1>3. CASE Kill(r) \/ ScriptEnds(r)
  BY <1>3, MovesStays, MovesKill, MovesScriptEnds
<1>4. CASE Count(r) \/ SaveFails(r)
  <2>1. PICK q : /\ Shaped(q) /\ req' = [req EXCEPT ![r] = q]
                 /\ q.entry = req[r].entry /\ q.at # "idle"
    BY <1>4, CountIs, SaveFailsIs DEF Count
  <2>2. QED BY <2>1, OneMoves DEF EntriesStay
<1>5. CASE Rename(r)
  BY <1>5, RenameIs DEF EntriesStay
<1>6. QED BY <1>1, <1>2, <1>3, <1>4, <1>5 DEF Step

LEMMA CrashStays == ASSUME ReqShape, Crash PROVE EntriesStay
<1>1. \A x \in Request : Active(x) => req[x].at # "idle"
  BY DEF Active
<1>2. QED BY <1>1, CrashIs DEF EntriesStay

LEMMA UnchangedStays == ASSUME ReqShape, req' = req PROVE EntriesStay
BY DEF ReqShape, EntriesStay

LEMMA StaysEmpty == ASSUME IdleIsEmpty, EntriesStay PROVE IdleIsEmpty'
BY DEF IdleIsEmpty, EntriesStay

(* A call that begins.                                                     *)
LEMMA BeginsIs ==
  ASSUME ReqShape, IdleIsEmpty, NEW r \in Request, NEW s \in Session, Begins(r, s),
         BoundTo(bound[s])
  PROVE  /\ ReqShape' /\ IdleIsEmpty'
         /\ req'[r].entry \in Permitted(bound[s])
         /\ \A x \in Request \ {r} : req'[x] = req[x]
<1>1. PICK entry, rules : /\ Begin(r, entry, rules)
                          /\ entry \in Permitted(bound[s])
  BY BoundOffers, TargetIsOffered DEF Begins
<1>2. PICK q : /\ Shaped(q) /\ req' = [req EXCEPT ![r] = q]
               /\ q.entry = entry /\ q.at = "hook"
  BY <1>1, BeginIs
<1>3. ReqShape' /\ req'[r] = q /\ \A x \in Request \ {r} : req'[x] = req[x]
  BY <1>2, OneMoves
<1>4. QED BY <1>1, <1>2, <1>3 DEF IdleIsEmpty

LEMMA ShapeNext ==
  ASSUME SessionInv, [Next]_vars
  PROVE  ReqShape' /\ IdleIsEmpty'
<1>0. ReqShape /\ IdleIsEmpty /\ RelayInv /\ \A s \in Session : BoundTo(bound[s])
  BY DEF SessionInv, SessionsBound
<1>1. CASE UNCHANGED dispatchVars \/ Start
  BY <1>0, <1>1, UnchangedStays, StaysEmpty DEF Start, dispatchVars, EntriesStay
<1>2. CASE Crash
  BY <1>0, <1>2, CrashStays, StaysEmpty DEF EntriesStay
<1>3. ASSUME NEW r \in Request, Handles(r) PROVE ReqShape' /\ IdleIsEmpty'
  <2>1. CASE \E s \in Session : Begins(r, s)
    BY <1>0, <2>1, BeginsIs
  <2>2. CASE ~\E s \in Session : Begins(r, s)
    BY <1>0, <1>3, <2>2, StepStays, StaysEmpty DEF Handles, EntriesStay
  <2>3. QED BY <2>1, <2>2
<1>4. QED BY <1>0, <1>1, <1>2, <1>3, NextIs

(* What the relay does in a step.  A session once opened is not unused     *)
(* again, and the relay goes on to sessions that are open.                 *)
NetGrows ==
  /\ \A s \in Session : net'[s] = "unused" => net[s] = "unused"
  /\ session' = session \/ (session' \in Session => net'[session'] # "unused")
  /\ \A c \in Call : using'[c] = using[c] \/ using'[c] = session

(* A request that is being answered has arrived.                           *)
CallsStay ==
  \A c \in Call :
    /\ pc'[c] = "answering" => pc[c] = "answering" /\ using'[c] = using[c]
    /\ pc'[c] = "resent" => pc[c] = "resent" /\ session' = session

LEMMA RelayUnchanged ==
  ASSUME UNCHANGED relayVars
  PROVE  NetGrows /\ CallsStay
BY DEF relayVars, NetGrows, CallsStay

LEMMA RelayOpens ==
  ASSUME RelayInv, NEW s \in Session, Connect(s) \/ \E c \in Call : Reconnect(c, s)
  PROVE  NetGrows /\ CallsStay
<1>1. RelayTypeOK /\ PhasesAgree /\ HolderIsRetrying
  BY DEF RelayInv
<1>2. CASE Connect(s)
  <2>1. \A c \in Call : pc[c] = "idle"
    BY <1>1, <1>2 DEF Connect, PhasesAgree
  <2>2. pc' = pc /\ using' = using /\ net' = [net EXCEPT ![s] = "live"] /\ session' = s
    BY <1>2 DEF Connect
  <2>3. QED BY <1>1, <2>1, <2>2 DEF RelayTypeOK, NetGrows, CallsStay
<1>3. ASSUME NEW c \in Call, Reconnect(c, s) PROVE NetGrows /\ CallsStay
  <2>1. /\ pc[c] = "dial" /\ pc' = [pc EXCEPT ![c] = "resend"] /\ using' = using
        /\ session' = s /\ net' = [net EXCEPT ![using[c]] = "closed", ![s] = "live"]
    BY <1>3 DEF Reconnect, Goes
  <2>2. \A d \in Call : pc[d] = "resent" => mu = d
    BY <1>1 DEF HolderIsRetrying, Retrying
  <2>3. mu = c
    BY <1>1, <2>1 DEF HolderIsRetrying, Retrying
  <2>4. \A d \in Call : pc'[d] # "resent"
    BY <1>1, <2>1, <2>2, <2>3 DEF RelayTypeOK
  <2>5. QED BY <1>1, <2>1, <2>4 DEF RelayTypeOK, NetGrows, CallsStay
<1>4. QED BY <1>2, <1>3

LEMMA RelayCloses ==
  ASSUME RelayInv, ConnectFails \/ List \/ ListFails \/ StopServing \/ Close
                   \/ \E s \in Session : Drop(s)
  PROVE  NetGrows /\ CallsStay
<1>1. RelayTypeOK
  BY DEF RelayInv
<1>2. CASE ConnectFails \/ List \/ ListFails \/ StopServing
  BY <1>2 DEF ConnectFails, List, ListFails, StopServing, NetGrows, CallsStay
<1>3. CASE Close
  BY <1>1, <1>3 DEF Close, RelayTypeOK, NetGrows, CallsStay
<1>4. ASSUME NEW s \in Session, Drop(s) PROVE NetGrows /\ CallsStay
  BY <1>1, <1>4 DEF Drop, RelayTypeOK, NetGrows, CallsStay
<1>5. QED BY <1>2, <1>3, <1>4

LEMMA RelayGoes ==
  ASSUME RelayInv, NEW c \in Call,
         \/ CallTool(c) \/ Answered(c) \/ GiveUp(c) \/ ConnectionClosed(c) \/ Lock(c)
         \/ ReconnectFails(c) \/ AnsweredAgain(c) \/ RetryFails(c)
  PROVE  NetGrows /\ CallsStay
<1>1. RelayTypeOK
  BY DEF RelayInv
<1>2. CASE CallTool(c)
  BY <1>1, <1>2 DEF CallTool, Goes, RelayTypeOK, NetGrows, CallsStay
<1>3. CASE Answered(c) \/ GiveUp(c) \/ ConnectionClosed(c)
  BY <1>1, <1>3
  DEF Answered, GiveUp, ConnectionClosed, Goes, relayOnly, RelayTypeOK, NetGrows, CallsStay
<1>4. CASE Lock(c)
  BY <1>1, <1>4 DEF Lock, Goes, RelayTypeOK, NetGrows, CallsStay
<1>5. CASE ReconnectFails(c) \/ AnsweredAgain(c) \/ RetryFails(c)
  BY <1>1, <1>5
  DEF ReconnectFails, AnsweredAgain, RetryFails, Release, Goes, RelayTypeOK, NetGrows, CallsStay
<1>6. QED BY <1>2, <1>3, <1>4, <1>5

LEMMA CrashLoses ==
  ASSUME RelayInv, DaemonCrash
  PROVE  NetGrows /\ CallsStay
BY DEF RelayInv, RelayTypeOK, DaemonCrash, NetGrows, CallsStay

LEMMA RelayArrives ==
  ASSUME RelayInv, NEW c \in Call, Arrives(c) \/ ArrivesAgain(c)
  PROVE  /\ NetGrows /\ using' = using /\ session' = session
         /\ pc[c] \notin {"answering", "resent"}
         /\ \A d \in Call \ {c} : pc'[d] = pc[d]
         /\ Arrives(c) => pc'[c] = "answering"
         /\ ArrivesAgain(c) => pc'[c] = "resent"
BY DEF RelayInv, RelayTypeOK, Arrives, ArrivesAgain, Goes, relayOnly, NetGrows

LEMMA RelayNext ==
  ASSUME RelayInv, [Next]_vars
  PROVE  /\ NetGrows
         /\ CallsStay \/ \E c \in Call : RequestArrives(c) \/ RequestArrivesAgain(c)
<1>1. CASE Reload \/ DaemonStart \/ Resolve \/ UNCHANGED vars
  BY <1>1, RelayUnchanged DEF Reload, DaemonStart, Resolve, vars
<1>2. CASE DaemonCrash
  BY <1>2, CrashLoses
<1>3. ASSUME NEW r \in Request, DaemonStep(r) \/ AnswerNobody(r) PROVE NetGrows /\ CallsStay
  BY <1>3, RelayUnchanged DEF DaemonStep, AnswerNobody
<1>4. ASSUME NEW s \in Session, RelayConnects(s) PROVE NetGrows /\ CallsStay
  BY <1>4, RelayOpens DEF RelayConnects
<1>5. CASE RelayConnectFails \/ RelayLists
  BY <1>5, RelayCloses DEF RelayConnectFails, RelayLists
<1>6. CASE RelaySteps
  BY <1>6, RelayCloses, RelayGoes DEF RelaySteps
<1>7. ASSUME NEW c \in Call, RelayCalls(c) PROVE NetGrows /\ CallsStay
  BY <1>7, RelayGoes DEF RelayCalls
<1>8. ASSUME NEW c \in Call, CallStep(c)
      PROVE  NetGrows /\ (CallsStay \/ RequestArrives(c) \/ RequestArrivesAgain(c))
  <2>1. CASE RequestArrives(c) \/ RequestArrivesAgain(c)
    BY <2>1, RelayArrives DEF RequestArrives, RequestArrivesAgain
  <2>2. CASE AnswerArrives(c)
    BY <2>2, RelayGoes DEF AnswerArrives
  <2>3. CASE RelayStep(c)
    BY <2>3, RelayGoes DEF RelayStep
  <2>4. CASE RelayReconnectFails(c)
    BY <2>4, RelayGoes DEF RelayReconnectFails
  <2>5. ASSUME NEW s \in Session, RelayReconnects(c, s) PROVE NetGrows /\ CallsStay
    BY <2>5, RelayOpens DEF RelayReconnects
  <2>6. QED BY <1>8, <2>1, <2>2, <2>3, <2>4, <2>5 DEF CallStep
<1>9. QED BY <1>1, <1>2, <1>3, <1>4, <1>5, <1>6, <1>7, <1>8 DEF Next

LEMMA OpenNext ==
  ASSUME SessionInv, [Next]_vars
  PROVE  UsedIsOpen'
<1>1. RelayInv /\ UsedIsOpen
  BY DEF SessionInv
<1>2. NetGrows
  BY <1>1, RelayNext
<1>3. QED BY <1>1, <1>2 DEF NetGrows, UsedIsOpen

(* A session is bound when it is opened, to what the daemon runs then.     *)
LEMMA BoundNext ==
  ASSUME RelayInv, [Next]_vars
  PROVE  \/ bound' = bound
         \/ \E s \in Session : Bind(s) /\ net[s] = "unused"
<1>1. CASE Reload \/ DaemonCrash \/ DaemonStart \/ Resolve \/ UNCHANGED vars
  BY <1>1 DEF Reload, DaemonCrash, DaemonStart, Resolve, vars, gatewayVars
<1>2. ASSUME NEW r \in Request, DaemonStep(r) \/ AnswerNobody(r) PROVE bound' = bound
  BY <1>2 DEF DaemonStep, AnswerNobody, gatewayVars
<1>3. ASSUME NEW s \in Session, RelayConnects(s) PROVE Bind(s) /\ net[s] = "unused"
  BY <1>3 DEF RelayConnects, Connect, Opens
<1>4. CASE RelayConnectFails \/ RelayLists \/ RelaySteps
  BY <1>4 DEF RelayConnectFails, Abandon, RelayLists, RelaySteps, gatewayVars
<1>5. ASSUME NEW c \in Call, RelayCalls(c) PROVE bound' = bound
  BY <1>5 DEF RelayCalls
<1>6. ASSUME NEW c \in Call, CallStep(c)
      PROVE  bound' = bound \/ \E s \in Session : Bind(s) /\ net[s] = "unused"
  BY <1>6
  DEF CallStep, RequestArrives, RequestArrivesAgain, Serve, AnswerArrives, RelayStep,
      RelayReconnectFails, Abandon, RelayReconnects, Reconnect, Opens, gatewayVars
<1>7. QED BY <1>1, <1>2, <1>3, <1>4, <1>5, <1>6 DEF Next

LEMMA LoadedIs ==
  ASSUME NEW s \in Setups
  PROVE  /\ s.configs[1] \in ValidConfig
         /\ \A i \in DOMAIN s.configs : s.configs[i] \in ValidConfig
<1>1. s \in Setup
  BY GatewayAssumption
<1>2. s.configs \in Seq(ValidConfig) \ {<<>>}
  BY <1>1 DEF Setup
<1>3. PICK configs : configs = s.configs
  OBVIOUS
<1>4. QED BY <1>2, <1>3

LEMMA LoadedNext ==
  ASSUME SessionInv, [Next]_vars
  PROVE  Loaded'
<1>1. setup \in Setups /\ cfg \in ValidConfig
  BY DEF SessionInv, Loaded
<1>2. CASE Reload
  BY <1>1, <1>2, LoadedIs DEF Reload, Loaded
<1>3. CASE DaemonCrash \/ DaemonStart \/ Resolve \/ UNCHANGED vars
  BY <1>1, <1>3 DEF DaemonCrash, DaemonStart, Resolve, vars, gatewayVars, Loaded
<1>4. ASSUME NEW r \in Request, DaemonStep(r) \/ AnswerNobody(r) PROVE Loaded'
  BY <1>1, <1>4 DEF DaemonStep, AnswerNobody, gatewayVars, Loaded
<1>5. ASSUME NEW s \in Session, RelayConnects(s) PROVE Loaded'
  BY <1>1, <1>5 DEF RelayConnects, Bind, Loaded
<1>6. CASE RelayConnectFails \/ RelayLists \/ RelaySteps
  BY <1>1, <1>6 DEF RelayConnectFails, Abandon, RelayLists, RelaySteps, gatewayVars, Loaded
<1>7. ASSUME NEW c \in Call, RelayCalls(c) PROVE Loaded'
  BY <1>1, <1>7 DEF RelayCalls, Loaded
<1>8. ASSUME NEW c \in Call, CallStep(c) PROVE Loaded'
  BY <1>1, <1>8
  DEF CallStep, RequestArrives, RequestArrivesAgain, Serve, AnswerArrives, RelayStep,
      RelayReconnectFails, Abandon, RelayReconnects, Bind, gatewayVars, Loaded
<1>9. QED BY <1>2, <1>3, <1>4, <1>5, <1>6, <1>7, <1>8 DEF Next

LEMMA BindingIsBound ==
  ASSUME NEW config \in ValidConfig, NEW name, NEW used \in [Name -> Nat]
  PROVE  BoundTo(Binding(config, name, used))
<1>1. PICK b : b = Binding(config, name, used)
  OBVIOUS
<1>2. b.config = config /\ b.name = name /\ b.counts = used
  BY <1>1, BindingIs
<1>3. QED BY <1>1, <1>2 DEF BoundTo

LEMMA SessionsNext ==
  ASSUME SessionInv, [Next]_vars
  PROVE  /\ SessionsBound'
         /\ \A s \in Session : net[s] # "unused" => bound'[s] = bound[s]
<1>1. RelayInv /\ cfg \in ValidConfig /\ counts \in [Name -> Nat] /\ SessionsBound
  BY DEF SessionInv, Loaded, CountTypeOK
<1>2. CASE bound' = bound
  BY <1>1, <1>2 DEF SessionsBound
<1>3. ASSUME NEW s \in Session, Bind(s), net[s] = "unused"
      PROVE  /\ SessionsBound'
             /\ \A t \in Session : net[t] # "unused" => bound'[t] = bound[t]
  <2>1. PICK b : BoundTo(b) /\ bound' = [bound EXCEPT ![s] = b]
    BY <1>1, <1>3, BindingIsBound DEF Bind
  <2>2. QED BY <1>1, <1>3, <2>1 DEF SessionsBound
<1>4. QED BY <1>1, <1>2, <1>3, BoundNext

(* The usage store.                                                        *)
LEMMA CountNext ==
  ASSUME SessionInv, [Next]_vars
  PROVE  CountTypeOK'
<1>1. RelayInv /\ CountTypeOK
  BY DEF SessionInv
<1>2. CASE UNCHANGED dispatchVars \/ Crash \/ Start
  BY <1>1, <1>2 DEF dispatchVars, Crash, Start, CountTypeOK
<1>3. ASSUME NEW r \in Request, Handles(r) PROVE CountTypeOK'
  <2>1. CASE Count(r)
    <3>1. PICK n : counts' = [counts EXCEPT ![n] = @ + 1] /\ tmp' = tmp /\ disk' = disk
      BY <2>1 DEF Count, Counted
    <3>2. counts' = [m \in Name |-> IF m = n THEN counts[m] + 1 ELSE counts[m]]
      BY <1>1, <3>1 DEF CountTypeOK
    <3>3. \A m \in Name : counts[m] \in Nat /\ counts[m] + 1 \in Nat
      BY <1>1 DEF CountTypeOK
    <3>4. counts' \in [Name -> Nat]
      BY <3>2, <3>3
    <3>5. QED BY <1>1, <3>1, <3>4 DEF CountTypeOK
  <2>2. CASE SaveTmp(r) \/ Rename(r) \/ SaveFails(r) \/ Record(r)
    BY <1>1, <2>2 DEF SaveTmp, Rename, SaveFails, Record, storeVars, CountTypeOK
  <2>3. CASE UNCHANGED recordVars
    BY <1>1, <2>3 DEF recordVars, CountTypeOK
  <2>4. QED
    BY <1>3, <2>1, <2>2, <2>3
    DEF Handles, Step, StartRule, ScriptEnds, TakeOutput, Interrupt, Reap, Kill, Forward, Return,
        PostDone, CallFails, Decline, Answer, Begins, Begin
<1>4. QED BY <1>1, <1>2, <1>3, NextIs

----------------------------------------------------------------------------
LEMMA OverOpen ==
  ASSUME RelayInv, UsedIsOpen, NEW c \in Call
  PROVE  /\ pc[c] \in {"sent", "answering"} =>
              using[c] \in Session /\ net[using[c]] # "unused"
         /\ pc[c] \in {"resend", "resent"} => session \in Session /\ net[session] # "unused"
BY ArrivesOver DEF UsedIsOpen

(* Nothing of what is being answered changes, nor what it may call.        *)
LEMMA AllowedStays ==
  ASSUME SessionInv, EntriesStay, CallsStay,
         \A s \in Session : net[s] # "unused" => bound'[s] = bound[s]
  PROVE  OnlyAllowedCalled'
<1>1. RelayInv /\ UsedIsOpen /\ OnlyAllowedCalled
  BY DEF SessionInv
<1>2. ASSUME NEW c \in Call, pc'[c] = "answering", req'[<<c, 1>>].entry # None
      PROVE  req'[<<c, 1>>].entry \in Permitted(bound[using[c]])'
  <2>1. pc[c] = "answering" /\ using'[c] = using[c]
    BY <1>2 DEF CallsStay
  <2>2. bound'[using'[c]] = bound[using[c]]
    BY <1>1, <2>1, OverOpen
  <2>3. req'[<<c, 1>>].entry = req[<<c, 1>>].entry
    BY RequestsAre DEF EntriesStay
  <2>4. req[<<c, 1>>].entry \in Permitted(bound[using[c]])
    BY <1>1, <1>2, <2>1, <2>3 DEF OnlyAllowedCalled
  <2>5. QED BY <2>2, <2>3, <2>4
<1>3. ASSUME NEW c \in Call, pc'[c] = "resent", req'[<<c, 2>>].entry # None
      PROVE  req'[<<c, 2>>].entry \in Permitted(bound[session])'
  <2>1. pc[c] = "resent" /\ session' = session
    BY <1>3 DEF CallsStay
  <2>2. bound'[session'] = bound[session]
    BY <1>1, <2>1, OverOpen
  <2>3. req'[<<c, 2>>].entry = req[<<c, 2>>].entry
    BY RequestsAre DEF EntriesStay
  <2>4. req[<<c, 2>>].entry \in Permitted(bound[session])
    BY <1>1, <1>3, <2>1, <2>3 DEF OnlyAllowedCalled
  <2>5. QED BY <2>2, <2>3, <2>4
<1>4. QED BY <1>2, <1>3 DEF OnlyAllowedCalled

(* A request that arrives is served by the session it arrives over.        *)
LEMMA AllowedArrives ==
  ASSUME SessionInv, NEW c \in Call, RequestArrives(c) \/ RequestArrivesAgain(c)
  PROVE  OnlyAllowedCalled'
<1>1. /\ RelayInv /\ ReqShape /\ UsedIsOpen /\ IdleIsEmpty /\ OnlyAllowedCalled
      /\ \A s \in Session : BoundTo(bound[s])
  BY DEF SessionInv, SessionsBound
<1>2. bound' = bound
  BY DEF RequestArrives, RequestArrivesAgain, Serve, gatewayVars
<1>3. PICK attempt \in {1, 2}, s \in Session :
        /\ Serve(c, attempt, s)
        /\ attempt = 1 => s = using[c] /\ pc'[c] = "answering"
        /\ attempt = 2 => s = session /\ pc'[c] = "resent"
  BY <1>1, ArrivesOver, RelayArrives
  DEF RequestArrives, RequestArrivesAgain, Arrives, ArrivesAgain, Goes
<1> DEFINE r == <<c, attempt>>
<1>4. r \in Request /\ req[r].at = "idle" /\ req[r].entry = None
  BY <1>1, <1>3, RequestsAre DEF Serve, Decline, Begin, At, IdleIsEmpty
<1>5. req'[r].entry # None => req'[r].entry \in Permitted(bound[s])
  BY <1>1, <1>3, <1>4, ServeIs, StepStays, BeginsIs DEF EntriesStay
<1>6. \A x \in Request \ {r} : req'[x].entry = req[x].entry
  BY <1>1, <1>3, ServeIs, StepStays, BeginsIs DEF EntriesStay
<1>7. /\ using' = using /\ session' = session
      /\ \A d \in Call \ {c} : pc'[d] = pc[d]
  BY <1>1, RelayArrives DEF RequestArrives, RequestArrivesAgain
<1> HIDE DEF r
<1>8. ASSUME NEW d \in Call, pc'[d] = "answering", req'[<<d, 1>>].entry # None
      PROVE  req'[<<d, 1>>].entry \in Permitted(bound[using[d]])
  <2>1. CASE <<d, 1>> = r
    BY <1>3, <1>5, <1>8, <2>1 DEF r
  <2>2. CASE <<d, 1>> # r /\ d # c
    BY <1>1, <1>6, <1>7, <1>8, <2>2, RequestsAre DEF OnlyAllowedCalled
  <2>3. CASE <<d, 1>> # r /\ d = c
    BY <1>3, <1>8, <2>3 DEF r
  <2>4. QED BY <2>1, <2>2, <2>3
<1>9. ASSUME NEW d \in Call, pc'[d] = "resent", req'[<<d, 2>>].entry # None
      PROVE  req'[<<d, 2>>].entry \in Permitted(bound[session])
  <2>1. CASE <<d, 2>> = r
    BY <1>3, <1>5, <1>9, <2>1 DEF r
  <2>2. CASE <<d, 2>> # r /\ d # c
    BY <1>1, <1>6, <1>7, <1>9, <2>2, RequestsAre DEF OnlyAllowedCalled
  <2>3. CASE <<d, 2>> # r /\ d = c
    BY <1>3, <1>9, <2>3 DEF r
  <2>4. QED BY <2>1, <2>2, <2>3
<1>10. Permitted(bound[session])' = Permitted(bound[session])
         /\ \A d \in Call : Permitted(bound[using[d]])' = Permitted(bound[using[d]])
  BY <1>2, <1>7
<1>11. QED BY <1>8, <1>9, <1>10 DEF OnlyAllowedCalled

(* No other step begins a call.                                            *)
LEMMA QuietStays ==
  ASSUME RelayInv, ReqShape, [Next]_vars,
         ~\E c \in Call : RequestArrives(c) \/ RequestArrivesAgain(c)
  PROVE  EntriesStay
<1>1. CASE Reload \/ Resolve \/ RelayConnectFails \/ RelayLists \/ RelaySteps \/ UNCHANGED vars
  BY <1>1, UnchangedStays
  DEF Reload, Resolve, RelayConnectFails, Abandon, RelayLists, RelaySteps, vars, dispatchVars
<1>2. CASE DaemonCrash \/ DaemonStart
  BY <1>2, CrashStays, UnchangedStays DEF DaemonCrash, DaemonStart, Start
<1>3. ASSUME NEW r \in Request, DaemonStep(r) \/ AnswerNobody(r) PROVE EntriesStay
  BY <1>3, StepStays DEF DaemonStep, AnswerNobody
<1>4. ASSUME NEW s \in Session, RelayConnects(s) PROVE EntriesStay
  BY <1>4, UnchangedStays DEF RelayConnects, Bind, dispatchVars
<1>5. ASSUME NEW c \in Call, RelayCalls(c) PROVE EntriesStay
  BY <1>5, UnchangedStays DEF RelayCalls, dispatchVars
<1>6. ASSUME NEW c \in Call, CallStep(c) PROVE EntriesStay
  <2>1. CASE AnswerArrives(c)
    BY <2>1, RequestsAre, StepStays DEF AnswerArrives
  <2>2. CASE RelayStep(c) \/ RelayReconnectFails(c)
    BY <2>2, UnchangedStays DEF RelayStep, RelayReconnectFails, Abandon, dispatchVars
  <2>3. ASSUME NEW s \in Session, RelayReconnects(c, s) PROVE EntriesStay
    BY <2>3, UnchangedStays DEF RelayReconnects, Bind, dispatchVars
  <2>4. QED BY <1>6, <2>1, <2>2, <2>3 DEF CallStep
<1>7. QED BY <1>1, <1>2, <1>3, <1>4, <1>5, <1>6 DEF Next

LEMMA AllowedNext ==
  ASSUME SessionInv, [Next]_vars
  PROVE  OnlyAllowedCalled'
<1>1. RelayInv /\ ReqShape
  BY DEF SessionInv
<1>2. ASSUME NEW c \in Call, RequestArrives(c) \/ RequestArrivesAgain(c)
      PROVE  OnlyAllowedCalled'
  BY <1>2, AllowedArrives
<1>3. CASE ~\E c \in Call : RequestArrives(c) \/ RequestArrivesAgain(c)
  <2>1. CallsStay
    BY <1>1, <1>3, RelayNext
  <2>2. EntriesStay
    BY <1>1, <1>3, QuietStays
  <2>3. QED BY <2>1, <2>2, AllowedStays, SessionsNext
<1>4. QED BY <1>2, <1>3

LEMMA SessionInit == Init => SessionInv
<1> SUFFICES ASSUME Init PROVE SessionInv
  OBVIOUS
<1>1. RelayInv
  BY RelInit
<1>2. ReqShape /\ IdleIsEmpty
  BY IdleFields DEF Init, DispatchInit, ReqShape, IdleIsEmpty, Idle
<1>3. Loaded
  BY LoadedIs DEF Init, Loaded
<1>4. CountTypeOK
  BY DEF Init, DispatchInit, NoCounts, CountTypeOK
<1>5. SessionsBound
  BY DEF Init, SessionsBound, BoundTo
<1>6. UsedIsOpen /\ OnlyAllowedCalled
  BY RelayAssumption DEF Init, RelayInit, UsedIsOpen, OnlyAllowedCalled
<1>7. QED BY <1>1, <1>2, <1>3, <1>4, <1>5, <1>6 DEF SessionInv

LEMMA SessionNext == SessionInv /\ [Next]_vars => SessionInv'
<1> SUFFICES ASSUME SessionInv, [Next]_vars PROVE SessionInv'
  OBVIOUS
<1>1. RelayInv'
  BY RelNext DEF SessionInv
<1>2. QED
  BY <1>1, ShapeNext, LoadedNext, CountNext, SessionsNext, OpenNext, AllowedNext DEF SessionInv

(* Whatever is configured, reloaded and called, over however many sessions *)
(* and whether or not they are lost: no call reaches a tool that the       *)
(* profile of its session does not permit.                                 *)
THEOREM OnlyAllowedAreCalled == Spec => []OnlyAllowedCalled
<1>1. SessionInv => OnlyAllowedCalled
  BY DEF SessionInv
<1>2. QED BY <1>1, SessionInit, SessionNext, PTL DEF Spec

(* Whatever is configured, every tool that the profile of a session permits*)
(* can be called in it, unless one of them is named call_deferred_tool.    *)
THEOREM AllowedAreReachable == Spec => []AllowedIsReachable
<1>1. SessionInv => AllowedIsReachable
  <2> SUFFICES ASSUME SessionInv, NEW s \in Session,
                      CallDeferredTool \notin PermittedNames(bound[s]),
                      NEW n \in PermittedNames(bound[s])
               PROVE  \E w \in Want : /\ Target(bound[s].server, w) # None
                                      /\ Target(bound[s].server, w).exposed = n
    BY DEF AllowedIsReachable, PermittedNames
  <2>1. BoundTo(bound[s])
    BY DEF SessionInv, SessionsBound
  <2>2. QED BY <2>1, NamesAreReachable
<1>2. QED BY <1>1, SessionInit, SessionNext, PTL DEF Spec

(* Whatever the downstream servers list and whichever of them opted out of *)
(* namespacing: a tool that is permitted and cannot be called was hidden by*)
(* a plain name that looks namespaced, or two tools of one namespaced name.*)
THEOREM ToolsAreReachable == Spec => []DroppedOnlyIfNamesMeet
<1>1. SessionInv => DroppedOnlyIfNamesMeet
  <2> SUFFICES ASSUME SessionInv, NEW s \in Session,
                      bound[s].config # None, ~NamesMeet(bound[s].config),
                      CallDeferredTool \notin PermittedNames(bound[s]),
                      NEW e \in Permitted(bound[s])
               PROVE  \E w \in Want : Target(bound[s].server, w) = e
    BY DEF DroppedOnlyIfNamesMeet, EachIsReachable, PermittedNames
  <2>1. BoundTo(bound[s])
    BY DEF SessionInv, SessionsBound
  <2>2. PICK w \in Want : /\ Target(bound[s].server, w) # None
                          /\ Target(bound[s].server, w).exposed = e.exposed
    BY <2>1, NamesAreReachable DEF PermittedNames
  <2>3. PICK f : f = Target(bound[s].server, w)
    OBVIOUS
  <2>4. f \in Permitted(bound[s]) /\ f.exposed = e.exposed
    BY <2>1, <2>2, <2>3, BoundOffers, TargetIsOffered
  <2>5. PICK config : config = bound[s].config
    OBVIOUS
  <2>6. PICK i \in DOMAIN Catalogued(config), j \in DOMAIN Catalogued(config) :
          f = Catalogued(config)[i] /\ e = Catalogued(config)[j]
    BY <2>4, <2>5 DEF Permitted, PermittedAt
  <2>7. DOMAIN Catalogued(config) = DOMAIN config.raw
    BY DEF Catalogued, Build
  <2>8. f = e
    BY <2>4, <2>5, <2>6, <2>7, NamesKeptApart
  <2>9. QED BY <2>3, <2>8
<1>2. QED BY <1>1, SessionInit, SessionNext, PTL DEF Spec

(* For any limit and any counts, a lazy session lists as many tools as it  *)
(* may, and those that were called most, or as often and stand further     *)
(* ahead in the catalog.                                                   *)
THEOREM MostUsedAreListed == Spec => []MostUsedAreDirect
<1>1. SessionInv => MostUsedAreDirect
  <2>1. ASSUME SessionInv, NEW s \in Session PROVE MostUsed(bound[s])
    BY <2>1, BoundOffers DEF SessionInv, SessionsBound
  <2>2. (\A s \in Session : MostUsed(bound[s])) => MostUsedAreDirect
    BY DEF MostUsedAreDirect, MostUsed, ListsMostUsed, PermittedNames, EffectiveLimit
  <2>3. QED BY <2>1, <2>2
<1>2. QED BY <1>1, SessionInit, SessionNext, PTL DEF Spec
=============================================================================
