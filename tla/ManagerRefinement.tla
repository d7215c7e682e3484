------------------------- MODULE ManagerRefinement -------------------------
(* downstream.Manager implements ServerPool: every step of Manager is one   *)
(* step of the pool, or none.                                               *)
EXTENDS ManagerProofs

(* A request in flight on a live session is on the current one.             *)
LiveIsCurrent ==
    \A p \in Procs :
        pc[p] \in {"send", "wait", "resend", "rewait"} /\ Alive(on[p])
        => sessions[srv[p]] = on[p]

(* Only the retry sets `second`, and a goroutine without a call has no      *)
(* server.                                                                  *)
OneCallAtATime ==
    \A p \in Procs :
        /\ pc[p] # "rewait" => second[p] = None
        /\ pc[p] \in {"idle", "pick"} => srv[p] = None

RefInv == FullInv /\ LiveIsCurrent /\ OneCallAtATime

(* All three conjuncts hold before anything was dialled.                    *)
LEMMA InitRef == Init => RefInv
  BY InitCore, InitAcct, ManagerAssumption
  DEF Init, RefInv, FullInv, CloseLoop, LiveIsCurrent, OneCallAtATime

(* Only Swap changes a current session, and only one that is gone.          *)
LEMMA StepLive == RefInv /\ [Next]_vars => LiveIsCurrent'
<1> SUFFICES ASSUME RefInv, [Next]_vars PROVE LiveIsCurrent'
  OBVIOUS
<1>0. /\ TypeOK /\ LiveIsCurrent
      /\ NothingReused /\ StillBad /\ HandedOut /\ Locals
  BY DEF RefInv, FullInv, CoreInv
<1> USE <1>0, ManagerAssumption
    DEF LiveIsCurrent, Alive, TypeOK, Move, Return, mgrVars, worldVars,
        callVars, runVars
<1>1. CASE NewManager
  BY <1>1 DEF NewManager, DialInitial, DialInitialFails, NewManagerReturns,
     HandedOut
<1>2. CASE Close
  BY <1>2 DEF Close, CloseBegin, CloseSession, CloseEnd
<1>3. CASE HealthLoop
  BY <1>3 DEF HealthLoop, Tick, TickEnd, CheckServer
<1>4. CASE \E k \in Sessions : Break(k)
  BY <1>4 DEF Break
<1>5. CASE \E c \in Callers : Reread(c) \/ \E s \in Servers : CallTool(c, s)
  BY <1>5 DEF Reread, CallTool
<1>6. ASSUME NEW p \in Procs, Exchange(p) PROVE LiveIsCurrent'
  BY <1>6 DEF Exchange, Send, Run, Answer, Fail, ConnectionClosed
<1>7. ASSUME NEW p \in Procs, Reconnect(p) PROVE LiveIsCurrent'
  <2>1. CASE \E k \in Sessions : Dial(p, k)
    BY <2>1 DEF Dial, Fresh, NothingReused, Used
  <2>2. CASE DialFails(p)
    BY <2>2 DEF DialFails, ConnectFails
  <2>3. CASE Swap(p)
    BY <2>3 DEF Swap, StillBad, NothingReused
  <2>4. CASE ReleaseOld(p)
    BY <2>4 DEF ReleaseOld
  <2>5. CASE LockReconnect(p) \/ CheckCurrent(p) \/ UnlockReconnect(p)
    BY <2>5 DEF LockReconnect, CheckCurrent, UnlockReconnect
  <2> QED
    BY <1>7, <2>1, <2>2, <2>3, <2>4, <2>5 DEF Reconnect
<1>8. CASE UNCHANGED vars
  BY <1>8 DEF vars
<1> QED
  BY <1>1, <1>2, <1>3, <1>4, <1>5, <1>6, <1>7, <1>8 DEF Next

(* A call ends by forgetting its server and its runs.                       *)
LEMMA StepCalls == RefInv /\ [Next]_vars => OneCallAtATime'
<1> SUFFICES ASSUME RefInv, [Next]_vars PROVE OneCallAtATime'
  OBVIOUS
<1>0. TypeOK /\ OneCallAtATime
  BY DEF RefInv, FullInv, CoreInv
<1> USE <1>0, ManagerAssumption
    DEF OneCallAtATime, TypeOK, Move, Return, mgrVars, worldVars, callVars,
        runVars
<1>1. CASE NewManager
  BY <1>1 DEF NewManager, DialInitial, DialInitialFails, NewManagerReturns
<1>2. CASE Close
  BY <1>2 DEF Close, CloseBegin, CloseSession, CloseEnd
<1>3. CASE HealthLoop
  BY <1>3 DEF HealthLoop, Tick, TickEnd, CheckServer
<1>4. CASE \E k \in Sessions : Break(k)
  BY <1>4 DEF Break
<1>5. CASE \E c \in Callers : Reread(c) \/ \E s \in Servers : CallTool(c, s)
  BY <1>5 DEF Reread, CallTool
<1>6. ASSUME NEW p \in Procs, Exchange(p) PROVE OneCallAtATime'
  BY <1>6 DEF Exchange, Send, Run, Answer, Fail, ConnectionClosed
<1>7. ASSUME NEW p \in Procs, Reconnect(p) PROVE OneCallAtATime'
  BY <1>7 DEF Reconnect, LockReconnect, CheckCurrent, Dial, DialFails, Swap,
     ReleaseOld, UnlockReconnect
<1>8. CASE UNCHANGED vars
  BY <1>8 DEF vars
<1> QED
  BY <1>1, <1>2, <1>3, <1>4, <1>5, <1>6, <1>7, <1>8 DEF Next

(* The invariant under which a step of Manager is one of ServerPool.        *)
LEMMA RefInvariant == Spec => []RefInv
<1>1. RefInv /\ [Next]_vars => RefInv'
  BY NextCore, NextCloseLoop, NextAcct, StepLive, StepCalls
  DEF RefInv, FullInv
<1> QED
  BY <1>1, InitRef, PTL DEF Spec

-----------------------------------------------------------------------------
(* The three abstract variables that are not plain copies.                  *)
Up == {k \in Owned(sessions) : Alive(k)}
Past == {k \in Sessions : status[k] \notin {"unused", "failed"}}
        \ {fresh[p] : p \in Procs}
CallView == <<[c \in Callers |-> srv[c]], [c \in Callers |-> first[c]],
              [c \in Callers |-> second[c]]>>

(* An empty manager is an empty pool.                                       *)
LEMMA InitImplements == Init => Pool!Init
  BY ManagerAssumption
  DEF Init, Pool!Init, Owned, Alive, Procs

(* Steps the pool does not see.                                             *)
LEMMA Stutter ==
    ASSUME Up' = Up, Past' = Past, sessions' = sessions, CallView' = CallView
    PROVE  UNCHANGED Pool!vars
  BY DEF Pool!vars, Pool!runs, Up, Past, CallView

(* NewManager installs the first session of a server.                       *)
LEMMA DialInitialImplements ==
    ASSUME RefInv, NEW s \in Servers, NEW k \in Sessions, DialInitial(s, k)
    PROVE  Pool!Install(s, k)
<1> USE ManagerAssumption DEF DialInitial, Fresh, RefInv, FullInv, CoreInv,
        TypeOK, HandedOut, NothingReused, Used, Alive, Owned, callVars, runVars
<1>1. sessions[s] = None
  OBVIOUS
<1>2. Up' = Up \union {k}
  BY <1>1 DEF Up
<1>3. Past' = Past \union {k}
  BY DEF Past
<1>4. sessions[s] \notin Up /\ k \notin Past
  BY <1>1 DEF Up, Past
<1> QED
  BY <1>2, <1>3, <1>4 DEF Pool!Install, Pool!runs, Up, Past

(* Swap installs a session in place of one that is not up.                  *)
LEMMA SwapImplements ==
    ASSUME RefInv, NEW p \in Procs, Swap(p),
           NEW s \in Servers, NEW k \in Sessions, s = srv[p], k = fresh[p]
    PROVE  Pool!Install(s, k)
<1> USE ManagerAssumption DEF Swap, Move, RefInv, FullInv, CoreInv, AcctInv,
        TypeOK, Locals, worldVars, runVars
<1>1. k # None
  OBVIOUS
<1>2. ~Alive(sessions[s])
  BY DEF StillBad, NothingReused
<1>3. Owned(sessions)' \subseteq Owned(sessions) \union {k}
  BY <1>1 DEF Owned
<1>4. ASSUME NEW j \in Owned(sessions), Alive(j) PROVE j \in Owned(sessions)'
  BY <1>1, <1>2, <1>4 DEF Owned
<1>5. k \in Owned(sessions)'
  BY <1>1 DEF Owned
<1>6. Up' \in {Up, Up \union {k}}
  <2>1. \A j : Alive(j)' <=> Alive(j)
    BY DEF Alive
  <2>2. \A j : j \in Up' <=> j \in Up \/ (j = k /\ Alive(k))
    BY <2>1, <1>3, <1>4, <1>5 DEF Up
  <2>3. CASE Alive(k)
    BY <2>2, <2>3
  <2>4. CASE ~Alive(k)
    BY <2>2, <2>4
  <2> QED
    BY <2>3, <2>4
<1>7. Past' = Past \union {k}
  BY <1>1 DEF Past, FreshUnseen, NothingReused, Used
<1>8. sessions[s] \notin Up /\ k \notin Past
  BY <1>2 DEF Up, Past
<1>9. CallView' = CallView /\ sessions' = [sessions EXCEPT ![s] = k]
  BY DEF CallView
<1> HIDE DEF Swap, RefInv
<1> QED
  BY <1>6, <1>7, <1>8, <1>9, Zenon
  DEF Pool!Install, Pool!runs, Up, Past, CallView

(* A session stops being up.                                                *)
LEMMA LossImplements ==
    ASSUME RefInv, NEW k \in Sessions, status[k] \in {"live", "dead", "closed"},
           NEW st \in {"dead", "closed"},
           status' = [status EXCEPT ![k] = st],
           UNCHANGED <<sessions, fresh, CallView>>
    PROVE  Pool!Lose(k) \/ UNCHANGED Pool!vars
<1> USE ManagerAssumption DEF RefInv, FullInv, CoreInv, TypeOK
<1>1. Past' = Past
  BY DEF Past
<1>2. Up' = Up \ {k}
  BY DEF Up, Alive, Owned
<1> QED
  BY <1>1, <1>2, Stutter DEF Pool!Lose, Pool!runs, CallView, Up, Past

(* The pool does not see a session before it is installed.                  *)
LEMMA DialImplements ==
    ASSUME RefInv, NEW p \in Procs, NEW k \in Sessions, Dial(p, k)
    PROVE  UNCHANGED Pool!vars
<1> USE ManagerAssumption DEF Dial, Fresh, Move, RefInv, FullInv, CoreInv,
        AcctInv, TypeOK, NothingReused, Used, mgrVars, runVars
<1>1. Up' = Up
  BY DEF Up, Alive, Owned
<1>2. Past' = Past
  BY DEF Past, FreshUnseen
<1> QED
  BY <1>1, <1>2, Stutter DEF CallView

(* A failed connect changes nothing the pool can see.                       *)
LEMMA ConnectFailsHidden ==
    ASSUME RefInv, NEW s, ConnectFails(s), UNCHANGED <<sessions, fresh>>
    PROVE  Up' = Up /\ Past' = Past
<1> USE ManagerAssumption DEF RefInv, FullInv, CoreInv, TypeOK
<1>1. CASE UNCHANGED worldVars
  BY <1>1 DEF worldVars, Up, Past, Alive, Owned
<1>2. ASSUME NEW k \in Sessions, Fresh(k),
             status' = [status EXCEPT ![k] = "failed"]
      PROVE  Up' = Up /\ Past' = Past
  BY <1>2 DEF Fresh, Up, Past, Alive, Owned
<1> QED
  BY <1>1, <1>2 DEF ConnectFails

(* The end of a call, or of a health check.                                 *)
LEMMA ReturnImplements ==
    ASSUME RefInv, NEW p \in Procs, NEW from, Return(p, from),
           from \intersect {"idle", "pick"} = {},
           Up' = Up, Past' = Past, sessions' = sessions
    PROVE  (\E c \in Callers : Pool!Return(c)) \/ UNCHANGED Pool!vars
<1> USE ManagerAssumption DEF Return, Move, RefInv, FullInv, CoreInv, TypeOK,
        Locals, Procs
<1>1. CASE p \in Callers
  <2>1. srv[p] # None
    OBVIOUS
  <2>2. /\ [c \in Callers |-> srv[c]]'
             = [[c \in Callers |-> srv[c]] EXCEPT ![p] = None]
        /\ [c \in Callers |-> first[c]]'
             = [[c \in Callers |-> first[c]] EXCEPT ![p] = None]
        /\ [c \in Callers |-> second[c]]'
             = [[c \in Callers |-> second[c]] EXCEPT ![p] = None]
    BY <1>1
  <2> QED
    BY <1>1, <2>1, <2>2 DEF Pool!Return, Up, Past
<1>2. CASE p = Pinger
  BY <1>2, Stutter DEF CallView
<1> QED
  BY <1>1, <1>2

(* CallTool begins a call, and Run is the pool's Run.                       *)
LEMMA CallToolImplements ==
    ASSUME RefInv, NEW c \in Callers, NEW s \in Servers, CallTool(c, s)
    PROVE  Pool!Begin(c, s)
<1> USE ManagerAssumption DEF CallTool, Move, RefInv, FullInv, CoreInv, TypeOK,
        mgrVars, worldVars, runVars, Procs
<1>1. Up' = Up /\ Past' = Past
  BY DEF Up, Past, Owned, Alive
<1>2. srv[c] = None
  BY DEF OneCallAtATime
<1>3. [d \in Callers |-> srv[d]]' = [[d \in Callers |-> srv[d]] EXCEPT ![c] = s]
  OBVIOUS
<1> QED
  BY <1>1, <1>2, <1>3 DEF Pool!Begin, Pool!runs, Up, Past

(* The downstream runs a call on the live current session of its server.    *)
LEMMA RunImplements ==
    ASSUME RefInv, NEW c \in Callers, Run(c)
    PROVE  Pool!Run(c)
<1> USE ManagerAssumption DEF Run, RefInv, FullInv, CoreInv, AcctInv, TypeOK,
        mgrVars, worldVars, Procs
<1>1. Up' = Up /\ Past' = Past /\ sessions' = sessions
  BY DEF Up, Past, Owned, Alive
<1>2. srv[c] \in Servers /\ sessions[srv[c]] = on[c]
  BY DEF Locals, LiveIsCurrent
<1>3. sessions[srv[c]] \in Up /\ srv[c] # None
  <2>1. Alive(on[c]) /\ on[c] \in Sessions /\ on[c] # None
    BY DEF Alive
  <2>2. on[c] \in Owned(sessions)
    BY <1>2, <2>1 DEF Owned
  <2> QED
    BY <1>2, <2>1, <2>2 DEF Up
<1>4. CASE pc[c] = "wait"
  <2>1. first[c] = None /\ second[c] = None
    BY <1>4 DEF OneCallAtATime
  <2>2. /\ [d \in Callers |-> first[d]]'
             = [[d \in Callers |-> first[d]] EXCEPT ![c] = on[c]]
        /\ [d \in Callers |-> second[d]]' = [d \in Callers |-> second[d]]
        /\ [d \in Callers |-> srv[d]]' = [d \in Callers |-> srv[d]]
    BY <1>4
  <2> QED
    BY <1>1, <1>2, <1>3, <2>1, <2>2 DEF Pool!Run, Up, Past
<1>5. CASE pc[c] = "rewait"
  <2>1. first[c] \notin Up /\ second[c] = None
    BY <1>5 DEF RerunOnlyAfterLoss, Up
  <2>2. /\ [d \in Callers |-> second[d]]'
             = [[d \in Callers |-> second[d]] EXCEPT ![c] = on[c]]
        /\ [d \in Callers |-> first[d]]' = [d \in Callers |-> first[d]]
        /\ [d \in Callers |-> srv[d]]' = [d \in Callers |-> srv[d]]
    BY <1>5
  <2> QED
    BY <1>1, <1>2, <1>3, <2>1, <2>2 DEF Pool!Run, Up, Past
<1> QED
  BY <1>4, <1>5

(* Steps that touch neither sessions, nor their transports, nor calls.      *)
LEMMA QuietImplements ==
    ASSUME UNCHANGED <<sessions, status, fresh, CallView>>
    PROVE  UNCHANGED Pool!vars
<1>1. Up' = Up /\ Past' = Past
  BY DEF Up, Past, Owned, Alive
<1> QED
  BY <1>1, Stutter

(* Every step of Manager is a step of the pool, or none it can see.         *)
LEMMA StepImplements == RefInv /\ [Next]_vars => [Pool!Next]_(Pool!vars)
<1> SUFFICES ASSUME RefInv, [Next]_vars PROVE Pool!Next \/ UNCHANGED Pool!vars
  OBVIOUS
<1> DEFINE Goal == Pool!Next \/ UNCHANGED Pool!vars
<1>0. TypeOK
  BY DEF RefInv, FullInv, CoreInv
<1> USE DEF mgrVars, worldVars, callVars, runVars
<1>1. CASE NewManager
  <2>1. ASSUME NEW s \in Servers, NEW k \in Sessions, DialInitial(s, k)
        PROVE  Goal
    BY <2>1, DialInitialImplements DEF Pool!Next
  <2>2. ASSUME NEW s \in Servers, DialInitialFails(s) PROVE Goal
    BY <2>2, ConnectFailsHidden, Stutter DEF DialInitialFails, CallView
  <2>3. CASE NewManagerReturns
    BY <2>3, QuietImplements DEF NewManagerReturns, CallView
  <2> QED
    BY <1>1, <2>1, <2>2, <2>3 DEF NewManager
<1>2. CASE Close
  <2>1. CASE CloseBegin \/ CloseEnd
    BY <2>1, QuietImplements DEF CloseBegin, CloseEnd, CallView
  <2>2. ASSUME NEW s \in Servers, CloseSession(s) PROVE Goal
    <3>1. /\ sessions[s] \in Sessions
          /\ status[sessions[s]] \in {"live", "dead", "closed"}
      BY <1>0, <2>2 DEF CloseSession, RefInv, FullInv, CoreInv, NothingReused,
         CloseLoop, Used, TypeOK
    <3> QED
      BY <2>2, <3>1, LossImplements DEF CloseSession, CallView, Pool!Next
  <2> QED
    BY <1>2, <2>1, <2>2 DEF Close
<1>3. CASE HealthLoop
  <2>1. UNCHANGED <<sessions, status, fresh, first, second>>
    BY <1>3 DEF HealthLoop, Tick, TickEnd, CheckServer
  <2>2. [c \in Callers |-> srv[c]]' = [c \in Callers |-> srv[c]]
    BY <1>0, <1>3, ManagerAssumption
    DEF TypeOK, Procs, HealthLoop, Tick, TickEnd, CheckServer
  <2> QED
    BY <2>1, <2>2, QuietImplements DEF CallView
<1>4. ASSUME NEW k \in Sessions, Break(k) PROVE Goal
  BY <1>4, LossImplements DEF Break, Alive, CallView, Pool!Next
<1>5. ASSUME NEW c \in Callers, NEW s \in Servers, CallTool(c, s) PROVE Goal
  BY <1>5, CallToolImplements DEF Pool!Next
<1>6. ASSUME NEW c \in Callers, Reread(c) PROVE Goal
  BY <1>6, QuietImplements DEF Reread, CallView
<1>7. ASSUME NEW p \in Procs, Exchange(p) PROVE Goal
  <2>1. CASE Send(p)
    BY <2>1, QuietImplements DEF Send, CallView
  <2>2. CASE Run(p)
    BY <2>2, RunImplements DEF Run, Pool!Next
  <2>3. ASSUME NEW from, Return(p, from), from \intersect {"idle", "pick"} = {},
               UNCHANGED <<sessions, status>>
        PROVE  Goal
    <3>1. Up' = Up /\ Past' = Past
      BY <2>3 DEF Return, Up, Past, Owned, Alive
    <3> QED
      BY <2>3, <3>1, ReturnImplements DEF Pool!Next
  <2>4. CASE Answer(p) \/ Fail(p)
    BY <2>3, <2>4 DEF Answer, Fail
  <2>5. CASE ConnectionClosed(p)
    BY <2>3, <2>5, QuietImplements DEF ConnectionClosed, CallView
  <2> QED
    BY <1>7, <2>1, <2>2, <2>4, <2>5 DEF Exchange
<1>8. ASSUME NEW p \in Procs, Reconnect(p) PROVE Goal
  <2>1. CASE LockReconnect(p) \/ CheckCurrent(p)
    BY <2>1, QuietImplements DEF LockReconnect, CheckCurrent, CallView
  <2>2. ASSUME NEW k \in Sessions, Dial(p, k) PROVE Goal
    BY <2>2, DialImplements
  <2>3. CASE DialFails(p)
    <3>1. Up' = Up /\ Past' = Past
      BY <2>3, ConnectFailsHidden DEF DialFails, Return
    <3> QED
      BY <2>3, <3>1, ReturnImplements DEF DialFails, Pool!Next
  <2>4. CASE Swap(p)
    <3>1. PICK s \in Servers, k \in Sessions : s = srv[p] /\ k = fresh[p]
      BY <2>4 DEF Swap, Move, RefInv, FullInv, CoreInv, Locals
    <3> QED
      BY <2>4, <3>1, SwapImplements DEF Pool!Next
  <2>5. CASE ReleaseOld(p)
    <3>1. on[p] \in Sessions /\ status[on[p]] \in {"dead", "closed"}
      BY <1>0, <2>5 DEF ReleaseOld, Move, RefInv, FullInv, CoreInv, Locals,
         NothingReused, Used, Alive, TypeOK
    <3> QED
      BY <2>5, <3>1, LossImplements DEF ReleaseOld, CallView, Pool!Next
  <2>6. CASE UnlockReconnect(p)
    <3>1. CASE Return(p, {"unlock"})
      <4>1. Up' = Up /\ Past' = Past
        BY <2>6, <3>1 DEF UnlockReconnect, Return, Up, Past, Owned, Alive
      <4> QED
        BY <2>6, <3>1, <4>1, ReturnImplements DEF UnlockReconnect, Pool!Next
    <3>2. CASE UNCHANGED callVars
      BY <2>6, <3>2, QuietImplements DEF UnlockReconnect, CallView
    <3> QED
      BY <2>6, <3>1, <3>2 DEF UnlockReconnect
  <2> QED
    BY <1>8, <2>1, <2>2, <2>3, <2>4, <2>5, <2>6 DEF Reconnect
<1>9. CASE UNCHANGED vars
  BY <1>9, QuietImplements DEF vars, CallView
<1> QED
  BY <1>1, <1>2, <1>3, <1>4, <1>5, <1>6, <1>7, <1>8, <1>9 DEF Next

(* downstream.Manager keeps the promises of ServerPool: calls run on live   *)
(* current sessions only, at most twice, and a good session stays.          *)
THEOREM ManagerImplementsPool == Spec => ImplementsPool
<1>1. Init => Pool!Init
  BY InitImplements
<1>2. RefInv /\ [Next]_vars => [Pool!Next]_(Pool!vars)
  BY StepImplements
<1> QED
  BY <1>1, <1>2, RefInvariant, PTL DEF Spec, ImplementsPool, Pool!Spec
=============================================================================
