--------------------------- MODULE ManagerProofs ---------------------------
(* Proofs about downstream.Manager, for any set of servers, callers and     *)
(* any number of sessions.                                                  *)
EXTENDS Manager, TLAPS

(* A manager is handed out only when every connect succeeded, and until     *)
(* then no goroutine is in it.                                              *)
HandedOut ==
    /\ \A s \in Servers : dialled[s] = "ok" => sessions[s] \in Sessions
    /\ \A s \in Servers : dialled[s] # "ok" => sessions[s] = None
    /\ phase \in {"open", "closing", "closed"} =>
           \A s \in Servers : dialled[s] = "ok"
    /\ phase \in {"dialling", "aborting", "failed"} =>
           \A p \in Procs : pc[p] = "idle"

(* Inside a call or a health check, the goroutine knows its server and has  *)
(* a session of it.                                                         *)
Locals ==
    \A p \in Procs :
        /\ pc[p] \notin {"idle", "pick"} =>
               srv[p] \in Servers /\ on[p] \in Sessions
        /\ pc[p] = "swap" => fresh[p] \in Sessions
        /\ p \in Callers => pc[p] # "pick"
        /\ p = Pinger => pc[p] \notin {"reread", "resend", "rewait"}

(* Reconnect runs under the mutex of its server.                            *)
MutexHeld ==
    \A p \in Procs : pc[p] \in Locked => reMu[srv[p]] = p

(* A session in use was dialled, so a dial never reuses it; and the session *)
(* that Reconnect was called about is gone for good.                        *)
Used(k) == k \in Sessions => status[k] \notin {"unused", "failed"}

NothingReused ==
    /\ \A s \in Servers : Used(sessions[s])
    /\ \A p \in Procs :
        /\ Used(on[p]) /\ Used(fresh[p]) /\ Used(first[p])
        /\ pc[p] \in {"broken", "check", "dial", "swap", "release", "unlock",
                     "reread"} => ~Alive(on[p])

(* The step of CheckCurrent still holds at Swap.                            *)
StillBad ==
    \A p \in Procs : pc[p] \in {"dial", "swap"} => sessions[srv[p]] = on[p]

CoreInv ==
    /\ TypeOK
    /\ HandedOut
    /\ Locals
    /\ MutexHeld
    /\ NothingReused
    /\ StillBad

-----------------------------------------------------------------------------
(* The second half of the invariant: nothing that was dialled gets lost.    *)

(* A session between connect and Swap is known to its Reconnect only.       *)
FreshUnseen ==
    \A p \in Procs : fresh[p] # None =>
        /\ pc[p] = "swap"
        /\ \A s \in Servers : sessions[s] # fresh[p]
        /\ \A q \in Procs : on[q] # fresh[p] /\ (fresh[q] = fresh[p] => q = p)

(* After a Reconnect that succeeded, the bad session is no longer current.  *)
MovedOn ==
    \A p \in Procs :
        pc[p] \in {"release", "unlock", "reread"} => sessions[srv[p]] # on[p]

(* A server without a result has no process, and only stdio servers spawn.  *)
TreesFit ==
    /\ \A s \in Servers : dialled[s] # "ok" => cmds[s] = None
    /\ \A p \in Procs :
        pc[p] = "swap" /\ srv[p] \notin StdioServers => tree[fresh[p]] # "up"

(* Until it reads the session again, a goroutine's call ran nowhere but on  *)
(* the session it was first sent to.                                        *)
FirstHere ==
    \A p \in Procs :
        /\ pc[p] \in {"idle", "pick"} => first[p] = None
        /\ pc[p] \notin {"resend", "rewait"} => first[p] \in {None, on[p]}

AcctInv ==
    /\ FreshUnseen
    /\ MovedOn
    /\ TreesFit
    /\ FirstHere
    /\ SessionsAccountedFor
    /\ TreesAccountedFor
    /\ RerunOnlyAfterLoss
    /\ FailedNewManagerLeavesNothing

(* The loop of Close: what it has still to close is a server with a session;*)
(* a session of any other server is closed already, and stays so, since     *)
(* closed transports do not break and no Reconnect swaps while Close runs.  *)
CloseLoop ==
    /\ \A s \in left : sessions[s] # None
    /\ phase \in {"aborting", "closing"} =>
           \A s \in Servers : sessions[s] # None /\ s \notin left
                              => status[sessions[s]] = "closed"

FullInv == CoreInv /\ CloseLoop /\ AcctInv

(* NewManager starts with nothing dialled and nobody inside.                *)
LEMMA InitCore == Init => CoreInv
<1> SUFFICES ASSUME Init PROVE CoreInv
  OBVIOUS
<1> USE ManagerAssumption DEF Init
<1>1. TypeOK
  BY DEF TypeOK, Phases, Locs
<1>2. HandedOut
  BY DEF HandedOut
<1>3. Locals
  BY DEF Locals
<1>4. MutexHeld
  BY DEF MutexHeld, Locked
<1>5. NothingReused
  BY DEF NothingReused, Used, Alive, Sessions
<1>6. StillBad
  BY DEF StillBad
<1> QED
  BY <1>1, <1>2, <1>3, <1>4, <1>5, <1>6 DEF CoreInv

(* Nothing was dialled, so nothing can be lost.                             *)
LEMMA InitAcct == Init => AcctInv
<1> SUFFICES ASSUME Init PROVE AcctInv
  OBVIOUS
<1> USE ManagerAssumption DEF Init
<1>1. FreshUnseen /\ MovedOn
  BY DEF FreshUnseen, MovedOn
<1>2. TreesFit /\ FirstHere
  BY DEF TreesFit, FirstHere
<1>3. SessionsAccountedFor /\ TreesAccountedFor
  BY DEF SessionsAccountedFor, TreesAccountedFor
<1>4. RerunOnlyAfterLoss /\ FailedNewManagerLeavesNothing
  BY DEF RerunOnlyAfterLoss, FailedNewManagerLeavesNothing, Procs
<1> QED
  BY <1>1, <1>2, <1>3, <1>4 DEF AcctInv

-----------------------------------------------------------------------------
(* Every step preserves CoreInv.                                            *)

(* CoreInv is kept when a connect goroutine of NewManager reports a session. *)
LEMMA DialInitialCore ==
    ASSUME CoreInv, NEW s \in Servers, NEW k \in Sessions, DialInitial(s, k)
    PROVE  CoreInv'
<1> USE ManagerAssumption DEF DialInitial, callVars, runVars, TreeOf, CmdOf,
        Fresh
<1>1. TypeOK'
  BY DEF CoreInv, TypeOK, Phases, Locs
<1>2. HandedOut' /\ Locals' /\ MutexHeld' /\ StillBad'
  BY <1>1 DEF CoreInv, TypeOK, HandedOut, Locals, MutexHeld, StillBad, Locked
<1>3. NothingReused'
  BY <1>1 DEF CoreInv, TypeOK, NothingReused, Used, Alive
<1> QED
  BY <1>1, <1>2, <1>3 DEF CoreInv

(* CoreInv is kept when a connect goroutine of NewManager reports an error. *)
LEMMA DialInitialFailsCore ==
    ASSUME CoreInv, NEW s \in Servers, DialInitialFails(s)
    PROVE  CoreInv'
<1> USE ManagerAssumption DEF DialInitialFails, callVars, runVars,
        ConnectFails, Fresh, worldVars
<1>1. TypeOK'
  BY DEF CoreInv, TypeOK, Phases, Locs
<1>2. HandedOut' /\ Locals' /\ MutexHeld' /\ StillBad'
  BY <1>1 DEF CoreInv, TypeOK, HandedOut, Locals, MutexHeld, StillBad, Locked
<1>3. NothingReused'
  BY <1>1 DEF CoreInv, TypeOK, NothingReused, Used, Alive
<1> QED
  BY <1>1, <1>2, <1>3 DEF CoreInv

(* CoreInv is kept when NewManager has all results.                         *)
LEMMA NewManagerReturnsCore ==
    ASSUME CoreInv, NewManagerReturns
    PROVE  CoreInv'
<1> USE ManagerAssumption
    DEF NewManagerReturns, Held, callVars, runVars, worldVars
<1>1. TypeOK'
  BY SMTT(30) DEF CoreInv, TypeOK, Locals, HandedOut, Phases, Locs, Procs
<1>2. HandedOut' /\ Locals' /\ MutexHeld' /\ StillBad'
  BY <1>1 DEF CoreInv, TypeOK, HandedOut, Locals, MutexHeld, StillBad, Locked
<1>3. NothingReused'
  BY <1>1 DEF CoreInv, TypeOK, NothingReused, Used, Alive
<1> QED
  BY <1>1, <1>2, <1>3 DEF CoreInv

(* CoreInv is kept when Close takes the write lock.                         *)
LEMMA CloseBeginCore ==
    ASSUME CoreInv, CloseBegin
    PROVE  CoreInv'
<1> USE ManagerAssumption DEF CloseBegin, Held, callVars, runVars, worldVars
<1>1. TypeOK'
  BY DEF CoreInv, TypeOK, Phases, Locs
<1>2. HandedOut' /\ Locals' /\ MutexHeld' /\ StillBad'
  BY <1>1 DEF CoreInv, TypeOK, HandedOut, Locals, MutexHeld, StillBad, Locked
<1>3. NothingReused'
  BY <1>1 DEF CoreInv, TypeOK, NothingReused, Used, Alive
<1> QED
  BY <1>1, <1>2, <1>3 DEF CoreInv

(* CoreInv is kept when Close closes a session.                             *)
LEMMA CloseSessionCore ==
    ASSUME CoreInv, NEW s \in Servers, CloseSession(s)
    PROVE  CoreInv'
<1> USE ManagerAssumption DEF CloseSession, callVars, runVars, mgrVars
<1>1. TypeOK'
  BY DEF CoreInv, TypeOK, Phases, Locs
<1>2. HandedOut' /\ Locals' /\ MutexHeld' /\ StillBad'
  BY <1>1 DEF CoreInv, TypeOK, HandedOut, Locals, MutexHeld, StillBad, Locked
<1>3. NothingReused'
  BY <1>1 DEF CoreInv, TypeOK, NothingReused, Used, Alive
<1> QED
  BY <1>1, <1>2, <1>3 DEF CoreInv

(* CoreInv is kept when Close kills the process trees and returns.          *)
LEMMA CloseEndCore ==
    ASSUME CoreInv, CloseEnd
    PROVE  CoreInv'
<1> USE ManagerAssumption DEF CloseEnd, callVars, runVars, Owned
<1>1. TypeOK'
  BY DEF CoreInv, TypeOK, Phases, Locs
<1>2. HandedOut' /\ Locals' /\ MutexHeld' /\ StillBad'
  BY <1>1 DEF CoreInv, TypeOK, HandedOut, Locals, MutexHeld, StillBad, Locked
<1>3. NothingReused'
  BY <1>1 DEF CoreInv, TypeOK, NothingReused, Used, Alive
<1> QED
  BY <1>1, <1>2, <1>3 DEF CoreInv

(* CoreInv is kept when a transport breaks.                                 *)
LEMMA BreakCore ==
    ASSUME CoreInv, NEW k \in Sessions, Break(k)
    PROVE  CoreInv'
<1> USE ManagerAssumption DEF Break, callVars, runVars, mgrVars, Alive
<1>1. TypeOK'
  BY DEF CoreInv, TypeOK, Phases, Locs
<1>2. HandedOut' /\ Locals' /\ MutexHeld' /\ StillBad'
  BY <1>1 DEF CoreInv, TypeOK, HandedOut, Locals, MutexHeld, StillBad, Locked
<1>3. NothingReused'
  BY <1>1 DEF CoreInv, TypeOK, NothingReused, Used
<1> QED
  BY <1>1, <1>2, <1>3 DEF CoreInv

(* CoreInv is kept when a call reads the session it is for.                 *)
LEMMA CallToolCore ==
    ASSUME CoreInv, NEW c \in Callers, NEW s \in Servers, CallTool(c, s)
    PROVE  CoreInv'
<1> USE ManagerAssumption DEF CallTool, runVars, worldVars, mgrVars, Move
<1>1. TypeOK'
  BY DEF CoreInv, TypeOK, Phases, Locs
<1>2. HandedOut' /\ Locals' /\ MutexHeld' /\ StillBad'
  BY <1>1 DEF CoreInv, TypeOK, HandedOut, Locals, MutexHeld, StillBad, Locked
<1>3. NothingReused'
  BY <1>1 DEF CoreInv, TypeOK, NothingReused, Used, Alive
<1> QED
  BY <1>1, <1>2, <1>3 DEF CoreInv

(* CoreInv is kept when a round of the health loop begins.                  *)
LEMMA TickCore ==
    ASSUME CoreInv, Tick
    PROVE  CoreInv'
<1> USE ManagerAssumption DEF Tick, runVars, worldVars, mgrVars, Move
<1>1. TypeOK'
  BY DEF CoreInv, TypeOK, Phases, Locs
<1>2. HandedOut' /\ Locals' /\ MutexHeld' /\ StillBad'
  BY <1>1 DEF CoreInv, TypeOK, HandedOut, Locals, MutexHeld, StillBad, Locked
<1>3. NothingReused'
  BY <1>1 DEF CoreInv, TypeOK, NothingReused, Used, Alive
<1> QED
  BY <1>1, <1>2, <1>3 DEF CoreInv

(* CoreInv is kept when the health loop takes the next server.              *)
LEMMA CheckServerCore ==
    ASSUME CoreInv, NEW s \in Servers, CheckServer(s)
    PROVE  CoreInv'
<1> USE ManagerAssumption DEF CheckServer, runVars, worldVars, mgrVars, Move,
        Unlocked
<1>1. TypeOK'
  BY DEF CoreInv, TypeOK, Phases, Locs
<1>2. HandedOut' /\ Locals' /\ MutexHeld' /\ StillBad'
  BY <1>1 DEF CoreInv, TypeOK, HandedOut, Locals, MutexHeld, StillBad, Locked,
     Procs, Phases
<1>3. NothingReused'
  BY <1>1 DEF CoreInv, TypeOK, NothingReused, Used, Alive
<1> QED
  BY <1>1, <1>2, <1>3 DEF CoreInv

(* CoreInv is kept when a round of the health loop ends.                    *)
LEMMA TickEndCore ==
    ASSUME CoreInv, TickEnd
    PROVE  CoreInv'
<1> USE ManagerAssumption DEF TickEnd, callVars, runVars, worldVars, mgrVars,
        Move
<1>1. TypeOK'
  BY DEF CoreInv, TypeOK, Phases, Locs
<1>2. HandedOut' /\ Locals' /\ MutexHeld' /\ StillBad'
  BY <1>1 DEF CoreInv, TypeOK, HandedOut, Locals, MutexHeld, StillBad, Locked
<1>3. NothingReused'
  BY <1>1 DEF CoreInv, TypeOK, NothingReused, Used, Alive
<1> QED
  BY <1>1, <1>2, <1>3 DEF CoreInv

(* CoreInv is kept when a request goes out.                                 *)
LEMMA SendCore ==
    ASSUME CoreInv, NEW p \in Procs, Send(p)
    PROVE  CoreInv'
<1> USE ManagerAssumption DEF Send, callVars, runVars, worldVars, mgrVars,
        Move, Alive
<1>1. TypeOK'
  BY DEF CoreInv, TypeOK, Phases, Locs
<1>2. HandedOut' /\ Locals' /\ MutexHeld' /\ StillBad'
  BY <1>1 DEF CoreInv, TypeOK, HandedOut, Locals, MutexHeld, StillBad, Locked
<1>3. NothingReused'
  BY <1>1 DEF CoreInv, TypeOK, NothingReused, Used
<1> QED
  BY <1>1, <1>2, <1>3 DEF CoreInv

(* CoreInv is kept when the downstream runs a call.                         *)
LEMMA RunCore ==
    ASSUME CoreInv, NEW p \in Procs, Run(p)
    PROVE  CoreInv'
<1> USE ManagerAssumption DEF Run, worldVars, mgrVars, Alive
<1>1. TypeOK'
  BY DEF CoreInv, TypeOK, Phases, Locs
<1>2. HandedOut' /\ Locals' /\ MutexHeld' /\ StillBad'
  BY <1>1 DEF CoreInv, TypeOK, HandedOut, Locals, MutexHeld, StillBad, Locked
<1>3. NothingReused'
  BY <1>1 DEF CoreInv, TypeOK, NothingReused, Used
<1> QED
  BY <1>1, <1>2, <1>3 DEF CoreInv

(* CoreInv is kept when an answer arrives.                                  *)
LEMMA AnswerCore ==
    ASSUME CoreInv, NEW p \in Procs, Answer(p)
    PROVE  CoreInv'
<1> USE ManagerAssumption DEF Answer, worldVars, mgrVars, Return, Move, Alive
<1>1. TypeOK'
  BY DEF CoreInv, TypeOK, Phases, Locs
<1>2. HandedOut' /\ Locals' /\ MutexHeld' /\ StillBad'
  BY <1>1 DEF CoreInv, TypeOK, HandedOut, Locals, MutexHeld, StillBad, Locked
<1>3. NothingReused'
  BY <1>1 DEF CoreInv, TypeOK, NothingReused, Used
<1> QED
  BY <1>1, <1>2, <1>3 DEF CoreInv

(* CoreInv is kept when a request fails on a session that may well be alive. *)
LEMMA FailCore ==
    ASSUME CoreInv, NEW p \in Procs, Fail(p)
    PROVE  CoreInv'
<1> USE ManagerAssumption DEF Fail, worldVars, mgrVars, Return, Move, Alive
<1>1. TypeOK'
  BY DEF CoreInv, TypeOK, Phases, Locs
<1>2. HandedOut' /\ Locals' /\ MutexHeld' /\ StillBad'
  BY <1>1 DEF CoreInv, TypeOK, HandedOut, Locals, MutexHeld, StillBad, Locked
<1>3. NothingReused'
  BY <1>1 DEF CoreInv, TypeOK, NothingReused, Used
<1> QED
  BY <1>1, <1>2, <1>3 DEF CoreInv

(* CoreInv is kept when a request finds its session gone.                   *)
LEMMA ConnectionClosedCore ==
    ASSUME CoreInv, NEW p \in Procs, ConnectionClosed(p)
    PROVE  CoreInv'
<1> USE ManagerAssumption DEF ConnectionClosed, worldVars, mgrVars, Return,
        Move, callVars, runVars, Alive
<1>1. TypeOK'
  BY DEF CoreInv, TypeOK, Phases, Locs
<1>2. HandedOut' /\ Locals' /\ MutexHeld' /\ StillBad'
  BY <1>1 DEF CoreInv, TypeOK, HandedOut, Locals, MutexHeld, StillBad, Locked
<1>3. NothingReused'
  BY <1>1 DEF CoreInv, TypeOK, NothingReused, Used
<1> QED
  BY <1>1, <1>2, <1>3 DEF CoreInv

(* CoreInv is kept when Reconnect gets the mutex of its server.             *)
LEMMA LockReconnectCore ==
    ASSUME CoreInv, NEW p \in Procs, LockReconnect(p)
    PROVE  CoreInv'
<1> USE ManagerAssumption DEF LockReconnect, callVars, runVars, worldVars,
        Unlocked, Move
<1>1. TypeOK'
  BY DEF CoreInv, TypeOK, Phases, Locs
<1>2. HandedOut' /\ Locals' /\ MutexHeld' /\ StillBad'
  BY <1>1 DEF CoreInv, TypeOK, HandedOut, Locals, MutexHeld, StillBad, Locked
<1>3. NothingReused'
  BY <1>1 DEF CoreInv, TypeOK, NothingReused, Used, Alive
<1> QED
  BY <1>1, <1>2, <1>3 DEF CoreInv

(* CoreInv is kept when Reconnect compares the current session with `bad`.  *)
LEMMA CheckCurrentCore ==
    ASSUME CoreInv, NEW p \in Procs, CheckCurrent(p)
    PROVE  CoreInv'
<1> USE ManagerAssumption DEF CheckCurrent, callVars, runVars, worldVars,
        mgrVars, Move, Unlocked
<1>1. TypeOK'
  BY DEF CoreInv, TypeOK, Phases, Locs
<1>2. HandedOut' /\ Locals' /\ MutexHeld' /\ StillBad'
  BY <1>1 DEF CoreInv, TypeOK, HandedOut, Locals, MutexHeld, StillBad, Locked
<1>3. NothingReused'
  BY <1>1 DEF CoreInv, TypeOK, NothingReused, Used, Alive
<1> QED
  BY <1>1, <1>2, <1>3 DEF CoreInv

(* CoreInv is kept when Reconnect has dialled a session.                    *)
LEMMA DialCore ==
    ASSUME CoreInv, NEW p \in Procs, NEW k \in Sessions, Dial(p, k)
    PROVE  CoreInv'
<1> USE ManagerAssumption DEF Dial, runVars, mgrVars, TreeOf, Move, Fresh
<1>1. TypeOK'
  BY DEF CoreInv, TypeOK, Phases, Locs
<1>2. HandedOut' /\ Locals' /\ MutexHeld' /\ StillBad'
  BY <1>1 DEF CoreInv, TypeOK, HandedOut, Locals, MutexHeld, StillBad, Locked
<1>3. NothingReused'
  BY <1>1 DEF CoreInv, TypeOK, NothingReused, Used, Alive
<1> QED
  BY <1>1, <1>2, <1>3 DEF CoreInv

(* CoreInv is kept when Reconnect fails to dial.                            *)
LEMMA DialFailsCore ==
    ASSUME CoreInv, NEW p \in Procs, DialFails(p)
    PROVE  CoreInv'
<1> USE ManagerAssumption DEF DialFails, ConnectFails, Fresh, worldVars,
        Return, Move
<1>1. TypeOK'
  BY DEF CoreInv, TypeOK, Phases, Locs
<1>2. HandedOut' /\ Locals' /\ MutexHeld' /\ StillBad'
  BY <1>1 DEF CoreInv, TypeOK, HandedOut, Locals, MutexHeld, StillBad, Locked
<1>3. NothingReused'
  BY <1>1 DEF CoreInv, TypeOK, NothingReused, Used, Alive
<1> QED
  BY <1>1, <1>2, <1>3 DEF CoreInv

(* CoreInv is kept when Reconnect installs the new session.                 *)
LEMMA SwapCore ==
    ASSUME CoreInv, NEW p \in Procs, Swap(p)
    PROVE  CoreInv'
<1> USE ManagerAssumption DEF Swap, runVars, worldVars, CmdOf, Move, Unlocked
<1>1. TypeOK'
  BY DEF CoreInv, TypeOK, Locals, Phases, Locs, Procs
<1>2. HandedOut' /\ Locals' /\ MutexHeld' /\ StillBad'
  BY <1>1 DEF CoreInv, TypeOK, HandedOut, Locals, MutexHeld, StillBad, Locked
<1>3. NothingReused'
  BY <1>1 DEF CoreInv, TypeOK, NothingReused, Used, Alive
<1> QED
  BY <1>1, <1>2, <1>3 DEF CoreInv

(* CoreInv is kept when Reconnect closes what it replaced.                  *)
LEMMA ReleaseOldCore ==
    ASSUME CoreInv, NEW p \in Procs, ReleaseOld(p)
    PROVE  CoreInv'
<1> USE ManagerAssumption DEF ReleaseOld, runVars, mgrVars, Move
<1>1. TypeOK'
  BY DEF CoreInv, TypeOK, Phases, Locs
<1>2. HandedOut' /\ Locals' /\ MutexHeld' /\ StillBad'
  BY <1>1 DEF CoreInv, TypeOK, HandedOut, Locals, MutexHeld, StillBad, Locked
<1>3. NothingReused'
  BY <1>1 DEF CoreInv, TypeOK, NothingReused, Used, Alive
<1> QED
  BY <1>1, <1>2, <1>3 DEF CoreInv

(* CoreInv is kept when Reconnect returns.                                  *)
LEMMA UnlockReconnectCore ==
    ASSUME CoreInv, NEW p \in Procs, UnlockReconnect(p)
    PROVE  CoreInv'
<1> USE ManagerAssumption DEF UnlockReconnect, worldVars, callVars, runVars,
        Move, Return
<1>0. TypeOK /\ reMu' \in [Servers -> Procs \union {None}]
  BY DEF CoreInv, TypeOK
<1>1. TypeOK'
  <2>1. CASE p = Pinger /\ Return(p, {"unlock"})
    BY <1>0, <2>1 DEF TypeOK, Locs
  <2>2. CASE p \in Callers /\ Move(p, {"unlock"}, "reread") /\ UNCHANGED callVars
    BY <1>0, <2>2 DEF TypeOK, Locs
  <2>3. QED
    BY <2>1, <2>2
<1>2. HandedOut' /\ Locals' /\ MutexHeld' /\ StillBad'
  BY <1>1 DEF CoreInv, TypeOK, HandedOut, Locals, MutexHeld, StillBad, Locked
<1>3. NothingReused'
  BY <1>1 DEF CoreInv, TypeOK, NothingReused, Used, Alive
<1> QED
  BY <1>1, <1>2, <1>3 DEF CoreInv

(* CoreInv is kept when CallTool reads the session for its retry.           *)
LEMMA RereadCore ==
    ASSUME CoreInv, NEW p \in Procs, Reread(p)
    PROVE  CoreInv'
<1> USE ManagerAssumption DEF Reread, runVars, worldVars, mgrVars, Move,
        Unlocked
<1>1. TypeOK'
  BY DEF CoreInv, TypeOK, Locals, Phases, Locs, Procs
<1>2. HandedOut' /\ Locals' /\ MutexHeld' /\ StillBad'
  BY <1>1 DEF CoreInv, TypeOK, HandedOut, Locals, MutexHeld, StillBad, Locked,
     Procs, Phases
<1>3. NothingReused'
  BY <1>1 DEF CoreInv, TypeOK, NothingReused, Locals, Used, Alive, Procs,
     Phases
<1> QED
  BY <1>1, <1>2, <1>3 DEF CoreInv

-----------------------------------------------------------------------------
(* Every step preserves AcctInv.                                            *)

(* AcctInv is kept when a connect goroutine of NewManager reports a session. *)
LEMMA DialInitialAcct ==
    ASSUME FullInv, NEW s \in Servers, NEW k \in Sessions, DialInitial(s, k)
    PROVE  AcctInv'
<1> USE ManagerAssumption DEF DialInitial, callVars, runVars, TreeOf, CmdOf,
        Fresh
<1>1. FreshUnseen' /\ MovedOn'
  BY SMTT(30) DEF FullInv, AcctInv, CoreInv, TypeOK, Locals, FreshUnseen,
     MovedOn, NothingReused, Used, Alive, Procs
<1>2. TreesFit' /\ FirstHere'
  BY SMTT(30) DEF FullInv, AcctInv, CoreInv, TypeOK, Locals, TreesFit,
     FirstHere, NothingReused, Used, Alive, Procs
<1>3. SessionsAccountedFor' /\ TreesAccountedFor'
  BY SMTT(30) DEF FullInv, AcctInv, CoreInv, TypeOK, Locals,
     SessionsAccountedFor, TreesAccountedFor, NothingReused, HandedOut,
     FreshUnseen, FirstHere, TreesFit, Used, Alive, Owned, Procs, Phases
<1>4. RerunOnlyAfterLoss' /\ FailedNewManagerLeavesNothing'
  BY SMTT(30) DEF FullInv, AcctInv, CoreInv, TypeOK, Locals,
     RerunOnlyAfterLoss, FailedNewManagerLeavesNothing, NothingReused, Used,
     Alive, Owned, Procs
<1> QED
  BY <1>1, <1>2, <1>3, <1>4 DEF AcctInv

(* AcctInv is kept when a connect goroutine of NewManager reports an error. *)
LEMMA DialInitialFailsAcct ==
    ASSUME FullInv, NEW s \in Servers, DialInitialFails(s)
    PROVE  AcctInv'
<1> USE ManagerAssumption DEF DialInitialFails, callVars, runVars,
        ConnectFails, Fresh, worldVars
<1>1. FreshUnseen' /\ MovedOn'
  BY DEF FullInv, AcctInv, CoreInv, TypeOK, FreshUnseen, MovedOn
<1>2. TreesFit' /\ FirstHere'
  BY SMTT(30) DEF FullInv, AcctInv, CoreInv, TypeOK, Locals, TreesFit,
     FirstHere, NothingReused, Used, Alive, Procs
<1>3. SessionsAccountedFor' /\ TreesAccountedFor'
  BY DEF FullInv, AcctInv, CoreInv, TypeOK, SessionsAccountedFor,
     TreesAccountedFor, Owned
<1>4. RerunOnlyAfterLoss' /\ FailedNewManagerLeavesNothing'
  BY DEF FullInv, AcctInv, CoreInv, TypeOK, RerunOnlyAfterLoss,
     FailedNewManagerLeavesNothing, Alive, Owned
<1> QED
  BY <1>1, <1>2, <1>3, <1>4 DEF AcctInv

(* AcctInv is kept when NewManager has all results.                         *)
LEMMA NewManagerReturnsAcct ==
    ASSUME FullInv, NewManagerReturns
    PROVE  AcctInv'
<1> USE ManagerAssumption
    DEF NewManagerReturns, Held, callVars, runVars, worldVars
<1>1. FreshUnseen' /\ MovedOn'
  BY DEF FullInv, AcctInv, CoreInv, TypeOK, FreshUnseen, MovedOn
<1>2. TreesFit' /\ FirstHere'
  BY DEF FullInv, AcctInv, CoreInv, TypeOK, TreesFit, FirstHere
<1>3. SessionsAccountedFor' /\ TreesAccountedFor'
  BY DEF FullInv, AcctInv, CoreInv, TypeOK, SessionsAccountedFor,
     TreesAccountedFor, Owned
<1>4. RerunOnlyAfterLoss' /\ FailedNewManagerLeavesNothing'
  BY DEF FullInv, AcctInv, CoreInv, TypeOK, RerunOnlyAfterLoss,
     FailedNewManagerLeavesNothing, Alive, Owned
<1> QED
  BY <1>1, <1>2, <1>3, <1>4 DEF AcctInv

(* AcctInv is kept when Close takes the write lock.                         *)
LEMMA CloseBeginAcct ==
    ASSUME FullInv, CloseBegin
    PROVE  AcctInv'
<1> USE ManagerAssumption DEF CloseBegin, Held, callVars, runVars, worldVars
<1>1. FreshUnseen' /\ MovedOn'
  BY DEF FullInv, AcctInv, CoreInv, TypeOK, FreshUnseen, MovedOn
<1>2. TreesFit' /\ FirstHere'
  BY DEF FullInv, AcctInv, CoreInv, TypeOK, TreesFit, FirstHere
<1>3. SessionsAccountedFor' /\ TreesAccountedFor'
  BY DEF FullInv, AcctInv, CoreInv, TypeOK, SessionsAccountedFor,
     TreesAccountedFor, Owned
<1>4. RerunOnlyAfterLoss' /\ FailedNewManagerLeavesNothing'
  BY DEF FullInv, AcctInv, CoreInv, TypeOK, RerunOnlyAfterLoss,
     FailedNewManagerLeavesNothing, Alive, Owned
<1> QED
  BY <1>1, <1>2, <1>3, <1>4 DEF AcctInv

(* AcctInv is kept when Close closes a session.                             *)
LEMMA CloseSessionAcct ==
    ASSUME FullInv, NEW s \in Servers, CloseSession(s)
    PROVE  AcctInv'
<1> USE ManagerAssumption DEF CloseSession, callVars, runVars, mgrVars
<1>1. FreshUnseen' /\ MovedOn'
  BY DEF FullInv, AcctInv, CoreInv, TypeOK, FreshUnseen, MovedOn
<1>2. TreesFit' /\ FirstHere'
  BY DEF FullInv, AcctInv, CoreInv, TypeOK, TreesFit, FirstHere
<1>3. SessionsAccountedFor' /\ TreesAccountedFor'
  BY SMTT(30) DEF FullInv, AcctInv, CoreInv, TypeOK, Locals,
     SessionsAccountedFor, TreesAccountedFor, NothingReused, Used, Alive,
     Owned, Procs
<1>4. RerunOnlyAfterLoss' /\ FailedNewManagerLeavesNothing'
  BY DEF FullInv, AcctInv, CoreInv, TypeOK, RerunOnlyAfterLoss,
     FailedNewManagerLeavesNothing, Alive, Owned
<1> QED
  BY <1>1, <1>2, <1>3, <1>4 DEF AcctInv

(* AcctInv is kept when Close kills the process trees and returns.          *)
LEMMA CloseEndAcct ==
    ASSUME FullInv, CloseEnd
    PROVE  AcctInv'
<1> USE ManagerAssumption DEF CloseEnd, callVars, runVars, Owned
<1>1. FreshUnseen' /\ MovedOn'
  BY DEF FullInv, AcctInv, CoreInv, TypeOK, FreshUnseen, MovedOn
<1>2. TreesFit' /\ FirstHere'
  BY DEF FullInv, AcctInv, CoreInv, TypeOK, Locals, TreesFit, FirstHere, Procs
<1>3. SessionsAccountedFor' /\ TreesAccountedFor'
  BY DEF FullInv, AcctInv, CoreInv, TypeOK, SessionsAccountedFor,
     TreesAccountedFor
<1>4. RerunOnlyAfterLoss' /\ FailedNewManagerLeavesNothing'
  BY SMTT(30) DEF FullInv, CloseLoop, AcctInv, CoreInv, TypeOK, HandedOut,
     NothingReused, SessionsAccountedFor, TreesAccountedFor,
     RerunOnlyAfterLoss, FailedNewManagerLeavesNothing, Used, Alive, Procs
<1> QED
  BY <1>1, <1>2, <1>3, <1>4 DEF AcctInv

(* AcctInv is kept when a transport breaks.                                 *)
LEMMA BreakAcct ==
    ASSUME FullInv, NEW k \in Sessions, Break(k)
    PROVE  AcctInv'
<1> USE ManagerAssumption DEF Break, callVars, runVars, mgrVars, Alive
<1>1. FreshUnseen' /\ MovedOn'
  BY DEF FullInv, AcctInv, CoreInv, TypeOK, FreshUnseen, MovedOn
<1>2. TreesFit' /\ FirstHere'
  BY DEF FullInv, AcctInv, CoreInv, TypeOK, TreesFit, FirstHere
<1>3. SessionsAccountedFor' /\ TreesAccountedFor'
  BY DEF FullInv, AcctInv, CoreInv, TypeOK, SessionsAccountedFor,
     TreesAccountedFor, Owned
<1>4. RerunOnlyAfterLoss' /\ FailedNewManagerLeavesNothing'
  BY DEF FullInv, AcctInv, CoreInv, TypeOK, RerunOnlyAfterLoss,
     FailedNewManagerLeavesNothing, Owned
<1> QED
  BY <1>1, <1>2, <1>3, <1>4 DEF AcctInv

(* AcctInv is kept when a call reads the session it is for.                 *)
LEMMA CallToolAcct ==
    ASSUME FullInv, NEW c \in Callers, NEW s \in Servers, CallTool(c, s)
    PROVE  AcctInv'
<1> USE ManagerAssumption DEF CallTool, runVars, worldVars, mgrVars, Move
<1>1. FreshUnseen' /\ MovedOn'
  BY DEF FullInv, AcctInv, CoreInv, TypeOK, FreshUnseen, MovedOn
<1>2. TreesFit' /\ FirstHere'
  BY DEF FullInv, AcctInv, CoreInv, TypeOK, TreesFit, FirstHere
<1>3. SessionsAccountedFor' /\ TreesAccountedFor'
  BY DEF FullInv, AcctInv, CoreInv, TypeOK, SessionsAccountedFor,
     TreesAccountedFor, Owned
<1>4. RerunOnlyAfterLoss' /\ FailedNewManagerLeavesNothing'
  BY DEF FullInv, AcctInv, CoreInv, TypeOK, RerunOnlyAfterLoss,
     FailedNewManagerLeavesNothing, Alive, Owned
<1> QED
  BY <1>1, <1>2, <1>3, <1>4 DEF AcctInv

(* AcctInv is kept when a round of the health loop begins.                  *)
LEMMA TickAcct ==
    ASSUME FullInv, Tick
    PROVE  AcctInv'
<1> USE ManagerAssumption DEF Tick, runVars, worldVars, mgrVars, Move
<1>1. FreshUnseen' /\ MovedOn'
  BY DEF FullInv, AcctInv, CoreInv, TypeOK, FreshUnseen, MovedOn
<1>2. TreesFit' /\ FirstHere'
  BY DEF FullInv, AcctInv, CoreInv, TypeOK, TreesFit, FirstHere
<1>3. SessionsAccountedFor' /\ TreesAccountedFor'
  BY DEF FullInv, AcctInv, CoreInv, TypeOK, SessionsAccountedFor,
     TreesAccountedFor, Owned
<1>4. RerunOnlyAfterLoss' /\ FailedNewManagerLeavesNothing'
  BY DEF FullInv, AcctInv, CoreInv, TypeOK, RerunOnlyAfterLoss,
     FailedNewManagerLeavesNothing, Alive, Owned
<1> QED
  BY <1>1, <1>2, <1>3, <1>4 DEF AcctInv

(* AcctInv is kept when the health loop takes the next server.              *)
LEMMA CheckServerAcct ==
    ASSUME FullInv, NEW s \in Servers, CheckServer(s)
    PROVE  AcctInv'
<1> USE ManagerAssumption DEF CheckServer, runVars, worldVars, mgrVars, Move,
        Unlocked
<1>1. FreshUnseen' /\ MovedOn'
  BY DEF FullInv, AcctInv, CoreInv, TypeOK, FreshUnseen, MovedOn
<1>2. TreesFit' /\ FirstHere'
  BY DEF FullInv, AcctInv, CoreInv, TypeOK, TreesFit, FirstHere
<1>3. SessionsAccountedFor' /\ TreesAccountedFor'
  BY DEF FullInv, AcctInv, CoreInv, TypeOK, SessionsAccountedFor,
     TreesAccountedFor, Owned
<1>4. RerunOnlyAfterLoss' /\ FailedNewManagerLeavesNothing'
  BY DEF FullInv, AcctInv, CoreInv, TypeOK, RerunOnlyAfterLoss,
     FailedNewManagerLeavesNothing, Alive, Owned
<1> QED
  BY <1>1, <1>2, <1>3, <1>4 DEF AcctInv

(* AcctInv is kept when a round of the health loop ends.                    *)
LEMMA TickEndAcct ==
    ASSUME FullInv, TickEnd
    PROVE  AcctInv'
<1> USE ManagerAssumption DEF TickEnd, callVars, runVars, worldVars, mgrVars,
        Move
<1>1. FreshUnseen' /\ MovedOn'
  BY DEF FullInv, AcctInv, CoreInv, TypeOK, FreshUnseen, MovedOn
<1>2. TreesFit' /\ FirstHere'
  BY DEF FullInv, AcctInv, CoreInv, TypeOK, TreesFit, FirstHere
<1>3. SessionsAccountedFor' /\ TreesAccountedFor'
  BY DEF FullInv, AcctInv, CoreInv, TypeOK, SessionsAccountedFor,
     TreesAccountedFor, Owned
<1>4. RerunOnlyAfterLoss' /\ FailedNewManagerLeavesNothing'
  BY DEF FullInv, AcctInv, CoreInv, TypeOK, RerunOnlyAfterLoss,
     FailedNewManagerLeavesNothing, Alive, Owned
<1> QED
  BY <1>1, <1>2, <1>3, <1>4 DEF AcctInv

(* AcctInv is kept when a request goes out.                                 *)
LEMMA SendAcct ==
    ASSUME FullInv, NEW p \in Procs, Send(p)
    PROVE  AcctInv'
<1> USE ManagerAssumption DEF Send, callVars, runVars, worldVars, mgrVars,
        Move, Alive
<1>1. FreshUnseen' /\ MovedOn'
  BY DEF FullInv, AcctInv, CoreInv, TypeOK, FreshUnseen, MovedOn
<1>2. TreesFit' /\ FirstHere'
  BY DEF FullInv, AcctInv, CoreInv, TypeOK, TreesFit, FirstHere
<1>3. SessionsAccountedFor' /\ TreesAccountedFor'
  BY DEF FullInv, AcctInv, CoreInv, TypeOK, SessionsAccountedFor,
     TreesAccountedFor, Owned
<1>4. RerunOnlyAfterLoss' /\ FailedNewManagerLeavesNothing'
  BY DEF FullInv, AcctInv, CoreInv, TypeOK, Locals, RerunOnlyAfterLoss,
     FailedNewManagerLeavesNothing, Owned, Procs
<1> QED
  BY <1>1, <1>2, <1>3, <1>4 DEF AcctInv

(* AcctInv is kept when the downstream runs a call.                         *)
LEMMA RunAcct ==
    ASSUME FullInv, NEW p \in Procs, Run(p)
    PROVE  AcctInv'
<1> USE ManagerAssumption DEF Run, worldVars, mgrVars, Alive
<1>1. FreshUnseen' /\ MovedOn'
  BY DEF FullInv, AcctInv, CoreInv, TypeOK, FreshUnseen, MovedOn
<1>2. TreesFit' /\ FirstHere'
  BY DEF FullInv, AcctInv, CoreInv, TypeOK, TreesFit, FirstHere
<1>3. SessionsAccountedFor' /\ TreesAccountedFor'
  BY DEF FullInv, AcctInv, CoreInv, TypeOK, SessionsAccountedFor,
     TreesAccountedFor, Owned
<1>4. RerunOnlyAfterLoss' /\ FailedNewManagerLeavesNothing'
  BY DEF FullInv, AcctInv, CoreInv, TypeOK, Locals, RerunOnlyAfterLoss,
     FailedNewManagerLeavesNothing, Owned, Procs
<1> QED
  BY <1>1, <1>2, <1>3, <1>4 DEF AcctInv

(* AcctInv is kept when an answer arrives.                                  *)
LEMMA AnswerAcct ==
    ASSUME FullInv, NEW p \in Procs, Answer(p)
    PROVE  AcctInv'
<1> USE ManagerAssumption DEF Answer, worldVars, mgrVars, Return, Move, Alive
<1>1. FreshUnseen' /\ MovedOn'
  BY DEF FullInv, AcctInv, CoreInv, TypeOK, FreshUnseen, MovedOn
<1>2. TreesFit' /\ FirstHere'
  BY DEF FullInv, AcctInv, CoreInv, TypeOK, TreesFit, FirstHere
<1>3. SessionsAccountedFor' /\ TreesAccountedFor'
  BY DEF FullInv, AcctInv, CoreInv, TypeOK, SessionsAccountedFor,
     TreesAccountedFor, Owned
<1>4. RerunOnlyAfterLoss' /\ FailedNewManagerLeavesNothing'
  BY DEF FullInv, AcctInv, CoreInv, TypeOK, RerunOnlyAfterLoss,
     FailedNewManagerLeavesNothing, Owned
<1> QED
  BY <1>1, <1>2, <1>3, <1>4 DEF AcctInv

(* AcctInv is kept when a request fails on a session that may well be alive. *)
LEMMA FailAcct ==
    ASSUME FullInv, NEW p \in Procs, Fail(p)
    PROVE  AcctInv'
<1> USE ManagerAssumption DEF Fail, worldVars, mgrVars, Return, Move, Alive
<1>1. FreshUnseen' /\ MovedOn'
  BY DEF FullInv, AcctInv, CoreInv, TypeOK, FreshUnseen, MovedOn
<1>2. TreesFit' /\ FirstHere'
  BY DEF FullInv, AcctInv, CoreInv, TypeOK, TreesFit, FirstHere
<1>3. SessionsAccountedFor' /\ TreesAccountedFor'
  BY DEF FullInv, AcctInv, CoreInv, TypeOK, SessionsAccountedFor,
     TreesAccountedFor, Owned
<1>4. RerunOnlyAfterLoss' /\ FailedNewManagerLeavesNothing'
  BY DEF FullInv, AcctInv, CoreInv, TypeOK, RerunOnlyAfterLoss,
     FailedNewManagerLeavesNothing, Owned
<1> QED
  BY <1>1, <1>2, <1>3, <1>4 DEF AcctInv

(* AcctInv is kept when a request finds its session gone.                   *)
LEMMA ConnectionClosedAcct ==
    ASSUME FullInv, NEW p \in Procs, ConnectionClosed(p)
    PROVE  AcctInv'
<1> USE ManagerAssumption DEF ConnectionClosed, worldVars, mgrVars, Return,
        Move, callVars, runVars, Alive
<1>1. FreshUnseen' /\ MovedOn'
  BY DEF FullInv, AcctInv, CoreInv, TypeOK, FreshUnseen, MovedOn
<1>2. TreesFit' /\ FirstHere'
  BY DEF FullInv, AcctInv, CoreInv, TypeOK, TreesFit, FirstHere
<1>3. SessionsAccountedFor' /\ TreesAccountedFor'
  BY DEF FullInv, AcctInv, CoreInv, TypeOK, SessionsAccountedFor,
     TreesAccountedFor, Owned
<1>4. RerunOnlyAfterLoss' /\ FailedNewManagerLeavesNothing'
  BY DEF FullInv, AcctInv, CoreInv, TypeOK, Locals, RerunOnlyAfterLoss,
     FailedNewManagerLeavesNothing, Owned, Procs
<1> QED
  BY <1>1, <1>2, <1>3, <1>4 DEF AcctInv

(* AcctInv is kept when Reconnect gets the mutex of its server.             *)
LEMMA LockReconnectAcct ==
    ASSUME FullInv, NEW p \in Procs, LockReconnect(p)
    PROVE  AcctInv'
<1> USE ManagerAssumption DEF LockReconnect, callVars, runVars, worldVars,
        Unlocked, Move
<1>1. FreshUnseen' /\ MovedOn'
  BY DEF FullInv, AcctInv, CoreInv, TypeOK, FreshUnseen, MovedOn
<1>2. TreesFit' /\ FirstHere'
  BY DEF FullInv, AcctInv, CoreInv, TypeOK, TreesFit, FirstHere
<1>3. SessionsAccountedFor' /\ TreesAccountedFor'
  BY DEF FullInv, AcctInv, CoreInv, TypeOK, SessionsAccountedFor,
     TreesAccountedFor, Owned
<1>4. RerunOnlyAfterLoss' /\ FailedNewManagerLeavesNothing'
  BY DEF FullInv, AcctInv, CoreInv, TypeOK, RerunOnlyAfterLoss,
     FailedNewManagerLeavesNothing, Alive, Owned
<1> QED
  BY <1>1, <1>2, <1>3, <1>4 DEF AcctInv

(* AcctInv is kept when Reconnect compares the current session with `bad`.  *)
LEMMA CheckCurrentAcct ==
    ASSUME FullInv, NEW p \in Procs, CheckCurrent(p)
    PROVE  AcctInv'
<1> USE ManagerAssumption DEF CheckCurrent, callVars, runVars, worldVars,
        mgrVars, Move, Unlocked
<1>1. FreshUnseen' /\ MovedOn'
  BY DEF FullInv, AcctInv, CoreInv, TypeOK, FreshUnseen, MovedOn
<1>2. TreesFit' /\ FirstHere'
  BY DEF FullInv, AcctInv, CoreInv, TypeOK, TreesFit, FirstHere
<1>3. SessionsAccountedFor' /\ TreesAccountedFor'
  BY DEF FullInv, AcctInv, CoreInv, TypeOK, SessionsAccountedFor,
     TreesAccountedFor, Owned
<1>4. RerunOnlyAfterLoss' /\ FailedNewManagerLeavesNothing'
  BY DEF FullInv, AcctInv, CoreInv, TypeOK, RerunOnlyAfterLoss,
     FailedNewManagerLeavesNothing, Alive, Owned
<1> QED
  BY <1>1, <1>2, <1>3, <1>4 DEF AcctInv

(* AcctInv is kept when Reconnect has dialled a session.                    *)
LEMMA DialAcct ==
    ASSUME FullInv, NEW p \in Procs, NEW k \in Sessions, Dial(p, k)
    PROVE  AcctInv'
<1> USE ManagerAssumption DEF Dial, runVars, mgrVars, TreeOf, Move, Fresh
<1>1. FreshUnseen' /\ MovedOn'
  BY SMTT(30) DEF FullInv, AcctInv, CoreInv, TypeOK, Locals, FreshUnseen,
     MovedOn, NothingReused, Used, Alive, Procs
<1>2. TreesFit' /\ FirstHere'
  BY SMTT(30) DEF FullInv, AcctInv, CoreInv, TypeOK, Locals, TreesFit,
     FirstHere, NothingReused, Used, Alive, Procs
<1>3. SessionsAccountedFor' /\ TreesAccountedFor'
  BY DEF FullInv, AcctInv, CoreInv, TypeOK, SessionsAccountedFor,
     TreesAccountedFor, Owned
<1>4. RerunOnlyAfterLoss' /\ FailedNewManagerLeavesNothing'
  BY SMTT(30) DEF FullInv, AcctInv, CoreInv, TypeOK, Locals,
     RerunOnlyAfterLoss, FailedNewManagerLeavesNothing, NothingReused,
     HandedOut, FreshUnseen, FirstHere, TreesFit, Used, Alive, Owned, Procs,
     Phases
<1> QED
  BY <1>1, <1>2, <1>3, <1>4 DEF AcctInv

(* AcctInv is kept when Reconnect fails to dial.                            *)
LEMMA DialFailsAcct ==
    ASSUME FullInv, NEW p \in Procs, DialFails(p)
    PROVE  AcctInv'
<1> USE ManagerAssumption DEF DialFails, ConnectFails, Fresh, worldVars,
        Return, Move
<1>1. FreshUnseen' /\ MovedOn'
  BY DEF FullInv, AcctInv, CoreInv, TypeOK, FreshUnseen, MovedOn
<1>2. TreesFit' /\ FirstHere'
  BY SMTT(30) DEF FullInv, AcctInv, CoreInv, TypeOK, Locals, TreesFit,
     FirstHere, NothingReused, Used, Alive, Procs
<1>3. SessionsAccountedFor' /\ TreesAccountedFor'
  BY DEF FullInv, AcctInv, CoreInv, TypeOK, SessionsAccountedFor,
     TreesAccountedFor, Owned
<1>4. RerunOnlyAfterLoss' /\ FailedNewManagerLeavesNothing'
  BY DEF FullInv, AcctInv, CoreInv, TypeOK, RerunOnlyAfterLoss,
     FailedNewManagerLeavesNothing, Alive, Owned
<1> QED
  BY <1>1, <1>2, <1>3, <1>4 DEF AcctInv

(* AcctInv is kept when Reconnect installs the new session.                 *)
LEMMA SwapAcct ==
    ASSUME FullInv, NEW p \in Procs, Swap(p)
    PROVE  AcctInv'
<1> USE ManagerAssumption DEF Swap, runVars, worldVars, CmdOf, Move, Unlocked
<1>1. FreshUnseen' /\ MovedOn'
  BY DEF FullInv, AcctInv, CoreInv, TypeOK, Locals, FreshUnseen, MovedOn,
     Procs
<1>2. TreesFit' /\ FirstHere'
  BY SMTT(30) DEF FullInv, AcctInv, CoreInv, TypeOK, Locals, TreesFit,
     FirstHere, NothingReused, HandedOut, FreshUnseen, Used, Alive, Procs,
     Phases
<1>3. SessionsAccountedFor' /\ TreesAccountedFor'
  BY SMTT(30) DEF FullInv, AcctInv, CoreInv, TypeOK, HandedOut, Locals,
     MutexHeld, NothingReused, StillBad, FreshUnseen, MovedOn, TreesFit,
     FirstHere, SessionsAccountedFor, TreesAccountedFor, RerunOnlyAfterLoss,
     FailedNewManagerLeavesNothing, Used, Alive, Owned, Locked, Procs, Phases
<1>4. RerunOnlyAfterLoss' /\ FailedNewManagerLeavesNothing'
  BY DEF FullInv, AcctInv, CoreInv, TypeOK, RerunOnlyAfterLoss,
     FailedNewManagerLeavesNothing, Alive, Owned
<1> QED
  BY <1>1, <1>2, <1>3, <1>4 DEF AcctInv

(* AcctInv is kept when Reconnect closes what it replaced.                  *)
LEMMA ReleaseOldAcct ==
    ASSUME FullInv, NEW p \in Procs, ReleaseOld(p)
    PROVE  AcctInv'
<1> USE ManagerAssumption DEF ReleaseOld, runVars, mgrVars, Move
<1>1. FreshUnseen' /\ MovedOn'
  BY DEF FullInv, AcctInv, CoreInv, TypeOK, FreshUnseen, MovedOn
<1>2. TreesFit' /\ FirstHere'
  BY DEF FullInv, AcctInv, CoreInv, TypeOK, Locals, TreesFit, FirstHere, Procs
<1>3. SessionsAccountedFor' /\ TreesAccountedFor'
  BY SMTT(30) DEF FullInv, AcctInv, CoreInv, TypeOK, Locals,
     SessionsAccountedFor, TreesAccountedFor, NothingReused, Used, Alive,
     Owned, Procs
<1>4. RerunOnlyAfterLoss' /\ FailedNewManagerLeavesNothing'
  BY SMTT(30) DEF FullInv, AcctInv, CoreInv, TypeOK, Locals,
     RerunOnlyAfterLoss, FailedNewManagerLeavesNothing, NothingReused, Used,
     Alive, Owned, Procs
<1> QED
  BY <1>1, <1>2, <1>3, <1>4 DEF AcctInv

(* AcctInv is kept when Reconnect returns.                                  *)
LEMMA UnlockReconnectAcct ==
    ASSUME FullInv, NEW p \in Procs, UnlockReconnect(p)
    PROVE  AcctInv'
<1> USE ManagerAssumption DEF UnlockReconnect, worldVars, callVars, runVars,
        Move, Return
<1>1. FreshUnseen' /\ MovedOn'
  BY DEF FullInv, AcctInv, CoreInv, TypeOK, FreshUnseen, MovedOn
<1>2. TreesFit' /\ FirstHere'
  BY DEF FullInv, AcctInv, CoreInv, TypeOK, TreesFit, FirstHere
<1>3. SessionsAccountedFor' /\ TreesAccountedFor'
  BY DEF FullInv, AcctInv, CoreInv, TypeOK, SessionsAccountedFor,
     TreesAccountedFor, Owned
<1>4. RerunOnlyAfterLoss' /\ FailedNewManagerLeavesNothing'
  BY SMTT(30) DEF FullInv, AcctInv, CoreInv, TypeOK, Locals,
     RerunOnlyAfterLoss, FailedNewManagerLeavesNothing, NothingReused,
     HandedOut, FreshUnseen, FirstHere, TreesFit, Used, Alive, Owned, Procs,
     Phases
<1> QED
  BY <1>1, <1>2, <1>3, <1>4 DEF AcctInv

(* AcctInv is kept when CallTool reads the session for its retry.           *)
LEMMA RereadAcct ==
    ASSUME FullInv, NEW p \in Procs, Reread(p)
    PROVE  AcctInv'
<1> USE ManagerAssumption DEF Reread, runVars, worldVars, mgrVars, Move,
        Unlocked
<1>1. FreshUnseen' /\ MovedOn'
  BY DEF FullInv, AcctInv, CoreInv, TypeOK, Locals, FreshUnseen, MovedOn,
     Procs
<1>2. TreesFit' /\ FirstHere'
  BY DEF FullInv, AcctInv, CoreInv, TypeOK, TreesFit, FirstHere
<1>3. SessionsAccountedFor' /\ TreesAccountedFor'
  BY DEF FullInv, AcctInv, CoreInv, TypeOK, SessionsAccountedFor,
     TreesAccountedFor, Owned
<1>4. RerunOnlyAfterLoss' /\ FailedNewManagerLeavesNothing'
  BY DEF FullInv, AcctInv, CoreInv, TypeOK, RerunOnlyAfterLoss,
     FailedNewManagerLeavesNothing, Alive, Owned
<1> QED
  BY <1>1, <1>2, <1>3, <1>4 DEF AcctInv

-----------------------------------------------------------------------------
(* Every behaviour keeps the invariant.                                     *)

(* CoreInv is kept by every step: one case per disjunct of Next.            *)
LEMMA NextCore == CoreInv /\ [Next]_vars => CoreInv'
<1> SUFFICES ASSUME CoreInv, [Next]_vars PROVE CoreInv'
  OBVIOUS
<1>1. CASE NewManager
  BY <1>1, DialInitialCore, DialInitialFailsCore, NewManagerReturnsCore
  DEF NewManager
<1>2. CASE Close
  BY <1>2, CloseBeginCore, CloseSessionCore, CloseEndCore DEF Close
<1>3. CASE HealthLoop
  BY <1>3, TickCore, TickEndCore, CheckServerCore DEF HealthLoop
<1>4. CASE \E k \in Sessions : Break(k)
  BY <1>4, BreakCore
<1>5. CASE \E c \in Callers : Reread(c) \/ \E s \in Servers : CallTool(c, s)
  BY <1>5, RereadCore, CallToolCore DEF Procs
<1>6. ASSUME NEW p \in Procs, Exchange(p) PROVE CoreInv'
  BY <1>6, SendCore, RunCore, AnswerCore, FailCore, ConnectionClosedCore
  DEF Exchange
<1>7. ASSUME NEW p \in Procs, Reconnect(p) PROVE CoreInv'
  BY <1>7, LockReconnectCore, CheckCurrentCore, DialCore, DialFailsCore,
     SwapCore, ReleaseOldCore, UnlockReconnectCore DEF Reconnect
<1>8. CASE UNCHANGED vars
  BY <1>8, Z3 DEF vars, CoreInv, TypeOK, HandedOut, Locals, MutexHeld,
     NothingReused, StillBad, Used, Alive
<1> QED
  BY <1>1, <1>2, <1>3, <1>4, <1>5, <1>6, <1>7, <1>8 DEF Next

(* AcctInv is kept by every step; here CoreInv is needed as well.           *)
LEMMA NextAcct == FullInv /\ [Next]_vars => AcctInv'
<1> SUFFICES ASSUME FullInv, [Next]_vars PROVE AcctInv'
  OBVIOUS
<1>1. CASE NewManager
  BY <1>1, DialInitialAcct, DialInitialFailsAcct, NewManagerReturnsAcct
  DEF NewManager
<1>2. CASE Close
  BY <1>2, CloseBeginAcct, CloseSessionAcct, CloseEndAcct DEF Close
<1>3. CASE HealthLoop
  BY <1>3, TickAcct, TickEndAcct, CheckServerAcct DEF HealthLoop
<1>4. CASE \E k \in Sessions : Break(k)
  BY <1>4, BreakAcct
<1>5. CASE \E c \in Callers : Reread(c) \/ \E s \in Servers : CallTool(c, s)
  BY <1>5, RereadAcct, CallToolAcct DEF Procs
<1>6. ASSUME NEW p \in Procs, Exchange(p) PROVE AcctInv'
  BY <1>6, SendAcct, RunAcct, AnswerAcct, FailAcct, ConnectionClosedAcct
  DEF Exchange
<1>7. ASSUME NEW p \in Procs, Reconnect(p) PROVE AcctInv'
  BY <1>7, LockReconnectAcct, CheckCurrentAcct, DialAcct, DialFailsAcct,
     SwapAcct, ReleaseOldAcct, UnlockReconnectAcct DEF Reconnect
<1>8. CASE UNCHANGED vars
  <2>1. FreshUnseen' /\ MovedOn' /\ TreesFit' /\ FirstHere'
    BY <1>8
    DEF FullInv, AcctInv, vars, FreshUnseen, MovedOn, TreesFit, FirstHere
  <2>2. SessionsAccountedFor' /\ TreesAccountedFor'
    BY <1>8 DEF FullInv, AcctInv, vars, SessionsAccountedFor,
       TreesAccountedFor, Owned
  <2>3. RerunOnlyAfterLoss' /\ FailedNewManagerLeavesNothing'
    BY <1>8 DEF FullInv, AcctInv, vars, RerunOnlyAfterLoss,
       FailedNewManagerLeavesNothing, Alive
  <2> QED
    BY <2>1, <2>2, <2>3 DEF AcctInv
<1> QED
  BY <1>1, <1>2, <1>3, <1>4, <1>5, <1>6, <1>7, <1>8 DEF Next

(* The loop's invariant is kept by its own steps and by every step that may *)
(* fall between two of them.                                                *)
LEMMA NextCloseLoop == CoreInv /\ CloseLoop /\ [Next]_vars => CloseLoop'
<1> SUFFICES ASSUME CoreInv, CloseLoop, [Next]_vars PROVE CloseLoop'
  OBVIOUS
<1>0. TypeOK /\ NothingReused /\ HandedOut /\ Locals
  BY DEF CoreInv
<1> USE <1>0, ManagerAssumption
    DEF CloseLoop, TypeOK, mgrVars, worldVars, callVars, runVars
<1>1. CASE NewManager
  <2>1. ASSUME NEW s \in Servers, NEW k \in Sessions, DialInitial(s, k)
        PROVE  CloseLoop'
    BY <2>1 DEF DialInitial
  <2>2. ASSUME NEW s \in Servers, DialInitialFails(s) PROVE CloseLoop'
    BY <2>2 DEF DialInitialFails
  <2>3. CASE NewManagerReturns
    BY <2>3 DEF NewManagerReturns, Held
  <2> QED
    BY <1>1, <2>1, <2>2, <2>3 DEF NewManager
<1>2. CASE Close
  <2>1. CASE CloseBegin
    BY <2>1 DEF CloseBegin, Held
  <2>2. ASSUME NEW s \in Servers, CloseSession(s) PROVE CloseLoop'
    BY <2>2 DEF CloseSession
  <2>3. CASE CloseEnd
    BY <2>3 DEF CloseEnd
  <2> QED
    BY <1>2, <2>1, <2>2, <2>3 DEF Close
<1>3. CASE HealthLoop
  BY <1>3 DEF HealthLoop, Tick, TickEnd, CheckServer
<1>4. CASE \E k \in Sessions : Break(k)
  BY <1>4 DEF Break, Alive
<1>5. CASE \E c \in Callers : Reread(c) \/ \E s \in Servers : CallTool(c, s)
  BY <1>5 DEF Reread, CallTool
<1>6. ASSUME NEW p \in Procs, Exchange(p) PROVE CloseLoop'
  BY <1>6 DEF Exchange, Send, Run, Answer, Fail, ConnectionClosed
<1>7. ASSUME NEW p \in Procs, Reconnect(p) PROVE CloseLoop'
  <2>1. ASSUME NEW k \in Sessions, Dial(p, k) PROVE CloseLoop'
    BY <2>1 DEF Dial, Fresh, NothingReused, Used
  <2>2. CASE DialFails(p)
    BY <2>2 DEF DialFails, ConnectFails, Fresh, NothingReused, Used
  <2>3. CASE Swap(p)
    BY <2>3 DEF Swap, Move, Unlocked, Locals
  <2>4. CASE ReleaseOld(p)
    BY <2>4 DEF ReleaseOld
  <2>5. CASE LockReconnect(p) \/ CheckCurrent(p) \/ UnlockReconnect(p)
    BY <2>5 DEF LockReconnect, CheckCurrent, UnlockReconnect
  <2> QED
    BY <1>7, <2>1, <2>2, <2>3, <2>4, <2>5 DEF Reconnect
<1>8. CASE UNCHANGED vars
  BY <1>8 DEF vars
<1> QED
  BY <1>1, <1>2, <1>3, <1>4, <1>5, <1>6, <1>7, <1>8 DEF Next

(* The invariant the other theorems rest on.                                *)
THEOREM ManagerInvariant == Spec => []FullInv
<1>1. Init => FullInv
  BY InitCore, InitAcct DEF FullInv, CloseLoop, Init
<1>2. FullInv /\ [Next]_vars => FullInv'
  BY NextCore, NextCloseLoop, NextAcct DEF FullInv
<1> QED
  BY <1>1, <1>2, PTL DEF Spec

(* Every variable keeps its type, and a manager that was handed out has a   *)
(* session for every server.                                                *)
THEOREM TypeCorrect == Spec => []TypeOK
<1>1. FullInv => TypeOK
  BY DEF FullInv, CoreInv
<1> QED
  BY <1>1, ManagerInvariant, PTL

(* Swap replaces the session its goroutine saw failing, under the mutex.    *)
THEOREM SwapTarget == Spec => []SwapReplacesBad
<1>1. FullInv => SwapReplacesBad
  BY DEF FullInv, CoreInv, MutexHeld, StillBad, Locked, SwapReplacesBad
<1> QED
  BY <1>1, ManagerInvariant, PTL

(* No session that connect returned is ever lost.                           *)
THEOREM SessionsKept == Spec => []SessionsAccountedFor
<1>1. FullInv => SessionsAccountedFor
  BY DEF FullInv, AcctInv
<1> QED
  BY <1>1, ManagerInvariant, PTL

(* No process tree that connect returned is ever lost.                      *)
THEOREM TreesKept == Spec => []TreesAccountedFor
<1>1. FullInv => TreesAccountedFor
  BY DEF FullInv, AcctInv
<1> QED
  BY <1>1, ManagerInvariant, PTL

(* A NewManager that fails has closed and killed all it had connected.      *)
THEOREM FailureIsClean == Spec => []FailedNewManagerLeavesNothing
<1>1. FullInv => FailedNewManagerLeavesNothing
  BY DEF FullInv, AcctInv
<1> QED
  BY <1>1, ManagerInvariant, PTL

(* A call that was run is sent again only if the session it ran on is gone. *)
THEOREM RerunAfterLoss == Spec => []RerunOnlyAfterLoss
<1>1. FullInv => RerunOnlyAfterLoss
  BY DEF FullInv, AcctInv
<1> QED
  BY <1>1, ManagerInvariant, PTL

(* A step that changes m.sessions is one of three.                          *)
LEMMA SessionsChange ==
    ASSUME Next, sessions' # sessions
    PROVE  \/ \E s \in Servers, k \in Sessions : DialInitial(s, k)
           \/ \E p \in Procs : Swap(p)
<1> USE DEF mgrVars
<1>1. ~Close
  BY DEF Close, CloseBegin, CloseSession, CloseEnd
<1>2. ~HealthLoop
  BY DEF HealthLoop, Tick, TickEnd, CheckServer
<1>3. ~ \E k \in Sessions : Break(k)
  BY DEF Break
<1>4. ~ \E c \in Callers : Reread(c) \/ \E s \in Servers : CallTool(c, s)
  BY DEF Reread, CallTool
<1>5. ~ \E p \in Procs : Exchange(p)
  BY DEF Exchange, Send, Run, Answer, Fail, ConnectionClosed
<1>6. CASE NewManager
  BY <1>6 DEF NewManager, DialInitialFails, NewManagerReturns
<1>7. CASE \E p \in Procs : Reconnect(p)
  BY <1>7 DEF Reconnect, LockReconnect, CheckCurrent, Dial, DialFails,
     ReleaseOld, UnlockReconnect
<1> QED
  BY <1>1, <1>2, <1>3, <1>4, <1>5, <1>6, <1>7 DEF Next

(* A live session is never replaced.                                        *)
THEOREM DeadReplacedOnly == Spec => OnlyDeadReplaced
<1> DEFINE A == \A s \in Servers :
                    sessions[s] # None /\ sessions'[s] # sessions[s]
                    => ~Alive(sessions[s])
<1>1. ASSUME FullInv, [Next]_vars PROVE [A]_vars
  <2> SUFFICES ASSUME Next, sessions' # sessions,
                      NEW s \in Servers,
                      sessions[s] # None, sessions'[s] # sessions[s]
               PROVE  ~Alive(sessions[s])
    BY <1>1 DEF vars
  <2>1. ASSUME NEW t \in Servers, NEW k \in Sessions, DialInitial(t, k)
        PROVE  FALSE
    BY <1>1, <2>1 DEF DialInitial, FullInv, CoreInv, TypeOK, HandedOut
  <2>2. ASSUME NEW p \in Procs, Swap(p) PROVE ~Alive(sessions[s])
    BY <1>1, <2>2 DEF Swap, Move, FullInv, CoreInv, TypeOK, StillBad,
       NothingReused
  <2> QED
    BY <2>1, <2>2, SessionsChange
<1> QED
  BY <1>1, ManagerInvariant, PTL DEF Spec, OnlyDeadReplaced

(* The retry of a call goes to another session than its first attempt.      *)
THEOREM RetryElsewhere == Spec => RetryUsesNewSession
<1> DEFINE A == \A c \in Callers :
                    pc[c] = "reread" /\ pc'[c] = "resend" => on'[c] # on[c]
<1>1. ASSUME FullInv, [Next]_vars PROVE [A]_vars
  <2> SUFFICES ASSUME Next, NEW c \in Callers,
                      pc[c] = "reread", pc'[c] = "resend"
               PROVE  on'[c] # on[c]
    BY <1>1
  <2> USE <1>1 DEF FullInv, CoreInv, TypeOK, Procs, mgrVars, worldVars,
          callVars, runVars
  <2>1. ~NewManager /\ ~Close
    BY DEF NewManager, DialInitial, DialInitialFails, NewManagerReturns,
       Close, CloseBegin, CloseSession, CloseEnd
  <2>2. ~HealthLoop /\ ~ \E k \in Sessions : Break(k)
    BY ManagerAssumption
    DEF HealthLoop, Tick, TickEnd, CheckServer, Move, Break
  <2>3. ASSUME NEW d \in Callers, NEW s \in Servers, CallTool(d, s)
        PROVE  FALSE
    BY <2>3 DEF CallTool, Move
  <2>4. ASSUME NEW p \in Procs, Exchange(p) PROVE FALSE
    BY <2>4 DEF Exchange, Send, Run, Answer, Fail, ConnectionClosed, Return,
       Move
  <2>5. ASSUME NEW p \in Procs, Reconnect(p) PROVE FALSE
    BY <2>5 DEF Reconnect, LockReconnect, CheckCurrent, Dial, DialFails, Swap,
       ReleaseOld, UnlockReconnect, Return, Move
  <2>6. ASSUME NEW d \in Callers, Reread(d) PROVE on'[c] # on[c]
    BY <2>6 DEF Reread, Move, AcctInv, MovedOn
  <2> QED
    BY <2>1, <2>2, <2>3, <2>4, <2>5, <2>6 DEF Next
<1> QED
  BY <1>1, ManagerInvariant, PTL DEF Spec, RetryUsesNewSession

(* Whatever the manager holds when Close returns is closed and killed: the  *)
(* loop leaves out no session, and none it closed comes back before the end.*)
THEOREM CloseIsThorough == Spec => CloseReleasesAll
<1> DEFINE A == phase # phase' /\ phase' \in {"closed", "failed"} =>
                    /\ \A k \in Owned(sessions) : status'[k] = "closed"
                    /\ \A k \in Owned(cmds) : tree'[k] = "killed"
<1>1. ASSUME FullInv, [Next]_vars PROVE [A]_vars
  <2> SUFFICES ASSUME Next, phase # phase', phase' \in {"closed", "failed"}
               PROVE  /\ \A k \in Owned(sessions) : status'[k] = "closed"
                      /\ \A k \in Owned(cmds) : tree'[k] = "killed"
    BY <1>1
  <2> USE DEF mgrVars
  <2>1. CloseEnd
    <3>1. ~HealthLoop /\ ~ \E k \in Sessions : Break(k)
      BY DEF HealthLoop, Tick, TickEnd, CheckServer, Break
    <3>2. ~NewManager
      BY DEF NewManager, DialInitial, DialInitialFails, NewManagerReturns
    <3>3. ~ \E c \in Callers : Reread(c) \/ \E s \in Servers : CallTool(c, s)
      BY DEF Reread, CallTool
    <3>4. ~ \E p \in Procs : Exchange(p) \/ Reconnect(p)
      BY DEF Exchange, Send, Run, Answer, Fail, ConnectionClosed, Reconnect,
         LockReconnect, CheckCurrent, Dial, DialFails, Swap, ReleaseOld,
         UnlockReconnect
    <3> QED
      BY <3>1, <3>2, <3>3, <3>4 DEF Next, Close, CloseBegin, CloseSession
  <2>2. Owned(cmds) \subseteq Sessions
    BY <1>1 DEF FullInv, CoreInv, TypeOK, Owned
  <2>3. \A k \in Owned(sessions) : status[k] = "closed"
    BY <1>1, <2>1 DEF CloseEnd, FullInv, CloseLoop, Owned
  <2> QED
    BY <2>1, <2>2, <2>3 DEF CloseEnd
<1> QED
  BY <1>1, ManagerInvariant, PTL DEF Spec, CloseReleasesAll
=============================================================================
