------------------------------ MODULE Manager ------------------------------
(* downstream.Manager: one connected session per configured server, shared  *)
(* by every goroutine that relays a tool call (Callers) and by the daemon's *)
(* health loop (Pinger).  A goroutine that finds its session closed redials *)
(* under the server's reconnect mutex and swaps the new session in.         *)
(*                                                                          *)
(* A session identity stands for a *ClientSession pointer together with the *)
(* *exec.Cmd that connect returned with it; identities are never reused.    *)
(* Close keeps m.mu write-locked from its first step to its last; every     *)
(* other critical section on m.mu is a single step, enabled while no Close  *)
(* is running (Unlocked).                                                   *)
EXTENDS Integers, FiniteSets

CONSTANTS
    Servers,        \* configured downstream servers
    StdioServers,   \* those whose transport is "stdio": they own a process tree
    Callers,        \* goroutines in Manager.CallTool
    Pinger,         \* the goroutine of Daemon.healthLoop
    MaxSessions,    \* bound: how many sessions can ever be dialled
    None            \* no session, no process, no lock owner

Sessions == 1 .. MaxSessions
Procs == Callers \union {Pinger}

ASSUME ManagerAssumption ==
    /\ StdioServers \subseteq Servers
    /\ MaxSessions \in Nat
    /\ Pinger \notin Callers
    /\ None \notin Sessions
    /\ None \notin Procs
    /\ None \notin Servers

VARIABLES
    phase,      \* where the manager is between NewManager and the end of Close
    left,       \* Close: servers whose session its loop has still to close
    dialled,    \* NewManager: result of each server's connect goroutine
    sessions,   \* m.sessions
    cmds,       \* m.cmds
    reMu,       \* m.reconnectMu: who holds each server's mutex
    status,     \* the transport behind each session
    tree,       \* the process tree spawned with each session
    pc,         \* where each goroutine is
    srv,        \* the server its call, or its health check, is about
    on,         \* the session it last read from m.sessions; Reconnect's `bad`
    fresh,      \* Reconnect: the session connect returned
    old,        \* Reconnect: oldCmd
    todo,       \* checkHealth: names it has still to look at
    first,      \* the session on which the downstream ran the current call,
    second      \* and the one on which it ran the retry

vars == <<phase, left, dialled, sessions, cmds, reMu, status, tree, pc, srv, on,
          fresh, old, todo, first, second>>
mgrVars == <<phase, left, dialled, sessions, cmds, reMu>>
worldVars == <<status, tree>>
runVars == <<first, second>>
callVars == <<srv, on, fresh, old, todo, runVars>>

Phases == {"dialling", "aborting", "failed", "open", "closing", "closed"}
Locs == {"idle", "pick", "send", "wait", "broken", "check", "dial", "swap",
         "release", "unlock", "reread", "resend", "rewait"}

(* The program points at which Reconnect holds m.reconnectMu[name].         *)
Locked == {"check", "dial", "swap", "release", "unlock"}

Unlocked == phase \notin {"aborting", "closing"}
Alive(k) == k \in Sessions /\ status[k] = "live"
Owned(f) == {f[s] : s \in Servers} \ {None}
Held == {s \in Servers : sessions[s] # None}

(* connect hands out a session nobody has seen before.                      *)
Fresh(k) ==
    /\ status[k] = "unused"
    /\ \A j \in Sessions : status[j] = "unused" => k <= j

(* A failed connect returns no *exec.Cmd: if the child had been started and *)
(* the handshake failed, the SDK has closed its session, but nobody will    *)
(* ever call killTree for it.                                               *)
ConnectFails(s) ==
    \/ UNCHANGED worldVars
    \/ \E k \in Sessions :
          /\ s \in StdioServers /\ Fresh(k)
          /\ status' = [status EXCEPT ![k] = "failed"]
          /\ tree' = [tree EXCEPT ![k] = "up"]

TreeOf(s) == IF s \in StdioServers THEN "up" ELSE "none"
CmdOf(s, k) == IF s \in StdioServers THEN k ELSE None

Init ==
    /\ phase = "dialling"
    /\ left = {}
    /\ dialled = [s \in Servers |-> "pending"]
    /\ sessions = [s \in Servers |-> None]
    /\ cmds = [s \in Servers |-> None]
    /\ reMu = [s \in Servers |-> None]
    /\ status = [k \in Sessions |-> "unused"]
    /\ tree = [k \in Sessions |-> "none"]
    /\ pc = [p \in Procs |-> "idle"]
    /\ srv = [p \in Procs |-> None]
    /\ on = [p \in Procs |-> None]
    /\ fresh = [p \in Procs |-> None]
    /\ old = [p \in Procs |-> None]
    /\ todo = {}
    /\ first = [p \in Procs |-> None]
    /\ second = [p \in Procs |-> None]

-----------------------------------------------------------------------------
(* NewManager.                                                              *)

(* The connect goroutine of server s, successful or not.  Failures are "no  *)
(* session" entries of dialled: what makes NewManager abort.                *)
DialInitial(s, k) ==
    /\ phase = "dialling" /\ dialled[s] = "pending" /\ Fresh(k)
    /\ dialled' = [dialled EXCEPT ![s] = "ok"]
    /\ sessions' = [sessions EXCEPT ![s] = k]
    /\ cmds' = [cmds EXCEPT ![s] = CmdOf(s, k)]
    /\ status' = [status EXCEPT ![k] = "live"]
    /\ tree' = [tree EXCEPT ![k] = TreeOf(s)]
    /\ UNCHANGED <<phase, left, reMu, pc, callVars>>

DialInitialFails(s) ==
    /\ phase = "dialling" /\ dialled[s] = "pending"
    /\ dialled' = [dialled EXCEPT ![s] = "err"]
    /\ ConnectFails(s)
    /\ UNCHANGED <<phase, left, sessions, cmds, reMu, pc, callVars>>

(* Mutant: the first error is dropped and the manager handed out anyway.    *)
NewManagerIgnoresErrors ==
    /\ phase = "dialling" /\ \A s \in Servers : dialled[s] # "pending"
    /\ phase' = "open"
    /\ UNCHANGED <<left, dialled, sessions, cmds, reMu, worldVars, pc, callVars>>

(* Mutant: the first error is returned without closing the servers reached. *)
NewManagerForgetsClose ==
    /\ phase = "dialling" /\ \A s \in Servers : dialled[s] # "pending"
    /\ phase' = IF \E s \in Servers : dialled[s] = "err"
                THEN "failed" ELSE "open"
    /\ UNCHANGED <<left, dialled, sessions, cmds, reMu, worldVars, pc, callVars>>

(* Every result is in: hand the manager out, or Close it and return the     *)
(* first error.                                                             *)
NewManagerReturns ==
    /\ phase = "dialling" /\ \A s \in Servers : dialled[s] # "pending"
    /\ \/ /\ \A s \in Servers : dialled[s] # "err"
          /\ phase' = "open" /\ UNCHANGED left
       \/ /\ \E s \in Servers : dialled[s] = "err"
          /\ phase' = "aborting" /\ left' = Held
    /\ UNCHANGED <<dialled, sessions, cmds, reMu, worldVars, pc, callVars>>

-----------------------------------------------------------------------------
(* Close: a loop over m.sessions, then one over m.cmds.                     *)

CloseBegin ==
    /\ phase = "open"
    /\ phase' = "closing" /\ left' = Held
    /\ UNCHANGED <<dialled, sessions, cmds, reMu, worldVars, pc, callVars>>

(* Mutant: the loop stops at the first session whose Close reports an       *)
(* error, as it may for one whose transport is already gone.                *)
CloseSessionStops(s) ==
    /\ phase \in {"aborting", "closing"} /\ s \in left
    /\ left' = IF Alive(sessions[s]) THEN left \ {s} ELSE {}
    /\ status' = [status EXCEPT ![sessions[s]] = "closed"]
    /\ UNCHANGED <<phase, dialled, sessions, cmds, reMu, tree, pc, callVars>>

(* s.Close() of the next session, in the map's order, which is any.  Closing*)
(* one whose transport is already gone may report an error: it is noted and *)
(* the loop goes on.                                                        *)
CloseSession(s) ==
    /\ phase \in {"aborting", "closing"} /\ s \in left
    /\ left' = left \ {s}
    /\ status' = [status EXCEPT ![sessions[s]] = "closed"]
    /\ UNCHANGED <<phase, dialled, sessions, cmds, reMu, tree, pc, callVars>>

(* The loop has run out of sessions: the killTree loop, then the return     *)
(* that releases m.mu.                                                      *)
CloseEnd ==
    /\ phase \in {"aborting", "closing"} /\ left = {}
    /\ tree' = [k \in Sessions |->
                  IF k \in Owned(cmds) THEN "killed" ELSE tree[k]]
    /\ phase' = IF phase = "aborting" THEN "failed" ELSE "closed"
    /\ UNCHANGED <<left, dialled, sessions, cmds, reMu, status, pc, callVars>>

-----------------------------------------------------------------------------
(* The transport of a session breaks: an idle remote hangs up, the host     *)
(* sleeps, a child exits.  What the process tree then does is unknown: it   *)
(* counts as up until killTree has been called on it.                       *)
Break(k) ==
    /\ Alive(k)
    /\ status' = [status EXCEPT ![k] = "dead"]
    /\ UNCHANGED <<mgrVars, tree, pc, callVars>>

-----------------------------------------------------------------------------
(* CallTool and checkHealth up to the point where they need Reconnect.      *)

Move(p, from, to) ==
    /\ pc[p] \in from
    /\ pc' = [pc EXCEPT ![p] = to]

(* CallTool reads the session of the server it was asked for.  An IDE       *)
(* session that was built on this manager goes on calling it after Close.   *)
CallTool(c, s) ==
    /\ phase \in {"open", "closed"} /\ c \in Callers
    /\ Move(c, {"idle"}, "send")
    /\ srv' = [srv EXCEPT ![c] = s]
    /\ on' = [on EXCEPT ![c] = sessions[s]]
    /\ UNCHANGED <<mgrVars, worldVars, fresh, old, todo, runVars>>

(* A tick of the health loop reads d.dm, which a reload replaces before it  *)
(* closes this manager, then makes one Session, one Ping and perhaps one    *)
(* Reconnect per server name.                                               *)
Tick ==
    /\ phase = "open"
    /\ Move(Pinger, {"idle"}, "pick")
    /\ todo' = Servers
    /\ UNCHANGED <<mgrVars, worldVars, srv, on, fresh, old, runVars>>

CheckServer(s) ==
    /\ Unlocked /\ s \in todo
    /\ Move(Pinger, {"pick"}, "send")
    /\ srv' = [srv EXCEPT ![Pinger] = s]
    /\ on' = [on EXCEPT ![Pinger] = sessions[s]]
    /\ todo' = todo \ {s}
    /\ UNCHANGED <<mgrVars, worldVars, fresh, old, runVars>>

(* Mutant: the health check gives up before it has seen every server.       *)
TickEndEarly ==
    /\ Move(Pinger, {"pick"}, "idle") /\ todo' = {}
    /\ UNCHANGED <<mgrVars, worldVars, srv, on, fresh, old, runVars>>

TickEnd ==
    /\ todo = {} /\ Move(Pinger, {"pick"}, "idle")
    /\ UNCHANGED <<mgrVars, worldVars, callVars>>

(* A goroutine is done with its server: a caller returns, the health loop   *)
(* takes the next name.  Its locals are gone.                               *)
Return(p, from) ==
    /\ Move(p, from, IF p = Pinger THEN "pick" ELSE "idle")
    /\ srv' = [srv EXCEPT ![p] = None]
    /\ on' = [on EXCEPT ![p] = None]
    /\ first' = [first EXCEPT ![p] = None]
    /\ second' = [second EXCEPT ![p] = None]
    /\ UNCHANGED <<fresh, old, todo>>

(* session.CallTool or session.Ping puts the request on a live transport.   *)
Send(p) ==
    /\ Alive(on[p])
    /\ \/ Move(p, {"send"}, "wait")
       \/ Move(p, {"resend"}, "rewait")
    /\ UNCHANGED <<mgrVars, worldVars, callVars>>

(* The downstream runs the call, whatever later becomes of the answer.      *)
Run(c) ==
    /\ c \in Callers /\ Alive(on[c])
    /\ \/ /\ pc[c] = "wait" /\ first[c] = None
          /\ first' = [first EXCEPT ![c] = on[c]]
          /\ UNCHANGED second
       \/ /\ pc[c] = "rewait" /\ second[c] = None
          /\ second' = [second EXCEPT ![c] = on[c]]
          /\ UNCHANGED first
    /\ UNCHANGED <<mgrVars, worldVars, pc, srv, on, fresh, old, todo>>

(* The answer arrives, with or without a tool error: CallTool returns it.   *)
Answer(p) ==
    /\ Alive(on[p]) /\ (p \in Callers => on[p] \in {first[p], second[p]})
    /\ Return(p, {"wait", "rewait"})
    /\ UNCHANGED <<mgrVars, worldVars>>

(* Mutant: every error of the first attempt is retried.                     *)
FailIsRetried(p) ==
    /\ \/ p \in Callers /\ Move(p, {"wait"}, "reread") /\ UNCHANGED callVars
       \/ Return(p, {"send", "resend", "rewait"})
    /\ UNCHANGED <<mgrVars, worldVars>>

(* Any error other than ErrConnectionClosed - the call timeout, the ping    *)
(* timeout, a cancelled context, a protocol error - is returned as it is.   *)
(* A ping of a session that is already gone gets no such error.             *)
Fail(p) ==
    /\ p = Pinger /\ pc[p] = "send" => Alive(on[p])
    /\ Return(p, {"send", "wait", "resend", "rewait"})
    /\ UNCHANGED <<mgrVars, worldVars>>

(* ErrConnectionClosed on the first attempt leads to Reconnect, on the      *)
(* second it is returned.                                                   *)
ConnectionClosed(p) ==
    /\ on[p] # None /\ ~Alive(on[p])
    /\ \/ Move(p, {"send", "wait"}, "broken") /\ UNCHANGED callVars
       \/ Return(p, {"resend", "rewait"})
    /\ UNCHANGED <<mgrVars, worldVars>>

-----------------------------------------------------------------------------
(* Reconnect(ctx, srv[p], on[p]).                                           *)

(* Mutant: no per-server mutex.                                             *)
LockReconnectUnguarded(p) ==
    /\ Move(p, {"broken"}, "check")
    /\ Unlocked
    /\ reMu' = [reMu EXCEPT ![srv[p]] = p]
    /\ UNCHANGED <<phase, left, dialled, sessions, cmds, worldVars, callVars>>

LockReconnect(p) ==
    /\ Move(p, {"broken"}, "check")
    /\ Unlocked /\ reMu[srv[p]] = None
    /\ reMu' = [reMu EXCEPT ![srv[p]] = p]
    /\ UNCHANGED <<phase, left, dialled, sessions, cmds, worldVars, callVars>>

(* Mutant: whoever gets the mutex redials.                                  *)
CheckCurrentDropped(p) ==
    /\ Unlocked /\ Move(p, {"check"}, "dial")
    /\ UNCHANGED <<mgrVars, worldVars, callVars>>

(* Only the session this goroutine saw failing is worth replacing.          *)
CheckCurrent(p) ==
    /\ Unlocked /\ pc[p] = "check"
    /\ Move(p, {"check"}, IF sessions[srv[p]] # on[p] THEN "unlock" ELSE "dial")
    /\ UNCHANGED <<mgrVars, worldVars, callVars>>

(* connect runs outside m.mu and may outlast a Close.                       *)
Dial(p, k) ==
    /\ Fresh(k) /\ Move(p, {"dial"}, "swap")
    /\ status' = [status EXCEPT ![k] = "live"]
    /\ tree' = [tree EXCEPT ![k] = TreeOf(srv[p])]
    /\ fresh' = [fresh EXCEPT ![p] = k]
    /\ UNCHANGED <<mgrVars, srv, on, old, todo, runVars>>

(* Mutant: the error return does not unlock.                                *)
DialFailsLocked(p) ==
    /\ Return(p, {"dial"})
    /\ ConnectFails(srv[p])
    /\ UNCHANGED mgrVars

(* connect fails: the deferred unlock, and the error is the call's result.  *)
DialFails(p) ==
    /\ Return(p, {"dial"})
    /\ ConnectFails(srv[p])
    /\ reMu' = [reMu EXCEPT ![srv[p]] = None]
    /\ UNCHANGED <<phase, left, dialled, sessions, cmds>>

(* Mutant: oldCmd is read after the new process was stored.                 *)
SwapReadsCmdLate(p) ==
    /\ Unlocked /\ Move(p, {"swap"}, "release")
    /\ old' = [old EXCEPT ![p] = CmdOf(srv[p], fresh[p])]
    /\ sessions' = [sessions EXCEPT ![srv[p]] = fresh[p]]
    /\ cmds' = [cmds EXCEPT ![srv[p]] = CmdOf(srv[p], fresh[p])]
    /\ fresh' = [fresh EXCEPT ![p] = None]
    /\ UNCHANGED <<phase, left, dialled, reMu, worldVars, srv, on, todo, runVars>>

Swap(p) ==
    /\ Unlocked /\ Move(p, {"swap"}, "release")
    /\ old' = [old EXCEPT ![p] = cmds[srv[p]]]
    /\ sessions' = [sessions EXCEPT ![srv[p]] = fresh[p]]
    /\ cmds' = [cmds EXCEPT ![srv[p]] = CmdOf(srv[p], fresh[p])]
    /\ fresh' = [fresh EXCEPT ![p] = None]
    /\ UNCHANGED <<phase, left, dialled, reMu, worldVars, srv, on, todo, runVars>>

(* Mutant: the replaced session is not closed.                              *)
ReleaseOldTreeOnly(p) ==
    /\ Move(p, {"release"}, "unlock")
    /\ tree' = [k \in Sessions |-> IF k = old[p] THEN "killed" ELSE tree[k]]
    /\ old' = [old EXCEPT ![p] = None]
    /\ UNCHANGED <<mgrVars, status, srv, on, fresh, todo, runVars>>

(* current.Close(), then killTree of the process it was dialled with.       *)
ReleaseOld(p) ==
    /\ Move(p, {"release"}, "unlock")
    /\ status' = [status EXCEPT ![on[p]] = "closed"]
    /\ tree' = [k \in Sessions |-> IF k = old[p] THEN "killed" ELSE tree[k]]
    /\ old' = [old EXCEPT ![p] = None]
    /\ UNCHANGED <<mgrVars, srv, on, fresh, todo, runVars>>

UnlockReconnect(p) ==
    /\ \/ p = Pinger /\ Return(p, {"unlock"})
       \/ p \in Callers /\ Move(p, {"unlock"}, "reread") /\ UNCHANGED callVars
    /\ reMu' = [reMu EXCEPT ![srv[p]] = None]
    /\ UNCHANGED <<phase, left, dialled, sessions, cmds, worldVars>>

(* Mutant: the retry reuses the session variable of the first attempt.      *)
RereadShadowed(c) ==
    /\ Unlocked /\ c \in Callers
    /\ Move(c, {"reread"}, "resend")
    /\ UNCHANGED <<mgrVars, worldVars, callVars>>

(* CallTool reads the session again and makes its only retry.               *)
Reread(c) ==
    /\ Unlocked /\ c \in Callers
    /\ Move(c, {"reread"}, "resend")
    /\ on' = [on EXCEPT ![c] = sessions[srv[c]]]
    /\ UNCHANGED <<mgrVars, worldVars, srv, fresh, old, todo, runVars>>

-----------------------------------------------------------------------------
Exchange(p) == Send(p) \/ Run(p) \/ Answer(p) \/ Fail(p) \/ ConnectionClosed(p)

Reconnect(p) ==
    \/ LockReconnect(p)
    \/ CheckCurrent(p)
    \/ \E k \in Sessions : Dial(p, k)
    \/ DialFails(p)
    \/ Swap(p)
    \/ ReleaseOld(p)
    \/ UnlockReconnect(p)

HealthLoop == Tick \/ TickEnd \/ \E s \in Servers : CheckServer(s)

NewManager ==
    \/ \E s \in Servers :
          DialInitialFails(s) \/ \E k \in Sessions : DialInitial(s, k)
    \/ NewManagerReturns

Close == CloseBegin \/ CloseEnd \/ \E s \in Servers : CloseSession(s)

Next ==
    \/ NewManager
    \/ Close
    \/ HealthLoop
    \/ \E k \in Sessions : Break(k)
    \/ \E c \in Callers : Reread(c) \/ \E s \in Servers : CallTool(c, s)
    \/ \E p \in Procs : Exchange(p) \/ Reconnect(p)

Spec == Init /\ [][Next]_vars

-----------------------------------------------------------------------------
(* Fairness.  Go runs every goroutine that can run and its mutexes do not   *)
(* starve a waiter (strong fairness of LockReconnect).  A request ends: the *)
(* downstream answers, the transport breaks or the context expires; so does *)
(* a connect.  A server that is redialled again and again is up in the end  *)
(* (strong fairness of the health loop's Dial).                             *)

Leave(p) ==
    \/ Send(p) \/ Answer(p) \/ Fail(p) \/ ConnectionClosed(p)
    \/ CheckCurrent(p) \/ DialFails(p) \/ \E k \in Sessions : Dial(p, k)
    \/ Swap(p) \/ ReleaseOld(p) \/ UnlockReconnect(p) \/ Reread(p)

Fairness ==
    /\ WF_vars(NewManager)
    /\ WF_vars(CloseEnd \/ \E s \in Servers : CloseSession(s))
    /\ WF_vars(HealthLoop)
    /\ \A p \in Procs : WF_vars(Leave(p)) /\ SF_vars(LockReconnect(p))
    /\ SF_vars(\E k \in Sessions : Dial(Pinger, k))

FairSpec == Spec /\ Fairness

-----------------------------------------------------------------------------
(* Properties.                                                              *)

TypeOK ==
    /\ phase \in Phases
    /\ left \in SUBSET Servers
    /\ dialled \in [Servers -> {"ok", "err", "pending"}]
    /\ sessions \in [Servers -> Sessions \union {None}]
    /\ cmds \in [Servers -> Sessions \union {None}]
    /\ reMu \in [Servers -> Procs \union {None}]
    /\ status \in [Sessions -> {"unused", "live", "dead", "closed", "failed"}]
    /\ tree \in [Sessions -> {"none", "up", "killed"}]
    /\ pc \in [Procs -> Locs]
    /\ srv \in [Procs -> Servers \union {None}]
    /\ on \in [Procs -> Sessions \union {None}]
    /\ fresh \in [Procs -> Sessions \union {None}]
    /\ old \in [Procs -> Sessions \union {None}]
    /\ todo \in SUBSET Servers
    /\ first \in [Procs -> Sessions \union {None}]
    /\ second \in [Procs -> Sessions \union {None}]
    /\ phase \in {"open", "closing", "closed"} =>
           \A s \in Servers : sessions[s] \in Sessions

(* The comparison Reconnect makes under reconnectMu still holds when it     *)
(* swaps, although m.mu was released and a dial of any length lies between: *)
(* the session about to be replaced is the one this goroutine saw failing.  *)
SwapReplacesBad ==
    \A p \in Procs : pc[p] \in {"dial", "swap"} =>
        /\ reMu[srv[p]] = p
        /\ sessions[srv[p]] = on[p]

(* No session is lost: whatever is not closed is in m.sessions, or is the   *)
(* one a Reconnect has just dialled, or the one it is about to close.       *)
SessionsAccountedFor ==
    \A k \in Sessions : status[k] \in {"live", "dead"} =>
        \/ k \in Owned(sessions)
        \/ \E p \in Procs : \/ pc[p] = "swap" /\ fresh[p] = k
                            \/ pc[p] = "release" /\ on[p] = k

(* No process tree that connect handed out is lost: while it has not been   *)
(* force-killed it is in m.cmds, where Close finds it, or in the hands of a *)
(* Reconnect.                                                               *)
TreesAccountedFor ==
    \A k \in Sessions : tree[k] = "up" /\ status[k] # "failed" =>
        \/ k \in Owned(cmds)
        \/ \E p \in Procs : \/ pc[p] = "swap" /\ fresh[p] = k
                            \/ pc[p] = "release" /\ old[p] = k

(* A NewManager that fails on one server leaves nothing of the servers that *)
(* it did reach: every session closed, every process tree killed.           *)
FailedNewManagerLeavesNothing ==
    phase = "failed" =>
        \A k \in Sessions : /\ ~Alive(k) /\ status[k] # "dead"
                            /\ status[k] = "closed" => tree[k] # "up"

(* A call that the downstream has already run is only sent again if the     *)
(* session it ran on is gone: a timeout or a tool error is never retried.   *)
RerunOnlyAfterLoss ==
    \A c \in Callers :
        pc[c] \in {"reread", "resend", "rewait"} => ~Alive(first[c])

(* The retry never goes to the session the first attempt broke on.          *)
RetryUsesNewSession ==
    [][\A c \in Callers :
         pc[c] = "reread" /\ pc'[c] = "resend" => on'[c] # on[c]]_vars

(* A session is only ever replaced once its transport is gone: callers that *)
(* meet the same dead session cause one redial between them, and a caller   *)
(* late by any number of replacements does not tear down a good session.    *)
OnlyDeadReplaced ==
    [][\A s \in Servers : sessions[s] # None /\ sessions'[s] # sessions[s]
                          => ~Alive(sessions[s])]_vars

(* When Close returns - or NewManager's own, after a failed dial - every    *)
(* session the manager holds at that moment is closed and every process tree*)
(* killed, in whatever order the loop met them and whichever transports had *)
(* already broken, before the loop or while it ran.                         *)
CloseReleasesAll ==
    [][phase # phase' /\ phase' \in {"closed", "failed"} =>
         /\ \A k \in Owned(sessions) : status'[k] = "closed"
         /\ \A k \in Owned(cmds) : tree'[k] = "killed"]_vars

(* Every relayed call returns, whatever breaks, redials or closes meanwhile.*)
CallReturns == \A c \in Callers : pc[c] # "idle" ~> pc[c] = "idle"

(* The health loop heals: a dead current session of an open manager is      *)
(* replaced, without any caller's help (unless the bound is used up).       *)
DeadIsReplaced ==
    \A s \in Servers, k \in Sessions :
        phase = "open" /\ sessions[s] = k /\ status[k] = "dead"
        ~> \/ sessions[s] # k \/ phase # "open"
           \/ \A j \in Sessions : status[j] # "unused"

(* The manager is a ServerPool: a session counts as up only while it is     *)
(* current, and as past from the moment Swap installs it.                   *)
Pool == INSTANCE ServerPool WITH
    current <- sessions,
    up <- {k \in Owned(sessions) : Alive(k)},
    past <- {k \in Sessions : status[k] \notin {"unused", "failed"}}
            \ {fresh[p] : p \in Procs},
    target <- [c \in Callers |-> srv[c]],
    first <- [c \in Callers |-> first[c]],
    second <- [c \in Callers |-> second[c]]

ImplementsPool == Pool!Spec

(* Once Close has returned and no goroutine is inside the manager, nothing  *)
(* downstream is still connected.  The code does not keep this.             *)
StaysClosed ==
    phase = "closed" /\ (\A p \in Procs : pc[p] = "idle")
        => \A k \in Sessions : ~Alive(k)
=============================================================================
