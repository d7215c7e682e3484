------------------------------ MODULE Autostart ------------------------------
(* adminclient.EnsureRunning and daemon.Run: processes that look for the    *)
(* running daemon in daemon.json, start one under daemon.starting.lock if   *)
(* they find none, and daemons that publish themselves there and withdraw.  *)
(*                                                                          *)
(* A daemon identity stands for one daemon process with its port and token, *)
(* so daemon.json holds an identity.  One whose daemon is gone does not     *)
(* answer: the port is closed, or is somebody else's and the token wrong.   *)
EXTENDS Integers, Functions

CONSTANTS
    Starters,       \* processes that call EnsureRunning: IDE adapters, the ui
    MaxDaemons,     \* bound: daemon processes ever started
    MaxCalls,       \* bound: calls of EnsureRunning
    Bounds,         \* bounds: how often each kind of mishap may happen,
    MaxMishaps,     \* and how many of them in all
    Torn,           \* daemon.json truncated, or with a mix of two writers
    Failed,         \* an error returned in place of a client
    None

Daemons == 1 .. MaxDaemons
Mishaps == {"faults", "slow", "kills", "stops", "hand"}

ASSUME AutostartAssumption ==
    /\ MaxDaemons \in Nat
    /\ MaxCalls \in Nat /\ MaxMishaps \in Nat
    /\ Bounds \in [Mishaps -> Nat]
    /\ None \notin Daemons /\ Torn \notin Daemons /\ Failed \notin Daemons
    /\ None # Torn /\ None # Failed

VARIABLES
    fixedAddr,  \* http.addr is configured: two daemons cannot listen at once
    state,      \* where each daemon is in daemon.Run
    info,       \* the content of daemon.json, None if there is none
    linked,     \* daemons in WriteInfo whose open file is still daemon.json
    lock,       \* daemon.starting.lock exists
    pc,         \* where each starter is in EnsureRunning
    asked,      \* tryExisting: the daemon it is asking for its status
    got,        \* what its last EnsureRunning returned: a daemon or Failed
    count       \* how often each kind of mishap has happened, and of calls

files == <<info, linked, lock>>
vars == <<fixedAddr, state, files, pc, asked, got, count>>

States == {"unused", "opening", "bound", "blank", "serving", "draining",
           "closing", "gone"}
Coming == {"opening", "bound", "blank"}
Listening == {"bound", "blank", "serving"}

Holding == {"relook", "spawn", "poll", "release"}
Trying == {"look", "relook", "poll", "queue"}
Locs == {"idle", "lock"} \union Holding \union Trying

Init ==
    /\ fixedAddr \in BOOLEAN
    /\ state = [d \in Daemons |-> "unused"]
    /\ info = None /\ linked = {} /\ lock = FALSE
    /\ pc = [p \in Starters |-> "idle"]
    /\ asked = [p \in Starters |-> None]
    /\ got = [p \in Starters |-> None]
    /\ count = [what \in Mishaps \union {"calls"} |-> 0]

Count(what) == count' = [count EXCEPT ![what] = @ + 1]

Mishap(what) ==
    /\ count[what] < Bounds[what]
    /\ SumFunctionOnSet(count, Mishaps) < MaxMishaps
    /\ Count(what)

Happened(what) == count[what] > 0

Findable == info \in Daemons /\ state[info] = "serving"

-----------------------------------------------------------------------------
(* EnsureRunning.                                                           *)

Move(p, from, to) ==
    /\ pc[p] = from
    /\ pc' = [pc EXCEPT ![p] = to]

(* The result is known; whoever holds the lock has still to remove it.      *)
Return(p, result) ==
    /\ pc' = [pc EXCEPT ![p] = IF @ \in Holding THEN "release" ELSE "idle"]
    /\ got' = [got EXCEPT ![p] = result]
    /\ asked' = [asked EXCEPT ![p] = None]

EnsureRunning(p) ==
    /\ Move(p, "idle", "look") /\ count.calls < MaxCalls /\ Count("calls")
    /\ got' = [got EXCEPT ![p] = None]
    /\ UNCHANGED <<fixedAddr, state, files, asked>>

(* tryExisting did not find a daemon: where each of its callers goes on.    *)
(* waitFor tries again.                                                     *)
AfterMiss == [look |-> "lock", relook |-> "spawn", poll |-> "poll",
              queue |-> "queue"]

Miss(p) ==
    /\ pc' = [pc EXCEPT ![p] = AfterMiss[@]]
    /\ asked' = [asked EXCEPT ![p] = None]
    /\ UNCHANGED got

(* ReadInfo finds no file, or none that parses.                             *)
ReadNoInfo(p) ==
    /\ pc[p] \in Trying /\ asked[p] = None
    /\ info \notin Daemons /\ Miss(p)
    /\ UNCHANGED <<fixedAddr, state, files, count>>

ReadInfo(p) ==
    /\ pc[p] \in Trying /\ asked[p] = None
    /\ info \in Daemons
    /\ asked' = [asked EXCEPT ![p] = info]
    /\ UNCHANGED <<fixedAddr, state, files, pc, got, count>>

Status(p) ==
    /\ asked[p] # None /\ state[asked[p]] = "serving"
    /\ Return(p, asked[p])
    /\ UNCHANGED <<fixedAddr, state, files, count>>

(* Mutant: the client of the last attempt is kept.                          *)
StatusFailsKept(p) ==
    /\ asked[p] # None /\ state[asked[p]] # "serving"
    /\ pc' = [pc EXCEPT ![p] = IF @ = "look" THEN "lock" ELSE @]
    /\ UNCHANGED <<fixedAddr, state, files, asked, got, count>>

StatusFails(p) ==
    /\ asked[p] # None /\ state[asked[p]] # "serving"
    /\ Miss(p)
    /\ UNCHANGED <<fixedAddr, state, files, count>>

(* Mutant: no second look once the lock is held.                            *)
AcquireBlindly(p) ==
    /\ Move(p, "lock", IF lock THEN "queue" ELSE "spawn")
    /\ lock' = TRUE
    /\ UNCHANGED <<fixedAddr, state, info, linked, asked, got, count>>

(* O_CREATE|O_EXCL: whoever creates the file holds the lock, the others     *)
(* wait for the daemon.                                                     *)
AcquireStartLock(p) ==
    /\ Move(p, "lock", IF lock THEN "queue" ELSE "relook")
    /\ lock' = TRUE
    /\ UNCHANGED <<fixedAddr, state, info, linked, asked, got, count>>

Unborn(d) ==
    /\ state[d] = "unused"
    /\ \A e \in Daemons : state[e] = "unused" => d <= e

Spawn(p, d) ==
    /\ Move(p, "spawn", "poll")
    /\ Unborn(d) /\ state' = [state EXCEPT ![d] = "opening"]
    /\ UNCHANGED <<fixedAddr, files, asked, got, count>>

(* os.Executable or cmd.Start fails.                                        *)
SpawnFails(p) ==
    /\ pc[p] = "spawn" /\ Mishap("faults")
    /\ Return(p, Failed)
    /\ UNCHANGED <<fixedAddr, state, files>>

(* A daemon may be up soon: a starter is about to look or to spawn, or a    *)
(* daemon is on its way, or is there to be found.                           *)
Promising ==
    \/ Findable
    \/ \E p \in Starters : pc[p] \in {"relook", "spawn"}
    \/ \E d \in Daemons : state[d] \in Coming

(* Mutant: only the holder of the lock has a deadline.                      *)
TimeoutOfHolder(p) ==
    /\ pc[p] = "poll" /\ asked[p] = None
    /\ IF Promising THEN Mishap("slow") ELSE UNCHANGED count
    /\ Return(p, Failed)
    /\ UNCHANGED <<fixedAddr, state, files>>

(* Mutant: a waiter that gives up removes the lock as well.                 *)
TimeoutUnlocks(p) ==
    /\ pc[p] \in {"poll", "queue"} /\ asked[p] = None
    /\ IF Promising THEN Mishap("slow") ELSE UNCHANGED count
    /\ lock' = FALSE
    /\ Return(p, Failed)
    /\ UNCHANGED <<fixedAddr, state, info, linked>>

(* waitFor's deadline.  startTimeout is meant to cover a cold start: if it  *)
(* does not, that is a slow start.                                          *)
Timeout(p) ==
    /\ pc[p] \in {"poll", "queue"} /\ asked[p] = None
    /\ IF Promising THEN Mishap("slow") ELSE UNCHANGED count
    /\ Return(p, Failed)
    /\ UNCHANGED <<fixedAddr, state, files>>

(* The deferred release, whatever the outcome.                              *)
Release(p) ==
    /\ Move(p, "release", "idle")
    /\ lock' = FALSE
    /\ UNCHANGED <<fixedAddr, state, info, linked, asked, got, count>>

(* The IDE or the user kills the process; a lock file it made stays behind. *)
Kill(p) ==
    /\ pc[p] # "idle" /\ Mishap("kills")
    /\ pc' = [pc EXCEPT ![p] = "idle"]
    /\ asked' = [asked EXCEPT ![p] = None]
    /\ UNCHANGED <<fixedAddr, state, files, got>>

-----------------------------------------------------------------------------
(* daemon.Run.                                                              *)

Enter(d, from, to) ==
    /\ state[d] = from
    /\ state' = [state EXCEPT ![d] = to]

(* "shadow-mcp daemon" or "serve http" by hand: no lock, no look.           *)
StartByHand(d) ==
    /\ Unborn(d) /\ Mishap("hand")
    /\ state' = [state EXCEPT ![d] = "opening"]
    /\ UNCHANGED <<fixedAddr, files, pc, asked, got>>

(* New fails: the configuration, or one of the downstream servers.          *)
OpenFails(d) ==
    /\ Enter(d, "opening", "gone") /\ Mishap("faults")
    /\ UNCHANGED <<fixedAddr, files, pc, asked, got>>

Listen(d) ==
    /\ Enter(d, "opening", "bound")
    /\ fixedAddr => \A e \in Daemons : state[e] \notin Listening
    /\ UNCHANGED <<fixedAddr, files, pc, asked, got, count>>

(* The address is taken: Run closes what it opened, publishing nothing.     *)
ListenFails(d) ==
    /\ fixedAddr /\ \E e \in Daemons : state[e] \in Listening
    /\ Enter(d, "opening", "closing")
    /\ UNCHANGED <<fixedAddr, files, pc, asked, got, count>>

(* WriteInfo: os.WriteFile truncates daemon.json ...                        *)
WriteInfoOpens(d) ==
    /\ Enter(d, "bound", "blank")
    /\ info' = Torn /\ linked' = linked \union {d}
    /\ UNCHANGED <<fixedAddr, lock, pc, asked, got, count>>

(* ... and writes to the file it opened.  Over what another daemon wrote    *)
(* meanwhile, longer perhaps, the result may not parse; if the file has     *)
(* been removed nobody sees it.  Then the server serves.                    *)
WriteInfo(d) ==
    /\ Enter(d, "blank", "serving")
    /\ \/ d \notin linked /\ UNCHANGED info
       \/ d \in linked /\ info' = d
       \/ d \in linked /\ info # Torn /\ info' = Torn
    /\ linked' = linked \ {d}
    /\ UNCHANGED <<fixedAddr, lock, pc, asked, got, count>>

(* The signal: the listener and all connections are closed ...              *)
Stop(d) ==
    /\ Enter(d, "serving", "draining") /\ Mishap("stops")
    /\ UNCHANGED <<fixedAddr, files, pc, asked, got>>

(* ... daemon.json is removed, whoever wrote it ...                         *)
RemoveInfo(d) ==
    /\ Enter(d, "draining", "closing")
    /\ info' = None /\ linked' = {}
    /\ UNCHANGED <<fixedAddr, lock, pc, asked, got, count>>

(* ... and the downstream connections are closed.                           *)
CloseDaemon(d) ==
    /\ Enter(d, "closing", "gone")
    /\ UNCHANGED <<fixedAddr, files, pc, asked, got, count>>

(* What the daemon published stays behind.                                  *)
Crash(d) ==
    /\ state[d] \notin {"unused", "gone"} /\ Mishap("faults")
    /\ state' = [state EXCEPT ![d] = "gone"]
    /\ linked' = linked \ {d}
    /\ UNCHANGED <<fixedAddr, info, lock, pc, asked, got>>

-----------------------------------------------------------------------------
TryExisting(p) == ReadNoInfo(p) \/ ReadInfo(p) \/ Status(p) \/ StatusFails(p)

StartUnderLock(p) ==
    \/ AcquireStartLock(p)
    \/ SpawnFails(p) \/ \E d \in Daemons : Spawn(p, d)
    \/ Timeout(p) \/ Release(p)

RunDaemon(d) ==
    \/ OpenFails(d) \/ Listen(d) \/ ListenFails(d)
    \/ WriteInfoOpens(d) \/ WriteInfo(d)
    \/ RemoveInfo(d) \/ CloseDaemon(d)

Next ==
    \/ \E p \in Starters :
          EnsureRunning(p) \/ TryExisting(p) \/ StartUnderLock(p) \/ Kill(p)
    \/ \E d \in Daemons :
          StartByHand(d) \/ RunDaemon(d) \/ Stop(d) \/ Crash(d)

Spec == Init /\ [][Next]_vars

(* A started process runs; a daemon's start succeeds or fails; waitFor has  *)
(* a deadline and polls until then.  (Asking for a status ends, and leads   *)
(* out of the loop or back to where the deadline is looked at.)             *)
Fairness ==
    /\ \A p \in Starters :
          /\ WF_vars(TryExisting(p))
          /\ WF_vars(StartUnderLock(p))
          /\ SF_vars(Timeout(p))
    /\ \A d \in Daemons : WF_vars(RunDaemon(d))

FairSpec == Spec /\ Fairness

-----------------------------------------------------------------------------
(* Properties.                                                              *)

TypeOK ==
    /\ fixedAddr \in BOOLEAN
    /\ state \in [Daemons -> States]
    /\ info \in Daemons \union {Torn, None}
    /\ linked \in SUBSET Daemons
    /\ lock \in BOOLEAN
    /\ pc \in [Starters -> Locs]
    /\ asked \in [Starters -> Daemons \union {None}]
    /\ got \in [Starters -> Daemons \union {None, Failed}]
    /\ count \in [Mishaps \union {"calls"} -> Nat]
    /\ \A p \in Starters : pc[p] \notin Trying => asked[p] = None

(* The lock file excludes: of the processes that are alive at most one is   *)
(* between acquireStartLock and its release, and while it is the file is    *)
(* there.  Deaths, timeouts and daemons started by hand do not matter.      *)
SoleStarter ==
    \A p \in Starters : pc[p] \in Holding =>
        lock /\ \A q \in Starters \ {p} : pc[q] \notin Holding

(* What the design rests on: nobody stopped a daemon or started one by      *)
(* hand, and every start that came to an end did so before startTimeout.    *)
Undisturbed == ~Happened("stops") /\ ~Happened("hand") /\ ~Happened("slow")

(* "Only one of them actually spawns it": whatever processes race for the   *)
(* start, are killed or see daemons crash, there is one daemon at a time.   *)
OneDaemon ==
    Undisturbed =>
        \A d, e \in Daemons :
            {state[d], state[e]} \subseteq Coming \union {"serving"} => d = e

(* Info is "what a running daemon publishes so other shadow-mcp processes   *)
(* can find" it: whenever a daemon serves, daemon.json names one that does. *)
ServingIsFindable == (\E d \in Daemons : state[d] = "serving") => Findable

(* And that is so as long as no daemon is stopped or started by hand.       *)
InfoFindsDaemon == Undisturbed => ServingIsFindable

(* "The other waits and attaches to the same daemon": if nothing at all     *)
(* goes wrong no call fails and all of them return the same daemon.         *)
AttachToTheSame ==
    (\A what \in Mishaps : ~Happened(what)) =>
        \A p, q \in Starters :
            {got[p], got[q]} \subseteq Daemons \union {Failed}
            => got[p] = got[q] /\ got[p] # Failed

(* Every EnsureRunning returns, also behind a lock file that a process left *)
(* when it was killed.                                                      *)
EnsureReturns == \A p \in Starters : pc[p] # "idle" ~> pc[p] = "idle"
=============================================================================
