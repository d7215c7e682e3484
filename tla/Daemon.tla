------------------------------- MODULE Daemon -------------------------------
(* daemon.Daemon: the configuration file, the running configuration and the *)
(* downstream managers behind it, under concurrent admin requests (reload   *)
(* and CRUD edits), a health loop, IDE sessions, a shutdown and a crash.    *)
(*                                                                          *)
(* A manager generation stands for one *downstream.Manager together with    *)
(* the catalog and the rule engine that reload built beside it: the swap    *)
(* assigns them in one critical section and ProfileServer reads them in     *)
(* another.  Opening and closing a manager is one step here; what happens   *)
(* inside it is the business of module Manager.                             *)
EXTENDS Integers, FiniteSets

CONSTANTS
    Names,          \* names of configured entries (servers, profiles, rules)
    Edits,          \* the edits admin requests may ask for, see Edit
    InitialConfig,  \* what the file holds at first
    HandConfigs,    \* what an edit by hand may leave in it
    Admins,         \* goroutines serving admin requests
    Ides,           \* IDE sessions
    Main,           \* the goroutine of daemon.Run
    MaxGens,        \* bound: managers that can ever be opened
    MaxRequests,    \* bound: admin requests accepted
    MaxHandEdits,   \* bound: edits of the file made with a text editor
    MaxCrashes,     \* bound: crashes of the daemon process
    Torn,           \* the content of a file truncated and not yet written
    Garbled,        \* that of one in which two writes were mixed: no YAML
    None

Absent == "absent"
Bodies == {"good", "bad"}        \* "bad": valid, but it does not connect
Configs == [Names -> Bodies \union {Absent}]

(* An empty file parses as a configuration without a single entry, and that *)
(* one is valid; a garbled one does not parse.                              *)
Empty == [n \in Names |-> Absent]
Parse(content) == IF content \in Configs THEN content ELSE Empty
Readable(content) == content # Garbled

(* What a file holds after b was written from its first byte on to one that *)
(* held c: a longer c shows behind b's end.  Only if b is a beginning of c  *)
(* is the mixture c again.  (Mixtures that happen to be a third valid       *)
(* configuration are left out.)                                             *)
Overwritten(c, b) ==
    IF c = Torn THEN {b}
    ELSE IF b = Torn \/ b = c THEN {c}
    ELSE {b, c, Garbled}

Gens == 1 .. MaxGens
Procs == Admins \union {Main}

(* orig is the entry an upsert replaces, None for a create; body Absent is  *)
(* a delete.                                                                *)
Edit == [orig : Names \union {None}, name : Names,
         body : Bodies \union {Absent}]

ASSUME DaemonAssumption ==
    /\ Edits \subseteq Edit
    /\ InitialConfig \in Configs /\ HandConfigs \subseteq Configs
    /\ MaxGens \in Nat /\ MaxRequests \in Nat
    /\ MaxHandEdits \in Nat /\ MaxCrashes \in Nat
    /\ Main \notin Admins
    /\ None \notin Gens /\ None \notin Names /\ None \notin Configs
    /\ Torn \notin Configs /\ Torn # None
    /\ Garbled \notin Configs /\ Garbled # None /\ Garbled # Torn

VARIABLES
    phase,      \* where daemon.Run is
    disk,       \* the content of the configuration file
    tmp,        \* the content of <file>.tmp, None if there is no such file
    cfg, raw,   \* d.cfg and d.rawCfg
    dm,         \* d.dm, d.catalog, d.engine
    mgr,        \* the managers
    pc,         \* where each request is
    stage,      \* why it is reloading: "start", "plain", "edit" or "resync"
    edit,       \* mutateRaw: the edit asked for
    clone,      \* mutateRaw: the edited copy of d.rawCfg
    previous,   \* mutateRaw: the file's content before the edit
    open,       \* os.WriteFile: the name under which the file each request
                \* has open is linked, "gone" if no longer under any
    newCfg,     \* reload: the result of config.Load
    newRaw,     \* reload: the result of config.LoadRaw
    newDm,      \* reload: the manager it has opened
    oldDm,      \* reload: the manager it has displaced
    health,     \* checkHealth: the manager it works on
    ide,        \* the manager each IDE session was built on
    dial,       \* the manager in which a relayed call is redialling a server
    budget      \* what is left of the bounds

live == <<cfg, raw, dm>>
files == <<disk, tmp, open>>
editVars == <<edit, clone, previous>>
loadVars == <<newCfg, newRaw, newDm, oldDm>>
actors == <<health, ide, dial>>
vars == <<phase, files, live, mgr, pc, stage, editVars, loadVars, actors,
          budget>>

Phases == {"down", "starting", "up", "stopping", "closing", "quiet"}
Serving == {"up", "stopping", "closing", "quiet"}
Locs == {"idle", "snapshot", "save", "write", "rename", "load", "loadraw", "connect",
         "build", "swap", "closeold", "truncate", "rewrite"}

Running == phase # "down"

Init ==
    /\ phase = "down"
    /\ disk = InitialConfig /\ tmp = None
    /\ open = [p \in Procs |-> None]
    /\ cfg = None /\ raw = None /\ dm = None
    /\ mgr = [g \in Gens |-> "unused"]
    /\ pc = [p \in Procs |-> "idle"]
    /\ stage = [p \in Procs |-> None]
    /\ edit = [p \in Procs |-> None]
    /\ clone = [p \in Procs |-> None]
    /\ previous = [p \in Procs |-> None]
    /\ newCfg = [p \in Procs |-> None]
    /\ newRaw = [p \in Procs |-> None]
    /\ newDm = [p \in Procs |-> None]
    /\ oldDm = [p \in Procs |-> None]
    /\ health = None
    /\ ide = [i \in Ides |-> None]
    /\ dial = None
    /\ budget = [requests |-> MaxRequests, hands |-> MaxHandEdits,
                 crashes |-> MaxCrashes]

-----------------------------------------------------------------------------
Move(p, from, to) ==
    /\ pc[p] = from
    /\ pc' = [pc EXCEPT ![p] = to]

Spend(what) ==
    /\ budget[what] > 0
    /\ budget' = [budget EXCEPT ![what] = @ - 1]

(* The request is answered; its locals are gone.                            *)
Return(p, from) ==
    /\ Move(p, from, "idle")
    /\ stage' = [stage EXCEPT ![p] = None]
    /\ edit' = [edit EXCEPT ![p] = None]
    /\ clone' = [clone EXCEPT ![p] = None]
    /\ previous' = [previous EXCEPT ![p] = None]
    /\ newCfg' = [newCfg EXCEPT ![p] = None]
    /\ newRaw' = [newRaw EXCEPT ![p] = None]
    /\ newDm' = [newDm EXCEPT ![p] = None]
    /\ oldDm' = [oldDm EXCEPT ![p] = None]

(* reload returns nil.  A resync's outcome is ignored: the edit failed.     *)
ReloadSucceeds(p, from) ==
    /\ Return(p, from)
    /\ phase' = IF p = Main THEN "up" ELSE phase

(* Mutant: New drops the error of its reload.                               *)
ReloadFailureIgnored(p, from) ==
    \/ /\ stage[p] = "edit"
       /\ Move(p, from, "truncate")
       /\ UNCHANGED <<phase, stage, editVars, loadVars>>
    \/ /\ stage[p] # "edit"
       /\ Return(p, from)
       /\ phase' = IF p = Main THEN "up" ELSE phase

(* Mutant: a resync that fails is rolled back as well.                      *)
ReloadFailureRetried(p, from) ==
    \/ /\ stage[p] \in {"edit", "resync"}
       /\ Move(p, from, "truncate")
       /\ UNCHANGED <<phase, stage, editVars, loadVars>>
    \/ /\ stage[p] \notin {"edit", "resync"}
       /\ Return(p, from)
       /\ phase' = IF p = Main THEN "down" ELSE phase

(* reload returns an error: an edit rolls the file back, a start gives up.  *)
ReloadFails(p, from) ==
    \/ /\ stage[p] = "edit"
       /\ Move(p, from, "truncate")
       /\ UNCHANGED <<phase, stage, editVars, loadVars>>
    \/ /\ stage[p] # "edit"
       /\ Return(p, from)
       /\ phase' = IF p = Main THEN "down" ELSE phase

-----------------------------------------------------------------------------
(* reload.                                                                  *)

(* POST /reload, or "shadow-mcp reload".                                    *)
RequestReload(p) ==
    /\ phase = "up" /\ p \in Admins /\ Spend("requests")
    /\ Move(p, "idle", "load")
    /\ stage' = [stage EXCEPT ![p] = "plain"]
    /\ UNCHANGED <<phase, files, live, mgr, editVars, loadVars, actors>>

Load(p) ==
    /\ Readable(disk) /\ Move(p, "load", "loadraw")
    /\ newCfg' = [newCfg EXCEPT ![p] = Parse(disk)]
    /\ UNCHANGED <<phase, files, live, mgr, stage, editVars, newRaw, newDm,
                   oldDm, actors, budget>>

LoadRaw(p) ==
    /\ Readable(disk) /\ Move(p, "loadraw", "connect")
    /\ newRaw' = [newRaw EXCEPT ![p] = Parse(disk)]
    /\ UNCHANGED <<phase, files, live, mgr, stage, editVars, newCfg, newDm,
                   oldDm, actors, budget>>

(* config.Load or config.LoadRaw meets a file that is no YAML.              *)
LoadFails(p) ==
    /\ ~Readable(disk)
    /\ \E at \in {"load", "loadraw"} : pc[p] = at /\ ReloadFails(p, at)
    /\ UNCHANGED <<files, live, mgr, actors, budget>>

Connects(c) == \A n \in Names : c[n] # "bad"

(* Mutant: a server that does not connect is ignored.                       *)
ConnectsSomehow(p, g) ==
    /\ Move(p, "connect", "build")
    /\ mgr[g] = "unused" /\ \A h \in Gens : mgr[h] = "unused" => g <= h
    /\ mgr' = [mgr EXCEPT ![g] = "open"]
    /\ newDm' = [newDm EXCEPT ![p] = g]
    /\ UNCHANGED <<phase, files, live, stage, editVars, newCfg, newRaw, oldDm,
                   actors, budget>>

(* NewManager: every server has to connect.                                 *)
Connect(p, g) ==
    /\ Move(p, "connect", "build")
    /\ Connects(newCfg[p])
    /\ mgr[g] = "unused" /\ \A h \in Gens : mgr[h] = "unused" => g <= h
    /\ mgr' = [mgr EXCEPT ![g] = "open"]
    /\ newDm' = [newDm EXCEPT ![p] = g]
    /\ UNCHANGED <<phase, files, live, stage, editVars, newCfg, newRaw, oldDm,
                   actors, budget>>

(* It may fail on a good configuration too: a server is away for a moment,  *)
(* or the request's context ends with its client.                           *)
ConnectFails(p) ==
    /\ pc[p] = "connect" /\ ReloadFails(p, "connect")
    /\ UNCHANGED <<files, live, mgr, actors, budget>>

(* Mutant: the old manager is closed before the new one is installed.       *)
BuildClosesOld(p) ==
    /\ Move(p, "build", "swap")
    /\ mgr' = [g \in Gens |-> IF g = dm THEN "closed" ELSE mgr[g]]
    /\ UNCHANGED <<phase, files, live, stage, editVars, loadVars, actors,
                   budget>>

(* aggregator.Build lists every server's tools.                             *)
Build(p) ==
    /\ Move(p, "build", "swap")
    /\ UNCHANGED <<phase, files, live, mgr, stage, editVars, loadVars, actors,
                   budget>>

(* Mutant: the new manager is not closed when a listing fails.              *)
BuildFailsOpen(p) ==
    /\ pc[p] = "build" /\ ReloadFails(p, "build")
    /\ UNCHANGED <<files, live, mgr, actors, budget>>

(* A listing fails: the new manager is closed, the old one goes on.         *)
BuildFails(p) ==
    /\ pc[p] = "build" /\ ReloadFails(p, "build")
    /\ mgr' = [mgr EXCEPT ![newDm[p]] = "closed"]
    /\ UNCHANGED <<files, live, actors, budget>>

(* Mutant: d.rawCfg is left out of the assignment.                          *)
SwapForgetsRaw(p) ==
    /\ Move(p, "swap", "closeold")
    /\ oldDm' = [oldDm EXCEPT ![p] = dm]
    /\ cfg' = newCfg[p] /\ dm' = newDm[p]
    /\ raw' = IF raw = None THEN newRaw[p] ELSE raw
    /\ newDm' = [newDm EXCEPT ![p] = None]
    /\ UNCHANGED <<phase, files, mgr, stage, editVars, newCfg, newRaw, actors,
                   budget>>

Swap(p) ==
    /\ Move(p, "swap", "closeold")
    /\ oldDm' = [oldDm EXCEPT ![p] = dm]
    /\ cfg' = newCfg[p] /\ raw' = newRaw[p] /\ dm' = newDm[p]
    /\ newDm' = [newDm EXCEPT ![p] = None]
    /\ UNCHANGED <<phase, files, mgr, stage, editVars, newCfg, newRaw, actors,
                   budget>>

(* old.Close(), and reload returns nil.                                     *)
CloseOld(p) ==
    /\ pc[p] = "closeold" /\ ReloadSucceeds(p, "closeold")
    /\ mgr' = [g \in Gens |-> IF g = oldDm[p] THEN "closed" ELSE mgr[g]]
    /\ UNCHANGED <<files, live, actors, budget>>

-----------------------------------------------------------------------------
(* mutateRaw, with the closure of the Upsert or Delete it was given.        *)

Accepts(c, e) ==
    IF e.body = Absent THEN c[e.name] # Absent
    ELSE c[e.name] = Absent \/ e.orig = e.name

Applied(c, e) ==
    [n \in Names |-> IF n = e.name THEN e.body
                     ELSE IF n = e.orig THEN Absent ELSE c[n]]

RequestEdit(p, e) ==
    /\ phase = "up" /\ p \in Admins /\ Spend("requests")
    /\ Move(p, "idle", "snapshot")
    /\ stage' = [stage EXCEPT ![p] = "edit"]
    /\ edit' = [edit EXCEPT ![p] = e]
    /\ clone' = [clone EXCEPT ![p] = raw]
    /\ UNCHANGED <<phase, files, live, mgr, previous, loadVars, actors>>

(* The second half of os.WriteFile: one write(2), and the file is closed.   *)
Written(p, b) ==
    /\ \/ /\ open[p] = "tmp"
          /\ tmp' \in Overwritten(tmp, b) /\ UNCHANGED disk
       \/ /\ open[p] = "file"
          /\ disk' \in Overwritten(disk, b) /\ UNCHANGED tmp
       \/ open[p] = "gone" /\ UNCHANGED <<disk, tmp>>
    /\ open' = [open EXCEPT ![p] = None]

(* Mutant: the rollback content is what the edit is about to write.         *)
SnapshotLate(p) ==
    /\ pc[p] = "snapshot" /\ Accepts(clone[p], edit[p])
    /\ Move(p, "snapshot", "save")
    /\ previous' = [previous EXCEPT ![p] = Applied(clone[p], edit[p])]
    /\ clone' = [clone EXCEPT ![p] = Applied(@, edit[p])]
    /\ UNCHANGED <<phase, files, live, mgr, stage, edit, loadVars, actors,
                   budget>>

(* The file is read for the rollback, the clone edited and validated.       *)
Snapshot(p) ==
    /\ pc[p] = "snapshot" /\ Accepts(clone[p], edit[p])
    /\ Move(p, "snapshot", "save")
    /\ previous' = [previous EXCEPT ![p] = disk]
    /\ clone' = [clone EXCEPT ![p] = Applied(@, edit[p])]
    /\ UNCHANGED <<phase, files, live, mgr, stage, edit, loadVars, actors,
                   budget>>

(* The name is taken, or there is no such entry, or Validate objects.       *)
EditRejected(p) ==
    /\ pc[p] = "snapshot" /\ ~Accepts(clone[p], edit[p])
    /\ Return(p, "snapshot")
    /\ UNCHANGED <<phase, files, live, mgr, actors, budget>>

(* Mutant: the file is written in place.                                    *)
SaveInPlace(p) ==
    /\ Move(p, "save", "write")
    /\ disk' = Torn
    /\ open' = [open EXCEPT ![p] = "file"]
    /\ UNCHANGED <<phase, tmp, live, mgr, stage, editVars, loadVars, actors,
                   budget>>

(* config.Save: os.WriteFile creates <file>.tmp or truncates it, and every  *)
(* request uses that same name ...                                          *)
SaveTruncates(p) ==
    /\ Move(p, "save", "write")
    /\ tmp' = Torn
    /\ open' = [open EXCEPT ![p] = "tmp"]
    /\ UNCHANGED <<phase, disk, live, mgr, stage, editVars, loadVars, actors,
                   budget>>

(* ... writes to the file it has open, whatever became of its name ...      *)
SaveWrites(p) ==
    /\ Move(p, "write", "rename")
    /\ Written(p, clone[p])
    /\ UNCHANGED <<phase, live, mgr, stage, editVars, loadVars, actors, budget>>

(* ... and renames whatever bears the name by then, be it another request's *)
(* and not yet written.                                                     *)
Rename(p) ==
    /\ tmp # None /\ Move(p, "rename", "load")
    /\ disk' = tmp /\ tmp' = None
    /\ open' = [q \in Procs |-> CASE open[q] = "tmp"  -> "file"
                                  [] open[q] = "file" -> "gone"
                                  [] OTHER            -> open[q]]
    /\ UNCHANGED <<phase, live, mgr, stage, editVars, loadVars, actors, budget>>

RenameFails(p) ==
    /\ tmp = None /\ Return(p, "rename")
    /\ UNCHANGED <<phase, files, live, mgr, actors, budget>>

(* The rollback writes the file in place, again by os.WriteFile.            *)
RestoreTruncates(p) ==
    /\ Move(p, "truncate", "rewrite")
    /\ disk' = Torn
    /\ open' = [open EXCEPT ![p] = "file"]
    /\ UNCHANGED <<phase, tmp, live, mgr, stage, editVars, loadVars, actors,
                   budget>>

RestoreWrites(p) ==
    /\ Move(p, "rewrite", "load")
    /\ Written(p, previous[p])
    /\ stage' = [stage EXCEPT ![p] = "resync"]
    /\ UNCHANGED <<phase, live, mgr, editVars, loadVars, actors, budget>>

-----------------------------------------------------------------------------
(* The health loop and the IDE sessions take the current manager and keep   *)
(* it: for one round of checks, or for as long as the IDE stays connected.  *)

(* The loop's select may take a tick that is ready although its context is  *)
(* cancelled as well.                                                       *)
HealthTick ==
    /\ phase \in {"up", "stopping", "closing"} /\ health = None
    /\ health' = dm
    /\ UNCHANGED <<phase, files, live, mgr, pc, stage, editVars, loadVars, ide,
                   dial, budget>>

HealthTickEnds ==
    /\ health # None
    /\ health' = None
    /\ UNCHANGED <<phase, files, live, mgr, pc, stage, editVars, loadVars, ide,
                   dial, budget>>

(* The loop takes ctx.Done() and closes d.healthDone.                       *)
HealthLoopEnds ==
    /\ phase = "closing" /\ health = None
    /\ phase' = "quiet"
    /\ UNCHANGED <<files, live, mgr, pc, stage, editVars, loadVars, actors,
                   budget>>

(* ProfileServer.                                                           *)
IdeConnects(i) ==
    /\ phase = "up" /\ ide[i] = None
    /\ ide' = [ide EXCEPT ![i] = dm]
    /\ UNCHANGED <<phase, files, live, mgr, pc, stage, editVars, loadVars,
                   health, dial, budget>>

IdeDisconnects(i) ==
    /\ ide[i] # None
    /\ ide' = [ide EXCEPT ![i] = None]
    /\ UNCHANGED <<phase, files, live, mgr, pc, stage, editVars, loadVars,
                   health, dial, budget>>

(* A call the IDE relays meets a dead server and redials it, holding the    *)
(* server's reconnect mutex and under a context that need not have a        *)
(* deadline.  (One such call at a time.)                                    *)
CallerDials(i) ==
    /\ dial = None /\ ide[i] # None
    /\ dial' = ide[i]
    /\ UNCHANGED <<phase, files, live, mgr, pc, stage, editVars, loadVars,
                   health, ide, budget>>

CallerDialEnds ==
    /\ dial # None
    /\ dial' = None
    /\ UNCHANGED <<phase, files, live, mgr, pc, stage, editVars, loadVars,
                   health, ide, budget>>

-----------------------------------------------------------------------------
(* daemon.Run.                                                              *)

(* New: the first reload, and the health loop if it succeeds.               *)
Start ==
    /\ phase = "down" /\ phase' = "starting"
    /\ \E g \in Gens : mgr[g] = "unused"
    /\ Move(Main, "idle", "load")
    /\ stage' = [stage EXCEPT ![Main] = "start"]
    /\ UNCHANGED <<files, live, mgr, editVars, loadVars, actors, budget>>

(* The context is cancelled: server.Close() drops the listener and every    *)
(* connection, and waits for no handler.                                    *)
Stop ==
    /\ phase = "up" /\ phase' = "stopping"
    /\ UNCHANGED <<files, live, mgr, pc, stage, editVars, loadVars, actors,
                   budget>>

(* Mutant: Close waits for the loop before it cancels its context.          *)
CancelHealthLate ==
    /\ phase = "quiet" /\ phase' = "closing"
    /\ UNCHANGED <<files, live, mgr, pc, stage, editVars, loadVars, actors,
                   budget>>

(* Run's deferred Daemon.Close cancels the health loop's context ...        *)
CancelHealth ==
    /\ phase = "stopping" /\ phase' = "closing"
    /\ UNCHANGED <<files, live, mgr, pc, stage, editVars, loadVars, actors,
                   budget>>

(* The process is gone, with every goroutine and connection.                *)
Exit ==
    /\ phase' = "down"
    /\ cfg' = None /\ raw' = None /\ dm' = None
    /\ mgr' = [g \in Gens |-> IF mgr[g] = "unused" THEN "unused" ELSE "closed"]
    /\ pc' = [p \in Procs |-> "idle"]
    /\ stage' = [p \in Procs |-> None]
    /\ edit' = [p \in Procs |-> None]
    /\ clone' = [p \in Procs |-> None]
    /\ previous' = [p \in Procs |-> None]
    /\ open' = [p \in Procs |-> None]
    /\ newCfg' = [p \in Procs |-> None]
    /\ newRaw' = [p \in Procs |-> None]
    /\ newDm' = [p \in Procs |-> None]
    /\ oldDm' = [p \in Procs |-> None]
    /\ health' = None
    /\ ide' = [i \in Ides |-> None]
    /\ dial' = None
    /\ UNCHANGED <<disk, tmp>>

(* ... and once the loop is over closes the current manager; Run returns.   *)
Shutdown == phase = "quiet" /\ Exit /\ UNCHANGED budget

Crash == Running /\ Spend("crashes") /\ Exit

(* Somebody edits the file without telling the daemon.                      *)
HandEdit ==
    /\ Spend("hands")
    /\ disk' \in HandConfigs \ {disk}
    /\ open' = [p \in Procs |-> IF open[p] = "file" THEN "gone" ELSE open[p]]
    /\ UNCHANGED <<phase, tmp, live, mgr, pc, stage, editVars, loadVars,
                   actors>>

-----------------------------------------------------------------------------
Reload(p) ==
    \/ Load(p) \/ LoadRaw(p) \/ LoadFails(p)
    \/ ConnectFails(p) \/ \E g \in Gens : Connect(p, g)
    \/ Build(p) \/ BuildFails(p)
    \/ Swap(p) \/ CloseOld(p)

MutateRaw(p) ==
    \/ Snapshot(p) \/ EditRejected(p)
    \/ SaveTruncates(p) \/ SaveWrites(p) \/ Rename(p) \/ RenameFails(p)
    \/ RestoreTruncates(p) \/ RestoreWrites(p)

Request(p) == RequestReload(p) \/ \E e \in Edits : RequestEdit(p, e)

Run == Start \/ Stop \/ CancelHealth \/ Shutdown

Next ==
    \/ Run \/ Crash \/ HandEdit
    \/ HealthTick \/ HealthTickEnds \/ HealthLoopEnds
    \/ \E i \in Ides : IdeConnects(i) \/ IdeDisconnects(i) \/ CallerDials(i)
    \/ CallerDialEnds
    \/ \E p \in Procs : Request(p) \/ Reload(p) \/ MutateRaw(p)

Spec == Init /\ [][Next]_vars

(* Pings and redials of the health loop have deadlines of their own, but    *)
(* Reconnect waits for a server's mutex without one: a round is sure to end *)
(* only if no relayed call keeps redialling in its manager.  A mutex that   *)
(* is free again and again is granted in the end, and a select with two     *)
(* ready cases takes either: hence strong fairness.  Nothing makes a        *)
(* caller's redial end.                                                     *)
Fairness ==
    /\ \A p \in Procs : WF_vars(Reload(p) \/ MutateRaw(p))
    /\ SF_vars(health # dial /\ HealthTickEnds)
    /\ SF_vars(HealthLoopEnds)
    /\ WF_vars(CancelHealth \/ Shutdown)

FairSpec == Spec /\ Fairness

-----------------------------------------------------------------------------
(* Properties.                                                              *)

TypeOK ==
    /\ phase \in Phases
    /\ disk \in Configs \union {Torn, Garbled}
    /\ tmp \in Configs \union {Torn, Garbled, None}
    /\ open \in [Procs -> {"file", "tmp", "gone", None}]
    /\ cfg \in Configs \union {None} /\ raw \in Configs \union {None}
    /\ dm \in Gens \union {None}
    /\ mgr \in [Gens -> {"unused", "open", "closed"}]
    /\ pc \in [Procs -> Locs]
    /\ stage \in [Procs -> {"start", "plain", "edit", "resync", None}]
    /\ edit \in [Procs -> Edits \union {None}]
    /\ clone \in [Procs -> Configs \union {None}]
    /\ previous \in [Procs -> Configs \union {Torn, Garbled, None}]
    /\ newCfg \in [Procs -> Configs \union {None}]
    /\ newRaw \in [Procs -> Configs \union {None}]
    /\ newDm \in [Procs -> Gens \union {None}]
    /\ oldDm \in [Procs -> Gens \union {None}]
    /\ health \in Gens \union {None}
    /\ ide \in [Ides -> Gens \union {None}]
    /\ dial \in Gens \union {None}
    /\ phase \in Serving =>
           cfg \in Configs /\ raw \in Configs /\ dm \in Gens
    /\ \A p \in Procs : pc[p] \in {"build", "swap"} => newDm[p] \in Gens

(* As long as the daemon serves, the manager that new calls, health checks  *)
(* and IDE sessions are given is connected, however reloads overlap: reload *)
(* closes a manager only after it has displaced it.                         *)
LiveManagerOpen ==
    phase \in Serving => mgr[dm] = "open"

(* No manager is forgotten: one that is open is the current one, or a       *)
(* reload still holds it, to install it or to close it.  Each of two        *)
(* overlapping reloads closes the manager it displaced itself.              *)
ManagersAccountedFor ==
    \A g \in Gens : mgr[g] = "open" =>
        g = dm \/ \E p \in Procs : g \in {newDm[p], oldDm[p]}

(* The running configuration is one to whose every server the daemon did    *)
(* connect, whatever is on disk.                                            *)
LiveConfigConnects == cfg # None => Connects(cfg)

(* With one client, only a rollback ever leaves the file without a          *)
(* configuration in it: a crash at whatever point of Save, and a .tmp that  *)
(* an earlier crash left half-written, leave it whole.                      *)
TornOnlyByRollback ==
    [][(disk \in Configs /\ disk' \notin Configs) =>
         \E p \in Procs : pc[p] \in {"truncate", "rewrite"}]_vars

(* The call of an edit returns nil.                                         *)
Acknowledged(p) ==
    /\ stage[p] = "edit" /\ pc[p] = "closeold"
    /\ pc'[p] = "idle" /\ phase' # "down"

(* When an edit is acknowledged, the file and the running configuration     *)
(* both hold it: config_crud.go's "the file on disk is always the actual    *)
(* source of truth after a successful call", with which the rest stays      *)
(* consistent.  True of one admin client at a time.                         *)
AcknowledgedEditIsLive ==
    [][\A p \in Procs : Acknowledged(p) =>
         disk = clone[p] /\ raw = clone[p] /\ cfg = clone[p]]_vars

(* An edit that failed after it was saved has left the file as it was and   *)
(* the running configuration with it, whether or not the resync worked.     *)
FailedEditLeavesNoTrace ==
    [][\A p \in Procs :
         /\ stage[p] = "resync" /\ pc[p] # "idle"
         /\ pc'[p] = "idle" /\ phase' # "down"
         => disk = previous[p] /\ raw = Parse(disk) /\ cfg = Parse(disk)]_vars

(* Every admin request is answered.                                         *)
RequestsReturn == \A p \in Admins : pc[p] # "idle" ~> pc[p] = "idle"

(* A daemon told to stop does stop, although the health loop may have begun *)
(* a round after the cancel and Close waits for it - unless a relayed call  *)
(* redials in some manager for ever and so may keep the round waiting.      *)
ShutdownEnds ==
    (phase = "stopping" ~> phase = "down") \/ <>[](dial # None)
=============================================================================
