---------------------------- MODULE DaemonProofs ----------------------------
(* What of Daemon is proved for any number of admin clients, IDE sessions,  *)
(* configurations, edits, crashes and managers: what the daemon serves is   *)
(* open and connected, and no reload loses a manager or closes another's.   *)
(*                                                                          *)
(* The invariant says what each request's locals hold where they are read   *)
(* (Locals), that Main only ever runs the reload of New (MainStarts), and   *)
(* who is responsible for each open manager (LiveIsOpen, HeldOnce,          *)
(* OpenIsHeld): the daemon for the current one, and for each other one      *)
(* exactly one reload, which will install it or close it.                   *)
(*                                                                          *)
(* With one admin client (OneWriter) the .tmp is its own, so what Save      *)
(* renames is what it wrote.  If nobody edits by hand either (OneClient), a *)
(* request has the file to itself: what the file, the aggregator and the    *)
(* configuration in memory say at each step of it is Alone, and an edit     *)
(* that is acknowledged is live, one that failed has left nothing behind.   *)
EXTENDS Daemon, TLAPS

Reloading == {"load", "loadraw", "connect", "build", "swap", "closeold"}

(* Main runs nothing but the reload of New, and when that has swapped, the  *)
(* daemon has all it needs to serve.                                        *)
MainStarts ==
    /\ pc[Main] # "idle" =>
          phase = "starting" /\ stage[Main] = "start" /\ pc[Main] \in Reloading
    /\ pc[Main] = "closeold" => cfg \in Configs /\ raw \in Configs /\ dm \in Gens

(* What a request holds at each point where it reads it.                    *)
Locals ==
    \A p \in Procs :
      /\ pc[p] \in {"loadraw", "connect", "build", "swap"} => newCfg[p] \in Configs
      /\ pc[p] \in {"build", "swap"} => Connects(newCfg[p])
      /\ pc[p] \in {"connect", "build", "swap"} => newRaw[p] \in Configs
      /\ pc[p] = "snapshot" => edit[p] \in Edits
      /\ pc[p] \in {"snapshot", "save", "write", "rename"} => clone[p] \in Configs
      /\ pc[p] \in {"snapshot", "save", "write", "rename", "truncate", "rewrite"}
           => stage[p] = "edit"
      /\ stage[p] = "edit" /\ pc[p] \notin {"idle", "snapshot"}
           => previous[p] \in Configs \union {Torn, Garbled}

(* The manager a reload has opened or displaced and not yet passed on.      *)
Holds(p, g) ==
    \/ pc[p] \in {"build", "swap"} /\ newDm[p] = g
    \/ pc[p] = "closeold" /\ oldDm[p] = g

LiveIsOpen == dm # None => mgr[dm] = "open"

HeldOnce ==
    \A p \in Procs, g \in Gens : Holds(p, g) =>
        /\ mgr[g] = "open" /\ g # dm
        /\ \A q \in Procs \ {p} : ~Holds(q, g)

OpenIsHeld ==
    \A g \in Gens : mgr[g] = "open" => g = dm \/ \E p \in Procs : Holds(p, g)

Managers == LiveIsOpen /\ HeldOnce /\ OpenIsHeld

IInv ==
    /\ TypeOK
    /\ MainStarts
    /\ Locals
    /\ Managers
    /\ LiveConfigConnects

-----------------------------------------------------------------------------
(* An edit applied to a configuration gives one, and whatever is in the     *)
(* file parses as one.                                                      *)
LEMMA AppliedTyped ==
    ASSUME NEW c \in Configs, NEW e \in Edits
    PROVE  Applied(c, e) \in Configs
BY DaemonAssumption DEF Applied, Configs, Edit, Bodies

LEMMA ParseTyped ==
    ASSUME NEW content
    PROVE  Parse(content) \in Configs
BY DEF Parse, Empty, Configs

(* A write leaves what was written, what was there, or a mixture.           *)
LEMMA OverwrittenIs ==
    \A c, b : \A r \in Overwritten(c, b) : r \in {c, b, Garbled}
BY DEF Overwritten

(* Every step keeps the types.                                              *)
LEMMA TypeStep ==
    ASSUME TypeOK, MainStarts, Locals, Next
    PROVE  TypeOK'
<1>1. ASSUME Start
      PROVE  TypeOK'
  BY <1>1, DaemonAssumption
     DEF Start, Move, files, live, actors, editVars, loadVars, TypeOK, Phases,
         Serving, Locs, Procs, MainStarts, Locals
<1>2. ASSUME Stop
      PROVE  TypeOK'
  BY <1>2, DaemonAssumption
     DEF Stop, files, live, actors, editVars, loadVars, TypeOK, Phases,
         Serving, Locs, Procs, MainStarts, Locals
<1>3. ASSUME CancelHealth
      PROVE  TypeOK'
  BY <1>3, DaemonAssumption
     DEF CancelHealth, files, live, actors, editVars, loadVars, TypeOK,
         Phases, Serving, Locs, Procs, MainStarts, Locals
<1>4. ASSUME Shutdown
      PROVE  TypeOK'
  BY <1>4, DaemonAssumption
     DEF Shutdown, Exit, files, live, actors, editVars, loadVars, TypeOK,
         Phases, Serving, Locs, Procs, MainStarts, Locals
<1>5. ASSUME Crash
      PROVE  TypeOK'
  BY <1>5, DaemonAssumption
     DEF Crash, Exit, Running, files, live, actors, editVars, loadVars,
         TypeOK, Phases, Serving, Locs, Procs, MainStarts, Locals
<1>6. ASSUME HandEdit
      PROVE  TypeOK'
  BY <1>6, DaemonAssumption
     DEF HandEdit, files, live, actors, editVars, loadVars, TypeOK, Phases,
         Serving, Locs, Procs, MainStarts, Locals
<1>7. ASSUME HealthTick
      PROVE  TypeOK'
  BY <1>7, DaemonAssumption
     DEF HealthTick, files, live, actors, editVars, loadVars, TypeOK, Phases,
         Serving, Locs, Procs, MainStarts, Locals
<1>8. ASSUME HealthTickEnds
      PROVE  TypeOK'
  BY <1>8, DaemonAssumption
     DEF HealthTickEnds, files, live, actors, editVars, loadVars, TypeOK,
         Phases, Serving, Locs, Procs, MainStarts, Locals
<1>9. ASSUME NEW i \in Ides, IdeConnects(i)
      PROVE  TypeOK'
  BY <1>9, DaemonAssumption
     DEF IdeConnects, files, live, actors, editVars, loadVars, TypeOK, Phases,
         Serving, Locs, Procs, MainStarts, Locals
<1>10. ASSUME NEW i \in Ides, IdeDisconnects(i)
      PROVE  TypeOK'
  BY <1>10, DaemonAssumption
     DEF IdeDisconnects, files, live, actors, editVars, loadVars, TypeOK,
         Phases, Serving, Locs, Procs, MainStarts, Locals
<1>11. ASSUME NEW p \in Procs, RequestReload(p)
      PROVE  TypeOK'
  BY <1>11, DaemonAssumption
     DEF RequestReload, Move, files, live, actors, editVars, loadVars, TypeOK,
         Phases, Serving, Locs, Procs, MainStarts, Locals
<1>12. ASSUME NEW p \in Procs, NEW e \in Edits, RequestEdit(p, e)
      PROVE  TypeOK'
  BY <1>12, DaemonAssumption
     DEF RequestEdit, Move, files, live, actors, editVars, loadVars, TypeOK,
         Phases, Serving, Locs, Procs, MainStarts, Locals
<1>13. ASSUME NEW p \in Procs, Load(p)
      PROVE  TypeOK'
  BY <1>13, DaemonAssumption, ParseTyped
     DEF Load, Move, files, live, actors, editVars, loadVars, TypeOK, Phases,
         Serving, Locs, Procs, MainStarts, Locals
<1>14. ASSUME NEW p \in Procs, LoadRaw(p)
      PROVE  TypeOK'
  BY <1>14, DaemonAssumption, ParseTyped
     DEF LoadRaw, Move, files, live, actors, editVars, loadVars, TypeOK,
         Phases, Serving, Locs, Procs, MainStarts, Locals
<1>15. ASSUME NEW p \in Procs, ConnectFails(p)
      PROVE  TypeOK'
  BY <1>15, DaemonAssumption
     DEF ConnectFails, ReloadFails, Return, Move, files, live, actors,
         editVars, loadVars, TypeOK, Phases, Serving, Locs, Procs, MainStarts,
         Locals
<1>16. ASSUME NEW p \in Procs, NEW g \in Gens, Connect(p, g)
      PROVE  TypeOK'
  BY <1>16, DaemonAssumption
     DEF Connect, Move, files, live, actors, editVars, loadVars, TypeOK,
         Phases, Serving, Locs, Procs, MainStarts, Locals
<1>17. ASSUME NEW p \in Procs, Build(p)
      PROVE  TypeOK'
  BY <1>17, DaemonAssumption
     DEF Build, Move, files, live, actors, editVars, loadVars, TypeOK, Phases,
         Serving, Locs, Procs, MainStarts, Locals
<1>18. ASSUME NEW p \in Procs, BuildFails(p)
      PROVE  TypeOK'
  <2>1. pc[p] = "build" /\ newDm[p] \in Gens
    BY <1>18 DEF BuildFails, TypeOK
  <2>2. mgr' \in [Gens -> {"unused", "open", "closed"}]
    BY <1>18, <2>1 DEF BuildFails, TypeOK
  <2>3. UNCHANGED <<disk, tmp, open, cfg, raw, dm, health, ide,
                  dial>>
    BY <1>18 DEF BuildFails, files, live, actors
  <2>4. CASE stage[p] = "edit"
    <3>1. pc' = [pc EXCEPT ![p] = "truncate"]
          /\ UNCHANGED <<phase, stage, edit, clone, previous, newCfg, newRaw, newDm, oldDm>>
      BY <1>18, <2>4 DEF BuildFails, ReloadFails, Move, editVars, loadVars
    <3>2. QED
      BY <2>2, <2>3, <3>1 DEF TypeOK, Phases, Serving, Locs
  <2>5. CASE stage[p] # "edit"
    <3>1. /\ Return(p, "build") /\ phase' = IF p = Main THEN "down" ELSE phase
      BY <1>18, <2>5 DEF BuildFails, ReloadFails
    <3>2. QED
      BY <2>2, <2>3, <3>1 DEF Return, Move, TypeOK, Phases, Serving, Locs
  <2>6. QED
    BY <2>4, <2>5
<1>19. ASSUME NEW p \in Procs, Swap(p)
      PROVE  TypeOK'
  BY <1>19, DaemonAssumption
     DEF Swap, Move, files, live, actors, editVars, loadVars, TypeOK, Phases,
         Serving, Locs, Procs, MainStarts, Locals
<1>20. ASSUME NEW p \in Procs, CloseOld(p)
      PROVE  TypeOK'
  BY <1>20, DaemonAssumption
     DEF CloseOld, ReloadSucceeds, Return, Move, files, live, actors,
         editVars, loadVars, TypeOK, Phases, Serving, Locs, Procs, MainStarts,
         Locals
<1>21. ASSUME NEW p \in Procs, Snapshot(p)
      PROVE  TypeOK'
  BY <1>21, DaemonAssumption, AppliedTyped
     DEF Snapshot, Move, files, live, actors, editVars, loadVars, TypeOK,
         Phases, Serving, Locs, Procs, MainStarts, Locals
<1>22. ASSUME NEW p \in Procs, EditRejected(p)
      PROVE  TypeOK'
  BY <1>22, DaemonAssumption
     DEF EditRejected, Return, Move, files, live, actors, editVars, loadVars,
         TypeOK, Phases, Serving, Locs, Procs, MainStarts, Locals
<1>23. ASSUME NEW p \in Procs, SaveTruncates(p)
      PROVE  TypeOK'
  BY <1>23, DaemonAssumption
     DEF SaveTruncates, Move, files, live, actors, editVars, loadVars, TypeOK,
         Phases, Serving, Locs, Procs, MainStarts, Locals
<1>24. ASSUME NEW p \in Procs, Rename(p)
      PROVE  TypeOK'
  BY <1>24, DaemonAssumption
     DEF Rename, Move, files, live, actors, editVars, loadVars, TypeOK,
         Phases, Serving, Locs, Procs, MainStarts, Locals
<1>25. ASSUME NEW p \in Procs, RenameFails(p)
      PROVE  TypeOK'
  BY <1>25, DaemonAssumption
     DEF RenameFails, Return, Move, files, live, actors, editVars, loadVars,
         TypeOK, Phases, Serving, Locs, Procs, MainStarts, Locals
<1>26. ASSUME NEW p \in Procs, RestoreTruncates(p)
      PROVE  TypeOK'
  BY <1>26, DaemonAssumption
     DEF RestoreTruncates, Move, files, live, actors, editVars, loadVars,
         TypeOK, Phases, Serving, Locs, Procs, MainStarts, Locals
<1>27. ASSUME NEW p \in Procs, RestoreWrites(p)
      PROVE  TypeOK'
  BY <1>27, DaemonAssumption, OverwrittenIs
     DEF RestoreWrites, Written, Move, files, live, actors, editVars,
         loadVars, TypeOK, Phases, Serving, Locs, Procs, MainStarts, Locals
<1>28. ASSUME NEW p \in Procs, SaveWrites(p)
      PROVE  TypeOK'
  BY <1>28, DaemonAssumption, OverwrittenIs
     DEF SaveWrites, Written, Move, files, live, actors, editVars, loadVars,
         TypeOK, Phases, Serving, Locs, Procs, MainStarts, Locals
<1>29. ASSUME NEW p \in Procs, LoadFails(p)
      PROVE  TypeOK'
  <2>1. PICK at \in {"load", "loadraw"} : pc[p] = at /\ ReloadFails(p, at)
    BY <1>29 DEF LoadFails
  <2>2. UNCHANGED <<disk, tmp, open, cfg, raw, dm, mgr, health, ide, dial>>
    BY <1>29 DEF LoadFails, files, live, actors
  <2>3. CASE stage[p] = "edit"
    <3>1. pc' = [pc EXCEPT ![p] = "truncate"]
          /\ UNCHANGED <<phase, stage, edit, clone, previous, newCfg, newRaw, newDm, oldDm>>
      BY <2>1, <2>3 DEF ReloadFails, Move, editVars, loadVars
    <3>2. QED
      BY <2>2, <3>1 DEF TypeOK, Phases, Serving, Locs
  <2>4. CASE stage[p] # "edit"
    <3>1. /\ Return(p, at) /\ phase' = IF p = Main THEN "down" ELSE phase
      BY <2>1, <2>4 DEF ReloadFails
    <3>2. QED
      BY <2>2, <3>1 DEF Return, Move, TypeOK, Phases, Serving, Locs
  <2>5. QED
    BY <2>3, <2>4
<1>30. ASSUME HealthLoopEnds
      PROVE  TypeOK'
  BY <1>30, DaemonAssumption
     DEF HealthLoopEnds, files, live, actors, editVars, loadVars, TypeOK,
         Phases, Serving, Locs, Procs, MainStarts, Locals
<1>31. ASSUME NEW i \in Ides, CallerDials(i)
      PROVE  TypeOK'
  BY <1>31, DaemonAssumption
     DEF CallerDials, files, live, actors, editVars, loadVars, TypeOK, Phases,
         Serving, Locs, Procs, MainStarts, Locals
<1>32. ASSUME CallerDialEnds
      PROVE  TypeOK'
  BY <1>32, DaemonAssumption
     DEF CallerDialEnds, files, live, actors, editVars, loadVars, TypeOK,
         Phases, Serving, Locs, Procs, MainStarts, Locals
<1>33. QED
  BY <1>1, <1>2, <1>3, <1>4, <1>5, <1>6, <1>7, <1>8, <1>9, <1>10, <1>11,
     <1>12, <1>13, <1>14, <1>15, <1>16, <1>17, <1>18, <1>19, <1>20, <1>21,
     <1>22, <1>23, <1>24, <1>25, <1>26, <1>27, <1>28, <1>29, <1>30, <1>31,
     <1>32
     DEF Next, Run, Request, Reload, MutateRaw

(* Every step keeps Main to its reload.                                     *)
LEMMA MainStep ==
    ASSUME TypeOK, MainStarts, Locals, Next
    PROVE  MainStarts'
<1>1. ASSUME Start
      PROVE  MainStarts'
  BY <1>1, DaemonAssumption
     DEF Start, Move, files, live, actors, editVars, loadVars, TypeOK, Phases,
         Serving, Locs, Procs, MainStarts, Reloading, Locals
<1>2. ASSUME Stop
      PROVE  MainStarts'
  BY <1>2, DaemonAssumption
     DEF Stop, files, live, actors, editVars, loadVars, TypeOK, Phases,
         Serving, Locs, Procs, MainStarts, Reloading, Locals
<1>3. ASSUME CancelHealth
      PROVE  MainStarts'
  BY <1>3, DaemonAssumption
     DEF CancelHealth, files, live, actors, editVars, loadVars, TypeOK,
         Phases, Serving, Locs, Procs, MainStarts, Reloading, Locals
<1>4. ASSUME Shutdown
      PROVE  MainStarts'
  BY <1>4, DaemonAssumption
     DEF Shutdown, Exit, files, live, actors, editVars, loadVars, TypeOK,
         Phases, Serving, Locs, Procs, MainStarts, Reloading, Locals
<1>5. ASSUME Crash
      PROVE  MainStarts'
  BY <1>5, DaemonAssumption
     DEF Crash, Exit, Running, files, live, actors, editVars, loadVars,
         TypeOK, Phases, Serving, Locs, Procs, MainStarts, Reloading, Locals
<1>6. ASSUME HandEdit
      PROVE  MainStarts'
  BY <1>6, DaemonAssumption
     DEF HandEdit, files, live, actors, editVars, loadVars, TypeOK, Phases,
         Serving, Locs, Procs, MainStarts, Reloading, Locals
<1>7. ASSUME HealthTick
      PROVE  MainStarts'
  BY <1>7, DaemonAssumption
     DEF HealthTick, files, live, actors, editVars, loadVars, TypeOK, Phases,
         Serving, Locs, Procs, MainStarts, Reloading, Locals
<1>8. ASSUME HealthTickEnds
      PROVE  MainStarts'
  BY <1>8, DaemonAssumption
     DEF HealthTickEnds, files, live, actors, editVars, loadVars, TypeOK,
         Phases, Serving, Locs, Procs, MainStarts, Reloading, Locals
<1>9. ASSUME NEW i \in Ides, IdeConnects(i)
      PROVE  MainStarts'
  BY <1>9, DaemonAssumption
     DEF IdeConnects, files, live, actors, editVars, loadVars, TypeOK, Phases,
         Serving, Locs, Procs, MainStarts, Reloading, Locals
<1>10. ASSUME NEW i \in Ides, IdeDisconnects(i)
      PROVE  MainStarts'
  BY <1>10, DaemonAssumption
     DEF IdeDisconnects, files, live, actors, editVars, loadVars, TypeOK,
         Phases, Serving, Locs, Procs, MainStarts, Reloading, Locals
<1>11. ASSUME NEW p \in Procs, RequestReload(p)
      PROVE  MainStarts'
  BY <1>11, DaemonAssumption
     DEF RequestReload, Move, files, live, actors, editVars, loadVars, TypeOK,
         Phases, Serving, Locs, Procs, MainStarts, Reloading, Locals
<1>12. ASSUME NEW p \in Procs, NEW e \in Edits, RequestEdit(p, e)
      PROVE  MainStarts'
  BY <1>12, DaemonAssumption
     DEF RequestEdit, Move, files, live, actors, editVars, loadVars, TypeOK,
         Phases, Serving, Locs, Procs, MainStarts, Reloading, Locals
<1>13. ASSUME NEW p \in Procs, Load(p)
      PROVE  MainStarts'
  BY <1>13, DaemonAssumption
     DEF Load, Move, files, live, actors, editVars, loadVars, TypeOK, Phases,
         Serving, Locs, Procs, MainStarts, Reloading, Locals
<1>14. ASSUME NEW p \in Procs, LoadRaw(p)
      PROVE  MainStarts'
  BY <1>14, DaemonAssumption
     DEF LoadRaw, Move, files, live, actors, editVars, loadVars, TypeOK,
         Phases, Serving, Locs, Procs, MainStarts, Reloading, Locals
<1>15. ASSUME NEW p \in Procs, ConnectFails(p)
      PROVE  MainStarts'
  BY <1>15, DaemonAssumption
     DEF ConnectFails, ReloadFails, Return, Move, files, live, actors,
         editVars, loadVars, TypeOK, Phases, Serving, Locs, Procs, MainStarts,
         Reloading, Locals
<1>16. ASSUME NEW p \in Procs, NEW g \in Gens, Connect(p, g)
      PROVE  MainStarts'
  BY <1>16, DaemonAssumption
     DEF Connect, Move, files, live, actors, editVars, loadVars, TypeOK,
         Phases, Serving, Locs, Procs, MainStarts, Reloading, Locals
<1>17. ASSUME NEW p \in Procs, Build(p)
      PROVE  MainStarts'
  BY <1>17, DaemonAssumption
     DEF Build, Move, files, live, actors, editVars, loadVars, TypeOK, Phases,
         Serving, Locs, Procs, MainStarts, Reloading, Locals
<1>18. ASSUME NEW p \in Procs, BuildFails(p)
      PROVE  MainStarts'
  BY <1>18, DaemonAssumption
     DEF BuildFails, ReloadFails, Return, Move, files, live, actors, editVars,
         loadVars, TypeOK, Phases, Serving, Locs, Procs, MainStarts,
         Reloading, Locals
<1>19. ASSUME NEW p \in Procs, Swap(p)
      PROVE  MainStarts'
  BY <1>19, DaemonAssumption
     DEF Swap, Move, files, live, actors, editVars, loadVars, TypeOK, Phases,
         Serving, Locs, Procs, MainStarts, Reloading, Locals
<1>20. ASSUME NEW p \in Procs, CloseOld(p)
      PROVE  MainStarts'
  BY <1>20, DaemonAssumption
     DEF CloseOld, ReloadSucceeds, Return, Move, files, live, actors,
         editVars, loadVars, TypeOK, Phases, Serving, Locs, Procs, MainStarts,
         Reloading, Locals
<1>21. ASSUME NEW p \in Procs, Snapshot(p)
      PROVE  MainStarts'
  BY <1>21, DaemonAssumption
     DEF Snapshot, Move, files, live, actors, editVars, loadVars, TypeOK,
         Phases, Serving, Locs, Procs, MainStarts, Reloading, Locals
<1>22. ASSUME NEW p \in Procs, EditRejected(p)
      PROVE  MainStarts'
  BY <1>22, DaemonAssumption
     DEF EditRejected, Return, Move, files, live, actors, editVars, loadVars,
         TypeOK, Phases, Serving, Locs, Procs, MainStarts, Reloading, Locals
<1>23. ASSUME NEW p \in Procs, SaveTruncates(p)
      PROVE  MainStarts'
  BY <1>23, DaemonAssumption
     DEF SaveTruncates, Move, files, live, actors, editVars, loadVars, TypeOK,
         Phases, Serving, Locs, Procs, MainStarts, Reloading, Locals
<1>24. ASSUME NEW p \in Procs, Rename(p)
      PROVE  MainStarts'
  BY <1>24, DaemonAssumption
     DEF Rename, Move, files, live, actors, editVars, loadVars, TypeOK,
         Phases, Serving, Locs, Procs, MainStarts, Reloading, Locals
<1>25. ASSUME NEW p \in Procs, RenameFails(p)
      PROVE  MainStarts'
  BY <1>25, DaemonAssumption
     DEF RenameFails, Return, Move, files, live, actors, editVars, loadVars,
         TypeOK, Phases, Serving, Locs, Procs, MainStarts, Reloading, Locals
<1>26. ASSUME NEW p \in Procs, RestoreTruncates(p)
      PROVE  MainStarts'
  BY <1>26, DaemonAssumption
     DEF RestoreTruncates, Move, files, live, actors, editVars, loadVars,
         TypeOK, Phases, Serving, Locs, Procs, MainStarts, Reloading, Locals
<1>27. ASSUME NEW p \in Procs, RestoreWrites(p)
      PROVE  MainStarts'
  BY <1>27, DaemonAssumption, OverwrittenIs
     DEF RestoreWrites, Written, Move, files, live, actors, editVars,
         loadVars, TypeOK, Phases, Serving, Locs, Procs, MainStarts,
         Reloading, Locals
<1>28. ASSUME NEW p \in Procs, SaveWrites(p)
      PROVE  MainStarts'
  BY <1>28, DaemonAssumption, OverwrittenIs
     DEF SaveWrites, Written, Move, files, live, actors, editVars, loadVars,
         TypeOK, Phases, Serving, Locs, Procs, MainStarts, Reloading, Locals
<1>29. ASSUME NEW p \in Procs, LoadFails(p)
      PROVE  MainStarts'
  BY <1>29, DaemonAssumption
     DEF LoadFails, ReloadFails, Return, Move, files, live, actors, editVars,
         loadVars, TypeOK, Phases, Serving, Locs, Procs, MainStarts,
         Reloading, Locals
<1>30. ASSUME HealthLoopEnds
      PROVE  MainStarts'
  BY <1>30, DaemonAssumption
     DEF HealthLoopEnds, files, live, actors, editVars, loadVars, TypeOK,
         Phases, Serving, Locs, Procs, MainStarts, Reloading, Locals
<1>31. ASSUME NEW i \in Ides, CallerDials(i)
      PROVE  MainStarts'
  BY <1>31, DaemonAssumption
     DEF CallerDials, files, live, actors, editVars, loadVars, TypeOK, Phases,
         Serving, Locs, Procs, MainStarts, Reloading, Locals
<1>32. ASSUME CallerDialEnds
      PROVE  MainStarts'
  BY <1>32, DaemonAssumption
     DEF CallerDialEnds, files, live, actors, editVars, loadVars, TypeOK,
         Phases, Serving, Locs, Procs, MainStarts, Reloading, Locals
<1>33. QED
  BY <1>1, <1>2, <1>3, <1>4, <1>5, <1>6, <1>7, <1>8, <1>9, <1>10, <1>11,
     <1>12, <1>13, <1>14, <1>15, <1>16, <1>17, <1>18, <1>19, <1>20, <1>21,
     <1>22, <1>23, <1>24, <1>25, <1>26, <1>27, <1>28, <1>29, <1>30, <1>31,
     <1>32
     DEF Next, Run, Request, Reload, MutateRaw

(* Every step keeps the locals.                                             *)
LEMMA LocalsStep ==
    ASSUME TypeOK, MainStarts, Locals, Next
    PROVE  Locals'
<1>1. ASSUME Start
      PROVE  Locals'
  BY <1>1, DaemonAssumption
     DEF Start, Move, files, live, actors, editVars, loadVars, TypeOK, Phases,
         Serving, Locs, Procs, MainStarts, Locals, Connects
<1>2. ASSUME Stop
      PROVE  Locals'
  BY <1>2, DaemonAssumption
     DEF Stop, files, live, actors, editVars, loadVars, TypeOK, Phases,
         Serving, Locs, Procs, MainStarts, Locals, Connects
<1>3. ASSUME CancelHealth
      PROVE  Locals'
  BY <1>3, DaemonAssumption
     DEF CancelHealth, files, live, actors, editVars, loadVars, TypeOK,
         Phases, Serving, Locs, Procs, MainStarts, Locals, Connects
<1>4. ASSUME Shutdown
      PROVE  Locals'
  BY <1>4, DaemonAssumption
     DEF Shutdown, Exit, files, live, actors, editVars, loadVars, TypeOK,
         Phases, Serving, Locs, Procs, MainStarts, Locals, Connects
<1>5. ASSUME Crash
      PROVE  Locals'
  BY <1>5, DaemonAssumption
     DEF Crash, Exit, Running, files, live, actors, editVars, loadVars,
         TypeOK, Phases, Serving, Locs, Procs, MainStarts, Locals, Connects
<1>6. ASSUME HandEdit
      PROVE  Locals'
  BY <1>6, DaemonAssumption
     DEF HandEdit, files, live, actors, editVars, loadVars, TypeOK, Phases,
         Serving, Locs, Procs, MainStarts, Locals, Connects
<1>7. ASSUME HealthTick
      PROVE  Locals'
  BY <1>7, DaemonAssumption
     DEF HealthTick, files, live, actors, editVars, loadVars, TypeOK, Phases,
         Serving, Locs, Procs, MainStarts, Locals, Connects
<1>8. ASSUME HealthTickEnds
      PROVE  Locals'
  BY <1>8, DaemonAssumption
     DEF HealthTickEnds, files, live, actors, editVars, loadVars, TypeOK,
         Phases, Serving, Locs, Procs, MainStarts, Locals, Connects
<1>9. ASSUME NEW i \in Ides, IdeConnects(i)
      PROVE  Locals'
  BY <1>9, DaemonAssumption
     DEF IdeConnects, files, live, actors, editVars, loadVars, TypeOK, Phases,
         Serving, Locs, Procs, MainStarts, Locals, Connects
<1>10. ASSUME NEW i \in Ides, IdeDisconnects(i)
      PROVE  Locals'
  BY <1>10, DaemonAssumption
     DEF IdeDisconnects, files, live, actors, editVars, loadVars, TypeOK,
         Phases, Serving, Locs, Procs, MainStarts, Locals, Connects
<1>11. ASSUME NEW p \in Procs, RequestReload(p)
      PROVE  Locals'
  BY <1>11, DaemonAssumption
     DEF RequestReload, Move, files, live, actors, editVars, loadVars, TypeOK,
         Phases, Serving, Locs, Procs, MainStarts, Locals, Connects
<1>12. ASSUME NEW p \in Procs, NEW e \in Edits, RequestEdit(p, e)
      PROVE  Locals'
  BY <1>12, DaemonAssumption
     DEF RequestEdit, Move, files, live, actors, editVars, loadVars, TypeOK,
         Phases, Serving, Locs, Procs, MainStarts, Locals, Connects
<1>13. ASSUME NEW p \in Procs, Load(p)
      PROVE  Locals'
  BY <1>13, DaemonAssumption, ParseTyped
     DEF Load, Move, files, live, actors, editVars, loadVars, TypeOK, Phases,
         Serving, Locs, Procs, MainStarts, Locals, Connects
<1>14. ASSUME NEW p \in Procs, LoadRaw(p)
      PROVE  Locals'
  BY <1>14, DaemonAssumption, ParseTyped
     DEF LoadRaw, Move, files, live, actors, editVars, loadVars, TypeOK,
         Phases, Serving, Locs, Procs, MainStarts, Locals, Connects
<1>15. ASSUME NEW p \in Procs, ConnectFails(p)
      PROVE  Locals'
  BY <1>15, DaemonAssumption
     DEF ConnectFails, ReloadFails, Return, Move, files, live, actors,
         editVars, loadVars, TypeOK, Phases, Serving, Locs, Procs, MainStarts,
         Locals, Connects
<1>16. ASSUME NEW p \in Procs, NEW g \in Gens, Connect(p, g)
      PROVE  Locals'
  BY <1>16, DaemonAssumption
     DEF Connect, Move, files, live, actors, editVars, loadVars, TypeOK,
         Phases, Serving, Locs, Procs, MainStarts, Locals, Connects
<1>17. ASSUME NEW p \in Procs, Build(p)
      PROVE  Locals'
  BY <1>17, DaemonAssumption
     DEF Build, Move, files, live, actors, editVars, loadVars, TypeOK, Phases,
         Serving, Locs, Procs, MainStarts, Locals, Connects
<1>18. ASSUME NEW p \in Procs, BuildFails(p)
      PROVE  Locals'
  BY <1>18, DaemonAssumption
     DEF BuildFails, ReloadFails, Return, Move, files, live, actors, editVars,
         loadVars, TypeOK, Phases, Serving, Locs, Procs, MainStarts, Locals,
         Connects
<1>19. ASSUME NEW p \in Procs, Swap(p)
      PROVE  Locals'
  BY <1>19, DaemonAssumption
     DEF Swap, Move, files, live, actors, editVars, loadVars, TypeOK, Phases,
         Serving, Locs, Procs, MainStarts, Locals, Connects
<1>20. ASSUME NEW p \in Procs, CloseOld(p)
      PROVE  Locals'
  BY <1>20, DaemonAssumption
     DEF CloseOld, ReloadSucceeds, Return, Move, files, live, actors,
         editVars, loadVars, TypeOK, Phases, Serving, Locs, Procs, MainStarts,
         Locals, Connects
<1>21. ASSUME NEW p \in Procs, Snapshot(p)
      PROVE  Locals'
  BY <1>21, DaemonAssumption, AppliedTyped
     DEF Snapshot, Move, files, live, actors, editVars, loadVars, TypeOK,
         Phases, Serving, Locs, Procs, MainStarts, Locals, Connects
<1>22. ASSUME NEW p \in Procs, EditRejected(p)
      PROVE  Locals'
  BY <1>22, DaemonAssumption
     DEF EditRejected, Return, Move, files, live, actors, editVars, loadVars,
         TypeOK, Phases, Serving, Locs, Procs, MainStarts, Locals, Connects
<1>23. ASSUME NEW p \in Procs, SaveTruncates(p)
      PROVE  Locals'
  BY <1>23, DaemonAssumption
     DEF SaveTruncates, Move, files, live, actors, editVars, loadVars, TypeOK,
         Phases, Serving, Locs, Procs, MainStarts, Locals, Connects
<1>24. ASSUME NEW p \in Procs, Rename(p)
      PROVE  Locals'
  BY <1>24, DaemonAssumption
     DEF Rename, Move, files, live, actors, editVars, loadVars, TypeOK,
         Phases, Serving, Locs, Procs, MainStarts, Locals, Connects
<1>25. ASSUME NEW p \in Procs, RenameFails(p)
      PROVE  Locals'
  BY <1>25, DaemonAssumption
     DEF RenameFails, Return, Move, files, live, actors, editVars, loadVars,
         TypeOK, Phases, Serving, Locs, Procs, MainStarts, Locals, Connects
<1>26. ASSUME NEW p \in Procs, RestoreTruncates(p)
      PROVE  Locals'
  BY <1>26, DaemonAssumption
     DEF RestoreTruncates, Move, files, live, actors, editVars, loadVars,
         TypeOK, Phases, Serving, Locs, Procs, MainStarts, Locals, Connects
<1>27. ASSUME NEW p \in Procs, RestoreWrites(p)
      PROVE  Locals'
  BY <1>27, DaemonAssumption, OverwrittenIs
     DEF RestoreWrites, Written, Move, files, live, actors, editVars,
         loadVars, TypeOK, Phases, Serving, Locs, Procs, MainStarts, Locals,
         Connects
<1>28. ASSUME NEW p \in Procs, SaveWrites(p)
      PROVE  Locals'
  BY <1>28, DaemonAssumption, OverwrittenIs
     DEF SaveWrites, Written, Move, files, live, actors, editVars, loadVars,
         TypeOK, Phases, Serving, Locs, Procs, MainStarts, Locals, Connects
<1>29. ASSUME NEW p \in Procs, LoadFails(p)
      PROVE  Locals'
  BY <1>29, DaemonAssumption
     DEF LoadFails, ReloadFails, Return, Move, files, live, actors, editVars,
         loadVars, TypeOK, Phases, Serving, Locs, Procs, MainStarts, Locals,
         Connects
<1>30. ASSUME HealthLoopEnds
      PROVE  Locals'
  BY <1>30, DaemonAssumption
     DEF HealthLoopEnds, files, live, actors, editVars, loadVars, TypeOK,
         Phases, Serving, Locs, Procs, MainStarts, Locals, Connects
<1>31. ASSUME NEW i \in Ides, CallerDials(i)
      PROVE  Locals'
  BY <1>31, DaemonAssumption
     DEF CallerDials, files, live, actors, editVars, loadVars, TypeOK, Phases,
         Serving, Locs, Procs, MainStarts, Locals, Connects
<1>32. ASSUME CallerDialEnds
      PROVE  Locals'
  BY <1>32, DaemonAssumption
     DEF CallerDialEnds, files, live, actors, editVars, loadVars, TypeOK,
         Phases, Serving, Locs, Procs, MainStarts, Locals, Connects
<1>33. QED
  BY <1>1, <1>2, <1>3, <1>4, <1>5, <1>6, <1>7, <1>8, <1>9, <1>10, <1>11,
     <1>12, <1>13, <1>14, <1>15, <1>16, <1>17, <1>18, <1>19, <1>20, <1>21,
     <1>22, <1>23, <1>24, <1>25, <1>26, <1>27, <1>28, <1>29, <1>30, <1>31,
     <1>32
     DEF Next, Run, Request, Reload, MutateRaw

(* Every step keeps each manager with one that is responsible for it.       *)
LEMMA ManagersStep ==
    ASSUME TypeOK, MainStarts, Managers, Next
    PROVE  Managers'
<1>1. ASSUME Start
      PROVE  Managers'
  BY <1>1, DaemonAssumption
     DEF Start, Move, files, live, actors, editVars, loadVars, TypeOK, Phases,
         Serving, Locs, Procs, Managers, LiveIsOpen, HeldOnce, OpenIsHeld,
         Holds, MainStarts
<1>2. ASSUME Stop
      PROVE  Managers'
  BY <1>2, DaemonAssumption
     DEF Stop, files, live, actors, editVars, loadVars, TypeOK, Phases,
         Serving, Locs, Procs, Managers, LiveIsOpen, HeldOnce, OpenIsHeld,
         Holds, MainStarts
<1>3. ASSUME CancelHealth
      PROVE  Managers'
  BY <1>3, DaemonAssumption
     DEF CancelHealth, files, live, actors, editVars, loadVars, TypeOK,
         Phases, Serving, Locs, Procs, Managers, LiveIsOpen, HeldOnce,
         OpenIsHeld, Holds, MainStarts
<1>4. ASSUME Shutdown
      PROVE  Managers'
  BY <1>4, DaemonAssumption
     DEF Shutdown, Exit, files, live, actors, editVars, loadVars, TypeOK,
         Phases, Serving, Locs, Procs, Managers, LiveIsOpen, HeldOnce,
         OpenIsHeld, Holds, MainStarts
<1>5. ASSUME Crash
      PROVE  Managers'
  BY <1>5, DaemonAssumption
     DEF Crash, Exit, Running, files, live, actors, editVars, loadVars,
         TypeOK, Phases, Serving, Locs, Procs, Managers, LiveIsOpen, HeldOnce,
         OpenIsHeld, Holds, MainStarts
<1>6. ASSUME HandEdit
      PROVE  Managers'
  BY <1>6, DaemonAssumption
     DEF HandEdit, files, live, actors, editVars, loadVars, TypeOK, Phases,
         Serving, Locs, Procs, Managers, LiveIsOpen, HeldOnce, OpenIsHeld,
         Holds, MainStarts
<1>7. ASSUME HealthTick
      PROVE  Managers'
  BY <1>7, DaemonAssumption
     DEF HealthTick, files, live, actors, editVars, loadVars, TypeOK, Phases,
         Serving, Locs, Procs, Managers, LiveIsOpen, HeldOnce, OpenIsHeld,
         Holds, MainStarts
<1>8. ASSUME HealthTickEnds
      PROVE  Managers'
  BY <1>8, DaemonAssumption
     DEF HealthTickEnds, files, live, actors, editVars, loadVars, TypeOK,
         Phases, Serving, Locs, Procs, Managers, LiveIsOpen, HeldOnce,
         OpenIsHeld, Holds, MainStarts
<1>9. ASSUME NEW i \in Ides, IdeConnects(i)
      PROVE  Managers'
  BY <1>9, DaemonAssumption
     DEF IdeConnects, files, live, actors, editVars, loadVars, TypeOK, Phases,
         Serving, Locs, Procs, Managers, LiveIsOpen, HeldOnce, OpenIsHeld,
         Holds, MainStarts
<1>10. ASSUME NEW i \in Ides, IdeDisconnects(i)
      PROVE  Managers'
  BY <1>10, DaemonAssumption
     DEF IdeDisconnects, files, live, actors, editVars, loadVars, TypeOK,
         Phases, Serving, Locs, Procs, Managers, LiveIsOpen, HeldOnce,
         OpenIsHeld, Holds, MainStarts
<1>11. ASSUME NEW p \in Procs, RequestReload(p)
      PROVE  Managers'
  BY <1>11, DaemonAssumption
     DEF RequestReload, Move, files, live, actors, editVars, loadVars, TypeOK,
         Phases, Serving, Locs, Procs, Managers, LiveIsOpen, HeldOnce,
         OpenIsHeld, Holds, MainStarts
<1>12. ASSUME NEW p \in Procs, NEW e \in Edits, RequestEdit(p, e)
      PROVE  Managers'
  BY <1>12, DaemonAssumption
     DEF RequestEdit, Move, files, live, actors, editVars, loadVars, TypeOK,
         Phases, Serving, Locs, Procs, Managers, LiveIsOpen, HeldOnce,
         OpenIsHeld, Holds, MainStarts
<1>13. ASSUME NEW p \in Procs, Load(p)
      PROVE  Managers'
  BY <1>13, DaemonAssumption
     DEF Load, Move, files, live, actors, editVars, loadVars, TypeOK, Phases,
         Serving, Locs, Procs, Managers, LiveIsOpen, HeldOnce, OpenIsHeld,
         Holds, MainStarts
<1>14. ASSUME NEW p \in Procs, LoadRaw(p)
      PROVE  Managers'
  BY <1>14, DaemonAssumption
     DEF LoadRaw, Move, files, live, actors, editVars, loadVars, TypeOK,
         Phases, Serving, Locs, Procs, Managers, LiveIsOpen, HeldOnce,
         OpenIsHeld, Holds, MainStarts
<1>15. ASSUME NEW p \in Procs, ConnectFails(p)
      PROVE  Managers'
  BY SMTT(30), <1>15, DaemonAssumption
     DEF ConnectFails, ReloadFails, Return, Move, files, live, actors,
         editVars, loadVars, TypeOK, Phases, Serving, Locs, Procs, Managers,
         LiveIsOpen, HeldOnce, OpenIsHeld, Holds, MainStarts
<1>16. ASSUME NEW p \in Procs, NEW g \in Gens, Connect(p, g)
      PROVE  Managers'
  BY <1>16, DaemonAssumption
     DEF Connect, Move, files, live, actors, editVars, loadVars, TypeOK,
         Phases, Serving, Locs, Procs, Managers, LiveIsOpen, HeldOnce,
         OpenIsHeld, Holds, MainStarts
<1>17. ASSUME NEW p \in Procs, Build(p)
      PROVE  Managers'
  BY <1>17, DaemonAssumption
     DEF Build, Move, files, live, actors, editVars, loadVars, TypeOK, Phases,
         Serving, Locs, Procs, Managers, LiveIsOpen, HeldOnce, OpenIsHeld,
         Holds, MainStarts
<1>18. ASSUME NEW p \in Procs, BuildFails(p)
      PROVE  Managers'
  <2>1. pc[p] = "build" /\ newDm[p] \in Gens /\ Holds(p, newDm[p])
          /\ \A g \in Gens : Holds(p, g) => g = newDm[p]
    BY <1>18 DEF BuildFails, TypeOK, Procs, Holds
  <2>2. mgr' = [mgr EXCEPT ![newDm[p]] = "closed"] /\ dm' = dm
    BY <1>18 DEF BuildFails, live
  <2>3. ~Holds(p, newDm[p])' /\ \A g \in Gens : ~Holds(p, g)'
    BY <1>18 DEF BuildFails, ReloadFails, Return, Move, TypeOK, Procs, Holds
  <2>4. \A q \in Procs \ {p}, g \in Gens : Holds(q, g)' <=> Holds(q, g)
    BY <1>18 DEF BuildFails, ReloadFails, Return, Move, loadVars, TypeOK,
           Holds
  <2>5. LiveIsOpen'
    BY <2>1, <2>2 DEF TypeOK, Managers, LiveIsOpen, HeldOnce
  <2>6. HeldOnce'
    BY <2>1, <2>2, <2>3, <2>4 DEF TypeOK, Managers, HeldOnce
  <2>7. OpenIsHeld'
    BY <2>1, <2>2, <2>4 DEF TypeOK, Managers, HeldOnce, OpenIsHeld
  <2>8. QED
    BY <2>5, <2>6, <2>7 DEF Managers
<1>19. ASSUME NEW p \in Procs, Swap(p)
      PROVE  Managers'
  BY <1>19, DaemonAssumption
     DEF Swap, Move, files, live, actors, editVars, loadVars, TypeOK, Phases,
         Serving, Locs, Procs, Managers, LiveIsOpen, HeldOnce, OpenIsHeld,
         Holds, MainStarts
<1>20. ASSUME NEW p \in Procs, CloseOld(p)
      PROVE  Managers'
  BY SMTT(30), <1>20, DaemonAssumption
     DEF CloseOld, ReloadSucceeds, Return, Move, files, live, actors,
         editVars, loadVars, TypeOK, Phases, Serving, Locs, Procs, Managers,
         LiveIsOpen, HeldOnce, OpenIsHeld, Holds, MainStarts
<1>21. ASSUME NEW p \in Procs, Snapshot(p)
      PROVE  Managers'
  BY <1>21, DaemonAssumption
     DEF Snapshot, Move, files, live, actors, editVars, loadVars, TypeOK,
         Phases, Serving, Locs, Procs, Managers, LiveIsOpen, HeldOnce,
         OpenIsHeld, Holds, MainStarts
<1>22. ASSUME NEW p \in Procs, EditRejected(p)
      PROVE  Managers'
  BY <1>22, DaemonAssumption
     DEF EditRejected, Return, Move, files, live, actors, editVars, loadVars,
         TypeOK, Phases, Serving, Locs, Procs, Managers, LiveIsOpen, HeldOnce,
         OpenIsHeld, Holds, MainStarts
<1>23. ASSUME NEW p \in Procs, SaveTruncates(p)
      PROVE  Managers'
  BY <1>23, DaemonAssumption
     DEF SaveTruncates, Move, files, live, actors, editVars, loadVars, TypeOK,
         Phases, Serving, Locs, Procs, Managers, LiveIsOpen, HeldOnce,
         OpenIsHeld, Holds, MainStarts
<1>24. ASSUME NEW p \in Procs, Rename(p)
      PROVE  Managers'
  BY <1>24, DaemonAssumption
     DEF Rename, Move, files, live, actors, editVars, loadVars, TypeOK,
         Phases, Serving, Locs, Procs, Managers, LiveIsOpen, HeldOnce,
         OpenIsHeld, Holds, MainStarts
<1>25. ASSUME NEW p \in Procs, RenameFails(p)
      PROVE  Managers'
  BY <1>25, DaemonAssumption
     DEF RenameFails, Return, Move, files, live, actors, editVars, loadVars,
         TypeOK, Phases, Serving, Locs, Procs, Managers, LiveIsOpen, HeldOnce,
         OpenIsHeld, Holds, MainStarts
<1>26. ASSUME NEW p \in Procs, RestoreTruncates(p)
      PROVE  Managers'
  BY <1>26, DaemonAssumption
     DEF RestoreTruncates, Move, files, live, actors, editVars, loadVars,
         TypeOK, Phases, Serving, Locs, Procs, Managers, LiveIsOpen, HeldOnce,
         OpenIsHeld, Holds, MainStarts
<1>27. ASSUME NEW p \in Procs, RestoreWrites(p)
      PROVE  Managers'
  BY <1>27, DaemonAssumption, OverwrittenIs
     DEF RestoreWrites, Written, Move, files, live, actors, editVars,
         loadVars, TypeOK, Phases, Serving, Locs, Procs, Managers, LiveIsOpen,
         HeldOnce, OpenIsHeld, Holds, MainStarts
<1>28. ASSUME NEW p \in Procs, SaveWrites(p)
      PROVE  Managers'
  BY <1>28, DaemonAssumption, OverwrittenIs
     DEF SaveWrites, Written, Move, files, live, actors, editVars, loadVars,
         TypeOK, Phases, Serving, Locs, Procs, Managers, LiveIsOpen, HeldOnce,
         OpenIsHeld, Holds, MainStarts
<1>29. ASSUME NEW p \in Procs, LoadFails(p)
      PROVE  Managers'
  BY SMTT(30), <1>29, DaemonAssumption
     DEF LoadFails, ReloadFails, Return, Move, files, live, actors, editVars,
         loadVars, TypeOK, Phases, Serving, Locs, Procs, Managers, LiveIsOpen,
         HeldOnce, OpenIsHeld, Holds, MainStarts
<1>30. ASSUME HealthLoopEnds
      PROVE  Managers'
  BY <1>30, DaemonAssumption
     DEF HealthLoopEnds, files, live, actors, editVars, loadVars, TypeOK,
         Phases, Serving, Locs, Procs, Managers, LiveIsOpen, HeldOnce,
         OpenIsHeld, Holds, MainStarts
<1>31. ASSUME NEW i \in Ides, CallerDials(i)
      PROVE  Managers'
  BY <1>31, DaemonAssumption
     DEF CallerDials, files, live, actors, editVars, loadVars, TypeOK, Phases,
         Serving, Locs, Procs, Managers, LiveIsOpen, HeldOnce, OpenIsHeld,
         Holds, MainStarts
<1>32. ASSUME CallerDialEnds
      PROVE  Managers'
  BY <1>32, DaemonAssumption
     DEF CallerDialEnds, files, live, actors, editVars, loadVars, TypeOK,
         Phases, Serving, Locs, Procs, Managers, LiveIsOpen, HeldOnce,
         OpenIsHeld, Holds, MainStarts
<1>33. QED
  BY <1>1, <1>2, <1>3, <1>4, <1>5, <1>6, <1>7, <1>8, <1>9, <1>10, <1>11,
     <1>12, <1>13, <1>14, <1>15, <1>16, <1>17, <1>18, <1>19, <1>20, <1>21,
     <1>22, <1>23, <1>24, <1>25, <1>26, <1>27, <1>28, <1>29, <1>30, <1>31,
     <1>32
     DEF Next, Run, Request, Reload, MutateRaw

(* The running configuration changes only by a swap, and there it connects. *)
LEMMA ConfigStep ==
    ASSUME TypeOK, Locals, LiveConfigConnects, Next
    PROVE  LiveConfigConnects'
<1>1. ASSUME Start
      PROVE  LiveConfigConnects'
  BY <1>1, DaemonAssumption
     DEF Start, Move, files, live, actors, editVars, loadVars, TypeOK, Phases,
         Serving, Locs, Procs, Locals, LiveConfigConnects, Connects
<1>2. ASSUME Stop
      PROVE  LiveConfigConnects'
  BY <1>2, DaemonAssumption
     DEF Stop, files, live, actors, editVars, loadVars, TypeOK, Phases,
         Serving, Locs, Procs, Locals, LiveConfigConnects, Connects
<1>3. ASSUME CancelHealth
      PROVE  LiveConfigConnects'
  BY <1>3, DaemonAssumption
     DEF CancelHealth, files, live, actors, editVars, loadVars, TypeOK,
         Phases, Serving, Locs, Procs, Locals, LiveConfigConnects, Connects
<1>4. ASSUME Shutdown
      PROVE  LiveConfigConnects'
  BY <1>4, DaemonAssumption
     DEF Shutdown, Exit, files, live, actors, editVars, loadVars, TypeOK,
         Phases, Serving, Locs, Procs, Locals, LiveConfigConnects, Connects
<1>5. ASSUME Crash
      PROVE  LiveConfigConnects'
  BY <1>5, DaemonAssumption
     DEF Crash, Exit, Running, files, live, actors, editVars, loadVars,
         TypeOK, Phases, Serving, Locs, Procs, Locals, LiveConfigConnects,
         Connects
<1>6. ASSUME HandEdit
      PROVE  LiveConfigConnects'
  BY <1>6, DaemonAssumption
     DEF HandEdit, files, live, actors, editVars, loadVars, TypeOK, Phases,
         Serving, Locs, Procs, Locals, LiveConfigConnects, Connects
<1>7. ASSUME HealthTick
      PROVE  LiveConfigConnects'
  BY <1>7, DaemonAssumption
     DEF HealthTick, files, live, actors, editVars, loadVars, TypeOK, Phases,
         Serving, Locs, Procs, Locals, LiveConfigConnects, Connects
<1>8. ASSUME HealthTickEnds
      PROVE  LiveConfigConnects'
  BY <1>8, DaemonAssumption
     DEF HealthTickEnds, files, live, actors, editVars, loadVars, TypeOK,
         Phases, Serving, Locs, Procs, Locals, LiveConfigConnects, Connects
<1>9. ASSUME NEW i \in Ides, IdeConnects(i)
      PROVE  LiveConfigConnects'
  BY <1>9, DaemonAssumption
     DEF IdeConnects, files, live, actors, editVars, loadVars, TypeOK, Phases,
         Serving, Locs, Procs, Locals, LiveConfigConnects, Connects
<1>10. ASSUME NEW i \in Ides, IdeDisconnects(i)
      PROVE  LiveConfigConnects'
  BY <1>10, DaemonAssumption
     DEF IdeDisconnects, files, live, actors, editVars, loadVars, TypeOK,
         Phases, Serving, Locs, Procs, Locals, LiveConfigConnects, Connects
<1>11. ASSUME NEW p \in Procs, RequestReload(p)
      PROVE  LiveConfigConnects'
  BY <1>11, DaemonAssumption
     DEF RequestReload, Move, files, live, actors, editVars, loadVars, TypeOK,
         Phases, Serving, Locs, Procs, Locals, LiveConfigConnects, Connects
<1>12. ASSUME NEW p \in Procs, NEW e \in Edits, RequestEdit(p, e)
      PROVE  LiveConfigConnects'
  BY <1>12, DaemonAssumption
     DEF RequestEdit, Move, files, live, actors, editVars, loadVars, TypeOK,
         Phases, Serving, Locs, Procs, Locals, LiveConfigConnects, Connects
<1>13. ASSUME NEW p \in Procs, Load(p)
      PROVE  LiveConfigConnects'
  BY <1>13, DaemonAssumption
     DEF Load, Move, files, live, actors, editVars, loadVars, TypeOK, Phases,
         Serving, Locs, Procs, Locals, LiveConfigConnects, Connects
<1>14. ASSUME NEW p \in Procs, LoadRaw(p)
      PROVE  LiveConfigConnects'
  BY <1>14, DaemonAssumption
     DEF LoadRaw, Move, files, live, actors, editVars, loadVars, TypeOK,
         Phases, Serving, Locs, Procs, Locals, LiveConfigConnects, Connects
<1>15. ASSUME NEW p \in Procs, ConnectFails(p)
      PROVE  LiveConfigConnects'
  BY <1>15, DaemonAssumption
     DEF ConnectFails, ReloadFails, Return, Move, files, live, actors,
         editVars, loadVars, TypeOK, Phases, Serving, Locs, Procs, Locals,
         LiveConfigConnects, Connects
<1>16. ASSUME NEW p \in Procs, NEW g \in Gens, Connect(p, g)
      PROVE  LiveConfigConnects'
  BY <1>16, DaemonAssumption
     DEF Connect, Move, files, live, actors, editVars, loadVars, TypeOK,
         Phases, Serving, Locs, Procs, Locals, LiveConfigConnects, Connects
<1>17. ASSUME NEW p \in Procs, Build(p)
      PROVE  LiveConfigConnects'
  BY <1>17, DaemonAssumption
     DEF Build, Move, files, live, actors, editVars, loadVars, TypeOK, Phases,
         Serving, Locs, Procs, Locals, LiveConfigConnects, Connects
<1>18. ASSUME NEW p \in Procs, BuildFails(p)
      PROVE  LiveConfigConnects'
  BY <1>18, DaemonAssumption
     DEF BuildFails, ReloadFails, Return, Move, files, live, actors, editVars,
         loadVars, TypeOK, Phases, Serving, Locs, Procs, Locals,
         LiveConfigConnects, Connects
<1>19. ASSUME NEW p \in Procs, Swap(p)
      PROVE  LiveConfigConnects'
  BY <1>19, DaemonAssumption
     DEF Swap, Move, files, live, actors, editVars, loadVars, TypeOK, Phases,
         Serving, Locs, Procs, Locals, LiveConfigConnects, Connects
<1>20. ASSUME NEW p \in Procs, CloseOld(p)
      PROVE  LiveConfigConnects'
  BY <1>20, DaemonAssumption
     DEF CloseOld, ReloadSucceeds, Return, Move, files, live, actors,
         editVars, loadVars, TypeOK, Phases, Serving, Locs, Procs, Locals,
         LiveConfigConnects, Connects
<1>21. ASSUME NEW p \in Procs, Snapshot(p)
      PROVE  LiveConfigConnects'
  BY <1>21, DaemonAssumption
     DEF Snapshot, Move, files, live, actors, editVars, loadVars, TypeOK,
         Phases, Serving, Locs, Procs, Locals, LiveConfigConnects, Connects
<1>22. ASSUME NEW p \in Procs, EditRejected(p)
      PROVE  LiveConfigConnects'
  BY <1>22, DaemonAssumption
     DEF EditRejected, Return, Move, files, live, actors, editVars, loadVars,
         TypeOK, Phases, Serving, Locs, Procs, Locals, LiveConfigConnects,
         Connects
<1>23. ASSUME NEW p \in Procs, SaveTruncates(p)
      PROVE  LiveConfigConnects'
  BY <1>23, DaemonAssumption
     DEF SaveTruncates, Move, files, live, actors, editVars, loadVars, TypeOK,
         Phases, Serving, Locs, Procs, Locals, LiveConfigConnects, Connects
<1>24. ASSUME NEW p \in Procs, Rename(p)
      PROVE  LiveConfigConnects'
  BY <1>24, DaemonAssumption
     DEF Rename, Move, files, live, actors, editVars, loadVars, TypeOK,
         Phases, Serving, Locs, Procs, Locals, LiveConfigConnects, Connects
<1>25. ASSUME NEW p \in Procs, RenameFails(p)
      PROVE  LiveConfigConnects'
  BY <1>25, DaemonAssumption
     DEF RenameFails, Return, Move, files, live, actors, editVars, loadVars,
         TypeOK, Phases, Serving, Locs, Procs, Locals, LiveConfigConnects,
         Connects
<1>26. ASSUME NEW p \in Procs, RestoreTruncates(p)
      PROVE  LiveConfigConnects'
  BY <1>26, DaemonAssumption
     DEF RestoreTruncates, Move, files, live, actors, editVars, loadVars,
         TypeOK, Phases, Serving, Locs, Procs, Locals, LiveConfigConnects,
         Connects
<1>27. ASSUME NEW p \in Procs, RestoreWrites(p)
      PROVE  LiveConfigConnects'
  BY <1>27, DaemonAssumption, OverwrittenIs
     DEF RestoreWrites, Written, Move, files, live, actors, editVars,
         loadVars, TypeOK, Phases, Serving, Locs, Procs, Locals,
         LiveConfigConnects, Connects
<1>28. ASSUME NEW p \in Procs, SaveWrites(p)
      PROVE  LiveConfigConnects'
  BY <1>28, DaemonAssumption, OverwrittenIs
     DEF SaveWrites, Written, Move, files, live, actors, editVars, loadVars,
         TypeOK, Phases, Serving, Locs, Procs, Locals, LiveConfigConnects,
         Connects
<1>29. ASSUME NEW p \in Procs, LoadFails(p)
      PROVE  LiveConfigConnects'
  BY <1>29, DaemonAssumption
     DEF LoadFails, ReloadFails, Return, Move, files, live, actors, editVars,
         loadVars, TypeOK, Phases, Serving, Locs, Procs, Locals,
         LiveConfigConnects, Connects
<1>30. ASSUME HealthLoopEnds
      PROVE  LiveConfigConnects'
  BY <1>30, DaemonAssumption
     DEF HealthLoopEnds, files, live, actors, editVars, loadVars, TypeOK,
         Phases, Serving, Locs, Procs, Locals, LiveConfigConnects, Connects
<1>31. ASSUME NEW i \in Ides, CallerDials(i)
      PROVE  LiveConfigConnects'
  BY <1>31, DaemonAssumption
     DEF CallerDials, files, live, actors, editVars, loadVars, TypeOK, Phases,
         Serving, Locs, Procs, Locals, LiveConfigConnects, Connects
<1>32. ASSUME CallerDialEnds
      PROVE  LiveConfigConnects'
  BY <1>32, DaemonAssumption
     DEF CallerDialEnds, files, live, actors, editVars, loadVars, TypeOK,
         Phases, Serving, Locs, Procs, Locals, LiveConfigConnects, Connects
<1>33. QED
  BY <1>1, <1>2, <1>3, <1>4, <1>5, <1>6, <1>7, <1>8, <1>9, <1>10, <1>11,
     <1>12, <1>13, <1>14, <1>15, <1>16, <1>17, <1>18, <1>19, <1>20, <1>21,
     <1>22, <1>23, <1>24, <1>25, <1>26, <1>27, <1>28, <1>29, <1>30, <1>31,
     <1>32
     DEF Next, Run, Request, Reload, MutateRaw

-----------------------------------------------------------------------------
LEMMA InvInit == Init => IInv
<1>1. Init => TypeOK
  BY DaemonAssumption DEF Init, TypeOK, Phases, Serving, Locs
<1>2. Init => MainStarts
  BY DEF Init, MainStarts, Procs
<1>3. Init => Locals
  BY DEF Init, Locals
<1>4. Init => Managers
  BY DEF Init, Managers, LiveIsOpen, HeldOnce, OpenIsHeld, Holds
<1>5. Init => LiveConfigConnects
  BY DEF Init, LiveConfigConnects
<1>6. QED
  BY <1>1, <1>2, <1>3, <1>4, <1>5 DEF IInv

LEMMA InvStep == IInv /\ [Next]_vars => IInv'
<1>1. CASE Next
  BY <1>1, TypeStep, MainStep, LocalsStep, ManagersStep, ConfigStep DEF IInv
<1>2. CASE UNCHANGED vars
  BY <1>2 DEF vars, files, live, actors, editVars, loadVars, IInv, TypeOK,
         MainStarts, Locals, Managers, LiveIsOpen, HeldOnce, OpenIsHeld,
         Holds, LiveConfigConnects
<1>3. QED
  BY <1>1, <1>2

(* The inductive invariant, of which all that follows is a part.            *)
THEOREM Invariance == Spec => []IInv
BY InvInit, InvStep, PTL DEF Spec

(* Types, and that a daemon that serves has a configuration and a manager.  *)
THEOREM TypesHold == Spec => []TypeOK
<1>1. IInv => TypeOK
  BY DEF IInv
<1>2. QED
  BY <1>1, Invariance, PTL

(* However many reloads overlap, the manager in use is open.                *)
THEOREM ServingManagerIsOpen == Spec => []LiveManagerOpen
<1>1. IInv => LiveManagerOpen
  BY DaemonAssumption DEF IInv, TypeOK, Managers, LiveIsOpen, LiveManagerOpen
<1>2. QED
  BY <1>1, Invariance, PTL

(* However many reloads overlap and fail, none of them loses a manager.     *)
THEOREM NoManagerForgotten == Spec => []ManagersAccountedFor
<1>1. IInv => ManagersAccountedFor
  BY DEF IInv, Managers, OpenIsHeld, Holds, ManagersAccountedFor
<1>2. QED
  BY <1>1, Invariance, PTL

(* A manager that a reload is about to install or to close is open, is not  *)
(* the current one and is nobody else's, so nothing is closed twice or under*)
(* the feet of those who are served by it.                                  *)
THEOREM ManagersHeldOnce == Spec => []HeldOnce
<1>1. IInv => HeldOnce
  BY DEF IInv, Managers
<1>2. QED
  BY <1>1, Invariance, PTL

(* Whatever is edited, by whomever, the daemon runs what did connect.       *)
THEOREM RunningConfigConnected == Spec => []LiveConfigConnects
<1>1. IInv => LiveConfigConnects
  BY DEF IInv
<1>2. QED
  BY <1>1, Invariance, PTL

-----------------------------------------------------------------------------
(* With one client nobody else uses <file>.tmp: what a request writes to it *)
(* is there when it renames it, and what a crash left in it is truncated    *)
(* before.                                                                  *)
OneWriter == \A a, b \in Admins : a = b

TmpIsAlone ==
    \A a \in Admins :
        /\ pc[a] = "write" => open[a] = "tmp" /\ tmp = Torn
        /\ pc[a] = "rename" => tmp = clone[a]

(* Only the steps of Save touch the .tmp; the others are those that move a  *)
(* request past none of its points.                                         *)
LEMMA TmpStep ==
    ASSUME OneWriter, IInv, TmpIsAlone, Next
    PROVE  TmpIsAlone'
<1> USE DaemonAssumption
    DEF TmpIsAlone, IInv, TypeOK, Procs, files, live, actors, editVars,
        loadVars, Move, Return
<1>1. CASE Start \/ Stop \/ CancelHealth \/ HealthTick \/ HealthTickEnds
              \/ HealthLoopEnds \/ CallerDialEnds
  BY <1>1 DEF Start, Stop, CancelHealth, HealthTick, HealthTickEnds,
     HealthLoopEnds, CallerDialEnds
<1>2. CASE Shutdown \/ Crash
  BY <1>2 DEF Shutdown, Crash, Exit
<1>3. CASE HandEdit
  BY <1>3 DEF HandEdit
<1>4. ASSUME NEW i \in Ides,
             IdeConnects(i) \/ IdeDisconnects(i) \/ CallerDials(i)
      PROVE  TmpIsAlone'
  BY <1>4 DEF IdeConnects, IdeDisconnects, CallerDials
<1>5. ASSUME NEW p \in Procs, Request(p)
      PROVE  TmpIsAlone'
  BY <1>5 DEF Request, RequestReload, RequestEdit
<1>6. ASSUME NEW p \in Procs, Reload(p)
      PROVE  TmpIsAlone'
  <2>1. CASE Load(p) \/ LoadRaw(p) \/ Build(p) \/ Swap(p)
    BY <2>1 DEF Load, LoadRaw, Build, Swap
  <2>2. CASE LoadFails(p) \/ ConnectFails(p) \/ BuildFails(p)
    BY <2>2 DEF LoadFails, ConnectFails, BuildFails, ReloadFails
  <2>3. CASE CloseOld(p)
    BY <2>3 DEF CloseOld, ReloadSucceeds
  <2>4. CASE \E g \in Gens : Connect(p, g)
    BY <2>4 DEF Connect
  <2>5. QED
    BY <1>6, <2>1, <2>2, <2>3, <2>4 DEF Reload
<1>7. ASSUME NEW p \in Procs, MutateRaw(p)
      PROVE  TmpIsAlone'
  <2>1. CASE Snapshot(p) \/ EditRejected(p) \/ RenameFails(p)
    BY <2>1 DEF Snapshot, EditRejected, RenameFails
  <2>2. CASE SaveTruncates(p)
    BY <2>2 DEF SaveTruncates, OneWriter, MainStarts, Reloading
  <2>3. CASE SaveWrites(p)
    <3>1. p \in Admins /\ open[p] = "tmp" /\ tmp = Torn
      BY <2>3 DEF SaveWrites, MainStarts, Reloading
    <3>2. tmp' = clone[p]
      BY <2>3, <3>1 DEF SaveWrites, Written, Overwritten
    <3>3. QED
      BY <2>3, <3>1, <3>2 DEF SaveWrites, Written, OneWriter
  <2>4. CASE Rename(p)
    BY <2>4 DEF Rename, OneWriter, MainStarts, Reloading
  <2>5. CASE RestoreTruncates(p) \/ RestoreWrites(p)
    BY <2>5 DEF RestoreTruncates, RestoreWrites, Written, OneWriter,
           MainStarts, Reloading
  <2>6. QED
    BY <1>7, <2>1, <2>2, <2>3, <2>4, <2>5 DEF MutateRaw
<1>8. QED
  BY <1>1, <1>2, <1>3, <1>4, <1>5, <1>6, <1>7 DEF Next, Run

LEMMA TmpHolds == ASSUME OneWriter PROVE Spec => [](IInv /\ TmpIsAlone)
<1>1. Init => TmpIsAlone
  BY DEF Init, TmpIsAlone, Procs
<1>2. IInv /\ TmpIsAlone /\ [Next]_vars => TmpIsAlone'
  BY TmpStep DEF vars, files, editVars, TmpIsAlone
<1>3. QED
  BY <1>1, <1>2, Invariance, PTL DEF Spec

(* The file itself changes in five kinds of steps only.                     *)
LEMMA DiskChanges ==
    ASSUME Next, disk' # disk
    PROVE  \/ HandEdit
           \/ \E p \in Procs : \/ SaveWrites(p) \/ Rename(p)
                              \/ RestoreTruncates(p) \/ RestoreWrites(p)
<1> USE DEF files
<1>1. ~Run /\ ~Crash
  BY DEF Run, Crash, Start, Stop, CancelHealth, Shutdown, Exit
<1>2. ~(HealthTick \/ HealthTickEnds \/ HealthLoopEnds \/ CallerDialEnds)
  BY DEF HealthTick, HealthTickEnds, HealthLoopEnds, CallerDialEnds
<1>3. ~ \E i \in Ides : IdeConnects(i) \/ IdeDisconnects(i) \/ CallerDials(i)
  BY DEF IdeConnects, IdeDisconnects, CallerDials
<1>4. ~ \E p \in Procs : Request(p) \/ Reload(p)
  BY DEF Request, RequestReload, RequestEdit, Reload, Load, LoadRaw, LoadFails,
     Connect, ConnectFails, Build, BuildFails, Swap, CloseOld
<1>5. QED
  BY <1>1, <1>2, <1>3, <1>4
     DEF Next, MutateRaw, Snapshot, EditRejected, SaveTruncates, RenameFails

(* With one client, a crash at whatever point of a save, edits by hand and  *)
(* the .tmp of an earlier crash leave a configuration in the file: only a   *)
(* rollback ever takes it out.                                              *)
THEOREM SaveNeverTruncates ==
    ASSUME OneWriter PROVE Spec => TornOnlyByRollback
<1> DEFINE Good == (disk \in Configs /\ disk' \notin Configs) =>
                      \E p \in Procs : pc[p] \in {"truncate", "rewrite"}
<1>1. IInv /\ TmpIsAlone /\ [Next]_vars => [Good]_vars
  <2>1. SUFFICES ASSUME IInv, TmpIsAlone, Next,
                        disk \in Configs, disk' \notin Configs
                 PROVE  \E p \in Procs : pc[p] \in {"truncate", "rewrite"}
    BY DEF vars, files
  <2>2. CASE HandEdit
    BY <2>1, <2>2, DaemonAssumption DEF HandEdit
  <2>3. ASSUME NEW p \in Procs, SaveWrites(p)
        PROVE  FALSE
    BY <2>1, <2>3 DEF SaveWrites, Written, Move, TmpIsAlone, IInv, MainStarts,
       Reloading, Procs
  <2>4. ASSUME NEW p \in Procs, Rename(p)
        PROVE  FALSE
    BY <2>1, <2>4 DEF Rename, Move, TmpIsAlone, IInv, MainStarts, Reloading,
       Locals, Procs
  <2>5. ASSUME NEW p \in Procs, RestoreTruncates(p) \/ RestoreWrites(p)
        PROVE  pc[p] \in {"truncate", "rewrite"}
    BY <2>5 DEF RestoreTruncates, RestoreWrites, Move
  <2>6. QED
    BY <2>1, <2>2, <2>3, <2>4, <2>5, DiskChanges
<1>2. QED
  BY <1>1, TmpHolds, PTL DEF Spec, TornOnlyByRollback

-----------------------------------------------------------------------------
(* One admin client at a time, and nobody edits the file behind its back.   *)
OneClient == OneWriter /\ MaxHandEdits = 0

InSync == cfg = Parse(disk) /\ raw = Parse(disk)

NoHands == budget \in [{"requests", "hands", "crashes"} -> Nat] /\ budget["hands"] = 0

OnlyWhenServing == phase \notin Serving => \A a \in Admins : pc[a] = "idle"

(* What a reload has read is still what the file holds.                     *)
ReadIsCurrent ==
    \A p \in Procs :
        /\ pc[p] \in {"loadraw", "connect", "build", "swap"} => newCfg[p] = Parse(disk)
        /\ pc[p] \in {"connect", "build", "swap"} => newRaw[p] = Parse(disk)

MainInstalls == pc[Main] = "closeold" => InSync

(* The edit in the file and not yet in the running configuration.           *)
Between(a) ==
    /\ stage[a] = "edit"
    /\ pc[a] \in {"load", "loadraw", "connect", "build", "swap", "truncate", "rewrite"}

EditIsAlone ==
    \A a \in Admins :
        /\ pc[a] \in {"save", "write", "rename"} => previous[a] = disk
        /\ stage[a] = "edit" /\ pc[a] \in Reloading => disk = clone[a]
        /\ pc[a] = "rewrite" => open[a] = "file" /\ disk = Torn
        /\ stage[a] = "resync" /\ pc[a] # "idle" => disk = previous[a]

RunsWhatWasRead ==
    \A a \in Admins :
        /\ Between(a) => cfg = Parse(previous[a]) /\ raw = Parse(previous[a])
        /\ ~Between(a) /\ phase \in Serving => InSync

Alone == NoHands /\ TmpIsAlone /\ OnlyWhenServing /\ ReadIsCurrent
            /\ MainInstalls /\ EditIsAlone /\ RunsWhatWasRead

LEMMA BudgetStep ==
    ASSUME NoHands, Next
    PROVE  NoHands' /\ ~HandEdit
<1>1. ~HandEdit
  BY DEF NoHands, HandEdit, Spend
<1>2. UNCHANGED budget \/ Spend("requests") \/ Spend("crashes")
  BY <1>1
     DEF Next, Run, Crash, HealthTick, HealthTickEnds, IdeConnects,
         IdeDisconnects, HealthLoopEnds, CallerDials, CallerDialEnds, Request,
         RequestReload, RequestEdit, Reload, Load, LoadRaw, LoadFails,
         Connect, ConnectFails, Build, BuildFails, Swap, CloseOld, MutateRaw,
         Snapshot, EditRejected, SaveTruncates, SaveWrites, Rename,
         RenameFails, RestoreTruncates, RestoreWrites, Start, Stop,
         CancelHealth, Shutdown
<1>3. NoHands'
  BY <1>2 DEF NoHands, Spend
<1>4. QED  BY <1>1, <1>3

LEMMA ParseIs ==
    \A c \in Configs : Parse(c) = c
BY DEF Parse

LEMMA AloneStep ==
    ASSUME OneClient, IInv, Alone, Next
    PROVE  Alone'
<1>0. /\ TypeOK /\ MainStarts /\ Locals /\ NoHands' /\ TmpIsAlone' /\ ~HandEdit
      /\ \A a, b \in Admins : a = b
      /\ \A c \in Configs : Parse(c) = c
  BY BudgetStep, TmpStep, ParseIs DEF OneClient, OneWriter, IInv, Alone
<1>1. ASSUME Start
      PROVE  Alone'
  BY <1>1, <1>0, DaemonAssumption DEF Start, Move, TypeOK, Procs,
     MainStarts, Reloading, Locals, files, live, actors, editVars, loadVars,
     NoHands, OnlyWhenServing, Serving, ReadIsCurrent, MainInstalls,
     EditIsAlone, RunsWhatWasRead, Between, InSync, Alone
<1>2. ASSUME Stop
      PROVE  Alone'
  BY <1>2, <1>0, DaemonAssumption DEF Stop, TypeOK, Procs, MainStarts,
     Reloading, Locals, files, live, actors, editVars, loadVars, NoHands,
     OnlyWhenServing, Serving, ReadIsCurrent, MainInstalls, EditIsAlone,
     RunsWhatWasRead, Between, InSync, Alone
<1>3. ASSUME CancelHealth
      PROVE  Alone'
  BY <1>3, <1>0, DaemonAssumption DEF CancelHealth, TypeOK, Procs,
     MainStarts, Reloading, Locals, files, live, actors, editVars, loadVars,
     NoHands, OnlyWhenServing, Serving, ReadIsCurrent, MainInstalls,
     EditIsAlone, RunsWhatWasRead, Between, InSync, Alone
<1>4. ASSUME Shutdown \/ Crash
      PROVE  Alone'
  BY <1>4, <1>0, DaemonAssumption DEF Shutdown, Crash, Exit, TypeOK, Procs,
     MainStarts, Reloading, Locals, files, live, actors, editVars, loadVars,
     NoHands, OnlyWhenServing, Serving, ReadIsCurrent, MainInstalls,
     EditIsAlone, RunsWhatWasRead, Between, InSync, Alone
<1>5. ASSUME HealthTick \/ HealthTickEnds \/ HealthLoopEnds \/ CallerDialEnds
      PROVE  Alone'
  BY <1>5, <1>0, DaemonAssumption DEF HealthTick, HealthTickEnds,
     HealthLoopEnds, CallerDialEnds, TypeOK,
     Procs, MainStarts, Reloading, Locals, files, live, actors, editVars,
     loadVars, NoHands, OnlyWhenServing, Serving, ReadIsCurrent,
     MainInstalls, EditIsAlone, RunsWhatWasRead, Between, InSync, Alone
<1>6. ASSUME NEW i \in Ides, IdeConnects(i) \/ IdeDisconnects(i) \/ CallerDials(i)
      PROVE  Alone'
  BY <1>6, <1>0, DaemonAssumption DEF IdeConnects, IdeDisconnects,
     CallerDials, TypeOK,
     Procs, MainStarts, Reloading, Locals, files, live, actors, editVars,
     loadVars, NoHands, OnlyWhenServing, Serving, ReadIsCurrent,
     MainInstalls, EditIsAlone, RunsWhatWasRead, Between, InSync, Alone
<1>7. ASSUME NEW p \in Procs, RequestReload(p)
      PROVE  Alone'
  BY <1>7, <1>0, DaemonAssumption DEF RequestReload, Move, TypeOK, Procs,
     MainStarts, Reloading, Locals, files, live, actors, editVars, loadVars,
     NoHands, OnlyWhenServing, Serving, ReadIsCurrent, MainInstalls,
     EditIsAlone, RunsWhatWasRead, Between, InSync, Alone
<1>8. ASSUME NEW p \in Procs, NEW e \in Edits, RequestEdit(p, e)
      PROVE  Alone'
  BY <1>8, <1>0, DaemonAssumption DEF RequestEdit, Move, TypeOK, Procs,
     MainStarts, Reloading, Locals, files, live, actors, editVars, loadVars,
     NoHands, OnlyWhenServing, Serving, ReadIsCurrent, MainInstalls,
     EditIsAlone, RunsWhatWasRead, Between, InSync, Alone
<1>9. ASSUME NEW p \in Procs, Load(p)
      PROVE  Alone'
  BY <1>9, <1>0, DaemonAssumption DEF Load, Move, TypeOK, Procs, MainStarts,
     Reloading, Locals, files, live, actors, editVars, loadVars, NoHands,
     OnlyWhenServing, Serving, ReadIsCurrent, MainInstalls, EditIsAlone,
     RunsWhatWasRead, Between, InSync, Alone
<1>10. ASSUME NEW p \in Procs, LoadRaw(p)
      PROVE  Alone'
  BY <1>10, <1>0, DaemonAssumption DEF LoadRaw, Move, TypeOK, Procs,
     MainStarts, Reloading, Locals, files, live, actors, editVars, loadVars,
     NoHands, OnlyWhenServing, Serving, ReadIsCurrent, MainInstalls,
     EditIsAlone, RunsWhatWasRead, Between, InSync, Alone
<1>11. ASSUME NEW p \in Procs, NEW g \in Gens, Connect(p, g)
      PROVE  Alone'
  BY <1>11, <1>0, DaemonAssumption DEF Connect, Move, TypeOK, Procs,
     MainStarts, Reloading, Locals, files, live, actors, editVars, loadVars,
     NoHands, OnlyWhenServing, Serving, ReadIsCurrent, MainInstalls,
     EditIsAlone, RunsWhatWasRead, Between, InSync, Alone
<1>12. ASSUME NEW p \in Procs, ConnectFails(p) \/ LoadFails(p)
      PROVE  Alone'
  BY <1>12, <1>0, DaemonAssumption DEF ConnectFails, LoadFails, ReloadFails,
         Return, Move, TypeOK, Procs, MainStarts, Reloading, Locals, files,
         live, actors, editVars, loadVars, NoHands, OnlyWhenServing, Serving,
         ReadIsCurrent, MainInstalls, EditIsAlone, RunsWhatWasRead, Between,
         InSync, Alone
<1>13. ASSUME NEW p \in Procs, Build(p)
      PROVE  Alone'
  BY <1>13, <1>0, DaemonAssumption DEF Build, Move, TypeOK, Procs,
     MainStarts, Reloading, Locals, files, live, actors, editVars, loadVars,
     NoHands, OnlyWhenServing, Serving, ReadIsCurrent, MainInstalls,
     EditIsAlone, RunsWhatWasRead, Between, InSync, Alone
<1>14. ASSUME NEW p \in Procs, BuildFails(p)
      PROVE  Alone'
  BY <1>14, <1>0, DaemonAssumption DEF BuildFails, ReloadFails, Return,
     Move, TypeOK, Procs, MainStarts, Reloading, Locals, files, live,
     actors, editVars, loadVars, NoHands, OnlyWhenServing, Serving,
     ReadIsCurrent, MainInstalls, EditIsAlone, RunsWhatWasRead, Between,
     InSync, Alone
<1>15. ASSUME NEW p \in Procs, Swap(p)
      PROVE  Alone'
  BY <1>15, <1>0, DaemonAssumption DEF Swap, Move, TypeOK, Procs,
     MainStarts, Reloading, Locals, files, live, actors, editVars, loadVars,
     NoHands, OnlyWhenServing, Serving, ReadIsCurrent, MainInstalls,
     EditIsAlone, RunsWhatWasRead, Between, InSync, Alone
<1>16. ASSUME NEW p \in Procs, CloseOld(p)
      PROVE  Alone'
  BY <1>16, <1>0, DaemonAssumption DEF CloseOld, ReloadSucceeds, Return,
     Move, TypeOK, Procs, MainStarts, Reloading, Locals, files, live,
     actors, editVars, loadVars, NoHands, OnlyWhenServing, Serving,
     ReadIsCurrent, MainInstalls, EditIsAlone, RunsWhatWasRead, Between,
     InSync, Alone
<1>17. ASSUME NEW p \in Procs, Snapshot(p)
      PROVE  Alone'
  BY <1>17, <1>0, DaemonAssumption DEF Snapshot, Move, TypeOK, Procs,
     MainStarts, Reloading, Locals, files, live, actors, editVars, loadVars,
     NoHands, OnlyWhenServing, Serving, ReadIsCurrent, MainInstalls,
     EditIsAlone, RunsWhatWasRead, Between, InSync, Alone
<1>18. ASSUME NEW p \in Procs, EditRejected(p) \/ RenameFails(p)
      PROVE  Alone'
  BY <1>18, <1>0, DaemonAssumption DEF EditRejected, RenameFails, Return,
     Move, TypeOK, Procs, MainStarts, Reloading, Locals, files, live,
     actors, editVars, loadVars, NoHands, OnlyWhenServing, Serving,
     ReadIsCurrent, MainInstalls, EditIsAlone, RunsWhatWasRead, Between,
     InSync, Alone
<1>19. ASSUME NEW p \in Procs, SaveTruncates(p)
      PROVE  Alone'
  BY <1>19, <1>0, DaemonAssumption DEF SaveTruncates, Move, TypeOK, Procs,
     MainStarts, Reloading, Locals, files, live, actors, editVars, loadVars,
     NoHands, OnlyWhenServing, Serving, ReadIsCurrent, MainInstalls,
     EditIsAlone, RunsWhatWasRead, Between, InSync, Alone
<1>20. ASSUME NEW p \in Procs, Rename(p)
      PROVE  Alone'
  BY <1>20, <1>0, DaemonAssumption DEF Rename, TmpIsAlone, Move, TypeOK,
         Procs, MainStarts, Reloading, Locals, files, live, actors, editVars,
         loadVars, NoHands, OnlyWhenServing, Serving, ReadIsCurrent,
         MainInstalls, EditIsAlone, RunsWhatWasRead, Between, InSync, Alone
<1>21. ASSUME NEW p \in Procs, RestoreTruncates(p)
      PROVE  Alone'
  BY <1>21, <1>0, DaemonAssumption DEF RestoreTruncates, Move, TypeOK,
     Procs, MainStarts, Reloading, Locals, files, live, actors, editVars,
     loadVars, NoHands, OnlyWhenServing, Serving, ReadIsCurrent,
     MainInstalls, EditIsAlone, RunsWhatWasRead, Between, InSync, Alone
<1>22. ASSUME NEW p \in Procs, RestoreWrites(p)
      PROVE  Alone'
  BY <1>22, <1>0, DaemonAssumption DEF RestoreWrites, Written, Overwritten,
         Move, TypeOK, Procs, MainStarts, Reloading, Locals, files, live,
         actors, editVars, loadVars, NoHands, OnlyWhenServing, Serving,
         ReadIsCurrent, MainInstalls, EditIsAlone, RunsWhatWasRead, Between,
         InSync, Alone
<1>23. ASSUME NEW p \in Procs, SaveWrites(p)
      PROVE  Alone'
  <2>1. disk' = disk
    BY <1>23, <1>0 DEF SaveWrites, Written, Move, TmpIsAlone, Alone,
           MainStarts, Reloading, Procs
  <2>2. QED
    BY <1>23, <1>0, <2>1, DaemonAssumption DEF SaveWrites, Written, Move,
           TypeOK, Procs, MainStarts, Reloading, Locals, files, live, actors,
           editVars, loadVars, NoHands, OnlyWhenServing, Serving,
           ReadIsCurrent, MainInstalls, EditIsAlone, RunsWhatWasRead, Between,
           InSync, Alone
<1>24. QED  BY <1>0, <1>1, <1>2, <1>3, <1>4, <1>5, <1>6, <1>7, <1>8, <1>9,
     <1>10, <1>11, <1>12, <1>13, <1>14, <1>15, <1>16, <1>17, <1>18, <1>19,
     <1>20, <1>21, <1>22, <1>23 DEF Next, Run, Request, Reload, MutateRaw

LEMMA AloneInit == OneClient /\ Init => Alone
<1>1. OneClient /\ Init => NoHands
  BY DaemonAssumption DEF OneClient, Init, NoHands
<1>2. Init => /\ TmpIsAlone /\ OnlyWhenServing /\ ReadIsCurrent
              /\ MainInstalls /\ EditIsAlone /\ RunsWhatWasRead
  BY DaemonAssumption DEF Init, TmpIsAlone, OnlyWhenServing, ReadIsCurrent,
         MainInstalls, EditIsAlone, Reloading, RunsWhatWasRead, Between,
         Serving, Procs
<1>3. QED  BY <1>1, <1>2 DEF Alone

LEMMA AloneNext == OneClient /\ IInv /\ Alone /\ [Next]_vars => Alone'
<1>1. ASSUME Alone, UNCHANGED vars
      PROVE  Alone'
  BY <1>1 DEF vars, files, live, editVars, loadVars, actors, Alone, NoHands,
         TmpIsAlone, OnlyWhenServing, Serving, ReadIsCurrent, MainInstalls,
         EditIsAlone, RunsWhatWasRead, Between, InSync
<1>2. QED  BY <1>1, AloneStep

LEMMA AloneHolds == ASSUME OneClient PROVE Spec => [](IInv /\ Alone)
<1>1. Init => Alone
  BY AloneInit
<1>2. IInv /\ Alone /\ [Next]_vars => Alone'
  BY AloneNext
<1>3. QED  BY <1>1, <1>2, Invariance, PTL DEF Spec

(* What an edit knows when its call returns.                                *)
LEMMA AloneAtTheEnd ==
    ASSUME IInv, Alone, NEW p \in Procs
    PROVE  /\ stage[p] = "edit" /\ pc[p] = "closeold" =>
                  disk = clone[p] /\ raw = clone[p] /\ cfg = clone[p]
           /\ stage[p] = "resync" /\ pc[p] # "idle" =>
                  disk = previous[p] /\ raw = Parse(disk) /\ cfg = Parse(disk)
<1>1. CASE p = Main
  BY <1>1 DEF IInv, MainStarts
<1>2. CASE p \in Admins
  <2>1. pc[p] # "idle" => phase \in Serving
    BY <1>2 DEF Alone, OnlyWhenServing
  <2>2. disk = clone[p] => clone[p] \in Configs
    BY DaemonAssumption DEF IInv, TypeOK, Procs
  <2>3. QED
    BY <1>2, <2>1, <2>2, ParseIs
       DEF Alone, EditIsAlone, RunsWhatWasRead, Between, InSync, Reloading
<1>3. QED  BY <1>1, <1>2 DEF Procs

(* One client at a time: an edit that is acknowledged is in the file and    *)
(* runs, for any configuration, whatever fails and however often the daemon *)
(* crashes or stops meanwhile.                                              *)
THEOREM AcknowledgedIsLive == ASSUME OneClient PROVE Spec => AcknowledgedEditIsLive
<1> DEFINE Good == \A p \in Procs : Acknowledged(p) =>
                      disk = clone[p] /\ raw = clone[p] /\ cfg = clone[p]
<1>1. IInv /\ Alone => Good
  BY AloneAtTheEnd DEF Acknowledged
<1>2. Spec => [](IInv /\ Alone)
  BY AloneHolds
<1>3. QED  BY <1>1, <1>2, PTL DEF AcknowledgedEditIsLive

(* One client at a time: an edit that fails after it was saved has changed  *)
(* neither the file nor the running configuration once it returns, if the   *)
(* daemon does not go down first.                                           *)
THEOREM FailedLeavesNoTrace == ASSUME OneClient PROVE Spec => FailedEditLeavesNoTrace
<1> DEFINE Good == \A p \in Procs :
                      /\ stage[p] = "resync" /\ pc[p] # "idle"
                      /\ pc'[p] = "idle" /\ phase' # "down"
                      => disk = previous[p] /\ raw = Parse(disk) /\ cfg = Parse(disk)
<1>1. IInv /\ Alone => Good
  BY AloneAtTheEnd
<1>2. Spec => [](IInv /\ Alone)
  BY AloneHolds
<1>3. QED  BY <1>1, <1>2, PTL DEF FailedEditLeavesNoTrace
=============================================================================
