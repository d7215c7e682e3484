--------------------------- MODULE AutostartProofs ---------------------------
(* Proofs about Autostart for any number of processes, daemons and mishaps: *)
(* the lock file excludes, and as long as nobody stops a daemon or starts   *)
(* one by hand there is one daemon at a time and daemon.json names it; as   *)
(* long as nothing at all goes wrong, nobody fails and all who wait attach  *)
(* to the same daemon (Calm).                                               *)
EXTENDS Autostart, TLAPS

(* What an undisturbed system keeps beside OneDaemon: while a daemon comes  *)
(* up the lock is taken and nobody is about to look again, to spawn or to   *)
(* release; a daemon that writes daemon.json is alone with it; while one    *)
(* serves daemon.json names it, and a second look can only find it.         *)
Active == Coming \union {"serving"}

OneActive ==
    \A d, e \in Daemons : state[d] \in Active /\ state[e] \in Active => d = e

NoneStopped == \A d \in Daemons : state[d] # "draining"

ComingIsLocked ==
    \A d \in Daemons : state[d] \in Coming =>
        lock /\ \A p \in Starters : pc[p] \notin {"relook", "spawn", "release"}

BlankIsTorn ==
    \A d \in Daemons : state[d] = "blank" => info = Torn /\ d \in linked

ServingIsFound ==
    \A d \in Daemons : state[d] = "serving" =>
        /\ info = d
        /\ \A p \in Starters : /\ pc[p] # "spawn"
                               /\ pc[p] = "relook" => asked[p] \in {None, d}

Orderly ==
    /\ OneActive /\ NoneStopped
    /\ ComingIsLocked /\ BlankIsTorn /\ ServingIsFound

IInv == TypeOK /\ SoleStarter /\ (Undisturbed => Orderly)

-----------------------------------------------------------------------------
(* A mishap only ever adds to the counts.                                   *)
LEMMA CountTyped ==
    ASSUME TypeOK, NEW what \in Mishaps \union {"calls"}, Count(what)
    PROVE  /\ count' \in [Mishaps \union {"calls"} -> Nat]
           /\ \A k \in Mishaps \union {"calls"} : count'[k] >= count[k]
           /\ count'[what] > 0
BY DEF TypeOK, Count

(* Once disturbed, always disturbed.                                        *)
LEMMA Disturbance ==
    ASSUME TypeOK, Next
    PROVE  /\ Undisturbed' => Undisturbed
           /\ count' \in [Mishaps \union {"calls"} -> Nat]
<1>1. UNCHANGED count \/ \E what \in Mishaps \union {"calls"} : Count(what)
  BY DEF Next, EnsureRunning, TryExisting, ReadNoInfo, ReadInfo, Status,
         StatusFails, StartUnderLock, AcquireStartLock, SpawnFails, Spawn,
         Timeout, Release, Kill, StartByHand, RunDaemon, OpenFails, Listen,
         ListenFails, WriteInfoOpens, WriteInfo, RemoveInfo, CloseDaemon,
         Stop, Crash, Mishap, Mishaps
<1>2. CASE UNCHANGED count
  BY <1>2 DEF Undisturbed, Happened, TypeOK
<1>3. CASE \E what \in Mishaps \union {"calls"} : Count(what)
  <2>1. PICK what \in Mishaps \union {"calls"} : Count(what)
    BY <1>3
  <2>2. \A k \in Mishaps \union {"calls"} :
            count[k] \in Nat /\ count'[k] \in Nat /\ count'[k] >= count[k]
    BY <2>1, CountTyped DEF TypeOK
  <2>3. {"stops", "hand", "slow"} \subseteq Mishaps
    BY DEF Mishaps
  <2>4. QED  BY <2>1, <2>2, <2>3, CountTyped DEF Undisturbed, Happened
<1>4. QED  BY <1>1, <1>2, <1>3

(* A stop, a start by hand or a slow start leaves the system disturbed.     *)
LEMMA MishapDisturbs ==
    ASSUME TypeOK, NEW what \in {"stops", "hand", "slow"}, Mishap(what)
    PROVE  ~Undisturbed'
<1>1. what \in Mishaps  BY DEF Mishaps
<1>2. count'[what] > 0  BY <1>1, CountTyped DEF Mishap
<1>3. QED  BY <1>2 DEF Undisturbed, Happened

-----------------------------------------------------------------------------
(* Every step keeps the types, whatever the bounds.                         *)
LEMMA TypeStep ==
    ASSUME TypeOK, Next
    PROVE  TypeOK'
<1>0. count' \in [Mishaps \union {"calls"} -> Nat]
  BY Disturbance
<1>1. ASSUME NEW p \in Starters, EnsureRunning(p)
      PROVE  TypeOK'
  BY <1>1, <1>0, AutostartAssumption
     DEF EnsureRunning, Move, TypeOK, files, Locs, Holding, Trying, States
<1>2. ASSUME NEW p \in Starters, ReadNoInfo(p)
      PROVE  TypeOK'
  BY <1>2, <1>0, AutostartAssumption
     DEF ReadNoInfo, Miss, AfterMiss, TypeOK, files, Locs, Holding, Trying,
         States
<1>3. ASSUME NEW p \in Starters, ReadInfo(p)
      PROVE  TypeOK'
  BY <1>3, <1>0, AutostartAssumption
     DEF ReadInfo, TypeOK, files, Locs, Holding, Trying, States
<1>4. ASSUME NEW p \in Starters, Status(p)
      PROVE  TypeOK'
  BY <1>4, <1>0, AutostartAssumption
     DEF Status, Return, TypeOK, files, Locs, Holding, Trying, States
<1>5. ASSUME NEW p \in Starters, StatusFails(p)
      PROVE  TypeOK'
  BY <1>5, <1>0, AutostartAssumption
     DEF StatusFails, Miss, AfterMiss, TypeOK, files, Locs, Holding, Trying,
         States
<1>6. ASSUME NEW p \in Starters, AcquireStartLock(p)
      PROVE  TypeOK'
  BY <1>6, <1>0, AutostartAssumption
     DEF AcquireStartLock, Move, TypeOK, files, Locs, Holding, Trying, States
<1>7. ASSUME NEW p \in Starters, SpawnFails(p)
      PROVE  TypeOK'
  BY <1>7, <1>0, AutostartAssumption
     DEF SpawnFails, Return, TypeOK, files, Locs, Holding, Trying, States
<1>8. ASSUME NEW p \in Starters, NEW d \in Daemons, Spawn(p, d)
      PROVE  TypeOK'
  BY <1>8, <1>0, AutostartAssumption
     DEF Spawn, Move, Unborn, TypeOK, files, Locs, Holding, Trying, States
<1>9. ASSUME NEW p \in Starters, Timeout(p)
      PROVE  TypeOK'
  BY <1>9, <1>0, AutostartAssumption
     DEF Timeout, Return, TypeOK, files, Locs, Holding, Trying, States
<1>10. ASSUME NEW p \in Starters, Release(p)
      PROVE  TypeOK'
  BY <1>10, <1>0, AutostartAssumption
     DEF Release, Move, TypeOK, files, Locs, Holding, Trying, States
<1>11. ASSUME NEW p \in Starters, Kill(p)
      PROVE  TypeOK'
  BY <1>11, <1>0, AutostartAssumption
     DEF Kill, TypeOK, files, Locs, Holding, Trying, States
<1>12. ASSUME NEW d \in Daemons, StartByHand(d)
      PROVE  TypeOK'
  BY <1>12, <1>0, AutostartAssumption
     DEF StartByHand, Unborn, TypeOK, files, Locs, Holding, Trying, States
<1>13. ASSUME NEW d \in Daemons, OpenFails(d)
      PROVE  TypeOK'
  BY <1>13, <1>0, AutostartAssumption
     DEF OpenFails, Enter, TypeOK, files, Locs, Holding, Trying, States
<1>14. ASSUME NEW d \in Daemons, Listen(d)
      PROVE  TypeOK'
  BY <1>14, <1>0, AutostartAssumption
     DEF Listen, Enter, TypeOK, files, Locs, Holding, Trying, States
<1>15. ASSUME NEW d \in Daemons, ListenFails(d)
      PROVE  TypeOK'
  BY <1>15, <1>0, AutostartAssumption
     DEF ListenFails, Enter, TypeOK, files, Locs, Holding, Trying, States
<1>16. ASSUME NEW d \in Daemons, WriteInfoOpens(d)
      PROVE  TypeOK'
  BY <1>16, <1>0, AutostartAssumption
     DEF WriteInfoOpens, Enter, TypeOK, files, Locs, Holding, Trying, States
<1>17. ASSUME NEW d \in Daemons, WriteInfo(d)
      PROVE  TypeOK'
  BY <1>17, <1>0, AutostartAssumption
     DEF WriteInfo, Enter, TypeOK, files, Locs, Holding, Trying, States
<1>18. ASSUME NEW d \in Daemons, RemoveInfo(d)
      PROVE  TypeOK'
  BY <1>18, <1>0, AutostartAssumption
     DEF RemoveInfo, Enter, TypeOK, files, Locs, Holding, Trying, States
<1>19. ASSUME NEW d \in Daemons, CloseDaemon(d)
      PROVE  TypeOK'
  BY <1>19, <1>0, AutostartAssumption
     DEF CloseDaemon, Enter, TypeOK, files, Locs, Holding, Trying, States
<1>20. ASSUME NEW d \in Daemons, Stop(d)
      PROVE  TypeOK'
  BY <1>20, <1>0, AutostartAssumption
     DEF Stop, Enter, TypeOK, files, Locs, Holding, Trying, States
<1>21. ASSUME NEW d \in Daemons, Crash(d)
      PROVE  TypeOK'
  BY <1>21, <1>0, AutostartAssumption
     DEF Crash, TypeOK, files, Locs, Holding, Trying, States
<1>22. QED
  BY <1>1, <1>2, <1>3, <1>4, <1>5, <1>6, <1>7, <1>8, <1>9, <1>10, <1>11,
     <1>12, <1>13, <1>14, <1>15, <1>16, <1>17, <1>18, <1>19, <1>20, <1>21
     DEF Next, TryExisting, StartUnderLock, RunDaemon

(* Every step keeps the lock exclusive: it is taken only when free, and     *)
(* given back only by the one that holds it.                                *)
LEMMA SoleStep ==
    ASSUME TypeOK, SoleStarter, Next
    PROVE  SoleStarter'
<1>1. ASSUME NEW p \in Starters, EnsureRunning(p)
      PROVE  SoleStarter'
  BY <1>1, AutostartAssumption
     DEF EnsureRunning, Move, SoleStarter, TypeOK, files, Locs, Holding,
         Trying
<1>2. ASSUME NEW p \in Starters, ReadNoInfo(p)
      PROVE  SoleStarter'
  BY <1>2, AutostartAssumption
     DEF ReadNoInfo, Miss, AfterMiss, SoleStarter, TypeOK, files, Locs,
         Holding, Trying
<1>3. ASSUME NEW p \in Starters, ReadInfo(p)
      PROVE  SoleStarter'
  BY <1>3, AutostartAssumption
     DEF ReadInfo, SoleStarter, TypeOK, files, Locs, Holding, Trying
<1>4. ASSUME NEW p \in Starters, Status(p)
      PROVE  SoleStarter'
  BY <1>4, AutostartAssumption
     DEF Status, Return, SoleStarter, TypeOK, files, Locs, Holding, Trying
<1>5. ASSUME NEW p \in Starters, StatusFails(p)
      PROVE  SoleStarter'
  BY <1>5, AutostartAssumption
     DEF StatusFails, Miss, AfterMiss, SoleStarter, TypeOK, files, Locs,
         Holding, Trying
<1>6. ASSUME NEW p \in Starters, AcquireStartLock(p)
      PROVE  SoleStarter'
  BY <1>6, AutostartAssumption
     DEF AcquireStartLock, Move, SoleStarter, TypeOK, files, Locs, Holding,
         Trying
<1>7. ASSUME NEW p \in Starters, SpawnFails(p)
      PROVE  SoleStarter'
  BY <1>7, AutostartAssumption
     DEF SpawnFails, Return, SoleStarter, TypeOK, files, Locs, Holding, Trying
<1>8. ASSUME NEW p \in Starters, NEW d \in Daemons, Spawn(p, d)
      PROVE  SoleStarter'
  BY <1>8, AutostartAssumption
     DEF Spawn, Move, Unborn, SoleStarter, TypeOK, files, Locs, Holding,
         Trying
<1>9. ASSUME NEW p \in Starters, Timeout(p)
      PROVE  SoleStarter'
  BY <1>9, AutostartAssumption
     DEF Timeout, Return, SoleStarter, TypeOK, files, Locs, Holding, Trying
<1>10. ASSUME NEW p \in Starters, Release(p)
      PROVE  SoleStarter'
  BY <1>10, AutostartAssumption
     DEF Release, Move, SoleStarter, TypeOK, files, Locs, Holding, Trying
<1>11. ASSUME NEW p \in Starters, Kill(p)
      PROVE  SoleStarter'
  BY <1>11, AutostartAssumption
     DEF Kill, SoleStarter, TypeOK, files, Locs, Holding, Trying
<1>12. ASSUME NEW d \in Daemons, StartByHand(d)
      PROVE  SoleStarter'
  BY <1>12, AutostartAssumption
     DEF StartByHand, Unborn, SoleStarter, TypeOK, files, Locs, Holding,
         Trying
<1>13. ASSUME NEW d \in Daemons, OpenFails(d)
      PROVE  SoleStarter'
  BY <1>13, AutostartAssumption
     DEF OpenFails, Enter, SoleStarter, TypeOK, files, Locs, Holding, Trying
<1>14. ASSUME NEW d \in Daemons, Listen(d)
      PROVE  SoleStarter'
  BY <1>14, AutostartAssumption
     DEF Listen, Enter, SoleStarter, TypeOK, files, Locs, Holding, Trying
<1>15. ASSUME NEW d \in Daemons, ListenFails(d)
      PROVE  SoleStarter'
  BY <1>15, AutostartAssumption
     DEF ListenFails, Enter, SoleStarter, TypeOK, files, Locs, Holding, Trying
<1>16. ASSUME NEW d \in Daemons, WriteInfoOpens(d)
      PROVE  SoleStarter'
  BY <1>16, AutostartAssumption
     DEF WriteInfoOpens, Enter, SoleStarter, TypeOK, files, Locs, Holding,
         Trying
<1>17. ASSUME NEW d \in Daemons, WriteInfo(d)
      PROVE  SoleStarter'
  BY <1>17, AutostartAssumption
     DEF WriteInfo, Enter, SoleStarter, TypeOK, files, Locs, Holding, Trying
<1>18. ASSUME NEW d \in Daemons, RemoveInfo(d)
      PROVE  SoleStarter'
  BY <1>18, AutostartAssumption
     DEF RemoveInfo, Enter, SoleStarter, TypeOK, files, Locs, Holding, Trying
<1>19. ASSUME NEW d \in Daemons, CloseDaemon(d)
      PROVE  SoleStarter'
  BY <1>19, AutostartAssumption
     DEF CloseDaemon, Enter, SoleStarter, TypeOK, files, Locs, Holding, Trying
<1>20. ASSUME NEW d \in Daemons, Stop(d)
      PROVE  SoleStarter'
  BY <1>20, AutostartAssumption
     DEF Stop, Enter, SoleStarter, TypeOK, files, Locs, Holding, Trying
<1>21. ASSUME NEW d \in Daemons, Crash(d)
      PROVE  SoleStarter'
  BY <1>21, AutostartAssumption
     DEF Crash, SoleStarter, TypeOK, files, Locs, Holding, Trying
<1>22. QED
  BY <1>1, <1>2, <1>3, <1>4, <1>5, <1>6, <1>7, <1>8, <1>9, <1>10, <1>11,
     <1>12, <1>13, <1>14, <1>15, <1>16, <1>17, <1>18, <1>19, <1>20, <1>21
     DEF Next, TryExisting, StartUnderLock, RunDaemon

(* As long as the system is undisturbed every step keeps it orderly.        *)
LEMMA OrderlyStep ==
    ASSUME IInv, Next, Undisturbed'
    PROVE  Orderly'
<1>0. Orderly
  BY Disturbance DEF IInv
<1>1. ASSUME NEW p \in Starters, EnsureRunning(p)
      PROVE  Orderly'
  BY <1>1, <1>0, AutostartAssumption
     DEF EnsureRunning, Move, IInv, TypeOK, SoleStarter, Holding, Trying,
         files, Orderly, OneActive, NoneStopped, ComingIsLocked, BlankIsTorn,
         ServingIsFound, Active, Coming
<1>2. ASSUME NEW p \in Starters, ReadNoInfo(p)
      PROVE  Orderly'
  BY <1>2, <1>0, AutostartAssumption
     DEF ReadNoInfo, Miss, AfterMiss, IInv, TypeOK, SoleStarter, Holding,
         Trying, files, Orderly, OneActive, NoneStopped, ComingIsLocked,
         BlankIsTorn, ServingIsFound, Active, Coming
<1>3. ASSUME NEW p \in Starters, ReadInfo(p)
      PROVE  Orderly'
  BY <1>3, <1>0, AutostartAssumption
     DEF ReadInfo, IInv, TypeOK, SoleStarter, Holding, Trying, files, Orderly,
         OneActive, NoneStopped, ComingIsLocked, BlankIsTorn, ServingIsFound,
         Active, Coming
<1>4. ASSUME NEW p \in Starters, Status(p)
      PROVE  Orderly'
  BY <1>4, <1>0, AutostartAssumption
     DEF Status, Return, IInv, TypeOK, SoleStarter, Holding, Trying, files,
         Orderly, OneActive, NoneStopped, ComingIsLocked, BlankIsTorn,
         ServingIsFound, Active, Coming
<1>5. ASSUME NEW p \in Starters, StatusFails(p)
      PROVE  Orderly'
  BY <1>5, <1>0, AutostartAssumption
     DEF StatusFails, Miss, AfterMiss, IInv, TypeOK, SoleStarter, Holding,
         Trying, files, Orderly, OneActive, NoneStopped, ComingIsLocked,
         BlankIsTorn, ServingIsFound, Active, Coming
<1>6. ASSUME NEW p \in Starters, AcquireStartLock(p)
      PROVE  Orderly'
  BY <1>6, <1>0, AutostartAssumption
     DEF AcquireStartLock, Move, IInv, TypeOK, SoleStarter, Holding, Trying,
         files, Orderly, OneActive, NoneStopped, ComingIsLocked, BlankIsTorn,
         ServingIsFound, Active, Coming
<1>7. ASSUME NEW p \in Starters, SpawnFails(p)
      PROVE  Orderly'
  BY <1>7, <1>0, AutostartAssumption
     DEF SpawnFails, Return, IInv, TypeOK, SoleStarter, Holding, Trying,
         files, Orderly, OneActive, NoneStopped, ComingIsLocked, BlankIsTorn,
         ServingIsFound, Active, Coming
<1>8. ASSUME NEW p \in Starters, NEW d \in Daemons, Spawn(p, d)
      PROVE  Orderly'
  BY <1>8, <1>0, AutostartAssumption
     DEF Spawn, Move, Unborn, IInv, TypeOK, SoleStarter, Holding, Trying,
         files, Orderly, OneActive, NoneStopped, ComingIsLocked, BlankIsTorn,
         ServingIsFound, Active, Coming
<1>9. ASSUME NEW p \in Starters, Timeout(p)
      PROVE  Orderly'
  <2>1. ~Promising
    BY <1>9, MishapDisturbs DEF Timeout, IInv
  <2>2. QED
    BY <1>9, <2>1, <1>0, AutostartAssumption
       DEF Timeout, Promising,
           Return, IInv, TypeOK, SoleStarter, Holding, Trying, files, Orderly,
           OneActive, NoneStopped, ComingIsLocked, BlankIsTorn,
           ServingIsFound, Active, Coming
<1>10. ASSUME NEW p \in Starters, Release(p)
      PROVE  Orderly'
  BY <1>10, <1>0, AutostartAssumption
     DEF Release, Move, IInv, TypeOK, SoleStarter, Holding, Trying, files,
         Orderly, OneActive, NoneStopped, ComingIsLocked, BlankIsTorn,
         ServingIsFound, Active, Coming
<1>11. ASSUME NEW p \in Starters, Kill(p)
      PROVE  Orderly'
  BY <1>11, <1>0, AutostartAssumption
     DEF Kill, IInv, TypeOK, SoleStarter, Holding, Trying, files, Orderly,
         OneActive, NoneStopped, ComingIsLocked, BlankIsTorn, ServingIsFound,
         Active, Coming
<1>12. ASSUME NEW d \in Daemons, StartByHand(d)
      PROVE  Orderly'
  BY <1>12, MishapDisturbs DEF StartByHand, IInv
<1>13. ASSUME NEW d \in Daemons, OpenFails(d)
      PROVE  Orderly'
  BY <1>13, <1>0, AutostartAssumption
     DEF OpenFails, Enter, IInv, TypeOK, SoleStarter, Holding, Trying, files,
         Orderly, OneActive, NoneStopped, ComingIsLocked, BlankIsTorn,
         ServingIsFound, Active, Coming
<1>14. ASSUME NEW d \in Daemons, Listen(d)
      PROVE  Orderly'
  BY <1>14, <1>0, AutostartAssumption
     DEF Listen, Enter, IInv, TypeOK, SoleStarter, Holding, Trying, files,
         Orderly, OneActive, NoneStopped, ComingIsLocked, BlankIsTorn,
         ServingIsFound, Active, Coming
<1>15. ASSUME NEW d \in Daemons, ListenFails(d)
      PROVE  Orderly'
  BY <1>15, <1>0, AutostartAssumption
     DEF ListenFails, Enter, IInv, TypeOK, SoleStarter, Holding, Trying,
         files, Orderly, OneActive, NoneStopped, ComingIsLocked, BlankIsTorn,
         ServingIsFound, Active, Coming
<1>16. ASSUME NEW d \in Daemons, WriteInfoOpens(d)
      PROVE  Orderly'
  BY <1>16, <1>0, AutostartAssumption
     DEF WriteInfoOpens, Enter, IInv, TypeOK, SoleStarter, Holding, Trying,
         files, Orderly, OneActive, NoneStopped, ComingIsLocked, BlankIsTorn,
         ServingIsFound, Active, Coming
<1>17. ASSUME NEW d \in Daemons, WriteInfo(d)
      PROVE  Orderly'
  BY <1>17, <1>0, AutostartAssumption
     DEF WriteInfo, Enter, IInv, TypeOK, SoleStarter, Holding, Trying, files,
         Orderly, OneActive, NoneStopped, ComingIsLocked, BlankIsTorn,
         ServingIsFound, Active, Coming
<1>18. ASSUME NEW d \in Daemons, RemoveInfo(d)
      PROVE  Orderly'
  BY <1>18, <1>0, AutostartAssumption
     DEF RemoveInfo, Enter, IInv, TypeOK, SoleStarter, Holding, Trying, files,
         Orderly, OneActive, NoneStopped, ComingIsLocked, BlankIsTorn,
         ServingIsFound, Active, Coming
<1>19. ASSUME NEW d \in Daemons, CloseDaemon(d)
      PROVE  Orderly'
  BY <1>19, <1>0, AutostartAssumption
     DEF CloseDaemon, Enter, IInv, TypeOK, SoleStarter, Holding, Trying,
         files, Orderly, OneActive, NoneStopped, ComingIsLocked, BlankIsTorn,
         ServingIsFound, Active, Coming
<1>20. ASSUME NEW d \in Daemons, Stop(d)
      PROVE  Orderly'
  BY <1>20, MishapDisturbs DEF Stop, IInv
<1>21. ASSUME NEW d \in Daemons, Crash(d)
      PROVE  Orderly'
  BY <1>21, <1>0, AutostartAssumption
     DEF Crash, IInv, TypeOK, SoleStarter, Holding, Trying, files, Orderly,
         OneActive, NoneStopped, ComingIsLocked, BlankIsTorn, ServingIsFound,
         Active, Coming
<1>22. QED
  BY <1>1, <1>2, <1>3, <1>4, <1>5, <1>6, <1>7, <1>8, <1>9, <1>10, <1>11,
     <1>12, <1>13, <1>14, <1>15, <1>16, <1>17, <1>18, <1>19, <1>20, <1>21
     DEF Next, TryExisting, StartUnderLock, RunDaemon

-----------------------------------------------------------------------------
(* The invariant holds at first, and every step keeps it.                   *)
LEMMA InvInit == Init => IInv
<1>1. ASSUME Init  PROVE TypeOK
  <2>1. fixedAddr \in BOOLEAN /\ lock \in BOOLEAN /\ linked \in SUBSET Daemons
    BY <1>1 DEF Init
  <2>2. info \in Daemons \union {Torn, None} /\ state \in [Daemons -> States]
    BY <1>1 DEF Init, States
  <2>3. /\ pc \in [Starters -> Locs]
        /\ asked \in [Starters -> Daemons \union {None}]
        /\ got \in [Starters -> Daemons \union {None, Failed}]
    BY <1>1 DEF Init, Locs
  <2>4. count \in [Mishaps \union {"calls"} -> Nat]
    BY <1>1 DEF Init
  <2>5. \A p \in Starters : asked[p] = None
    BY <1>1 DEF Init
  <2>6. QED
    BY <2>1, <2>2, <2>3, <2>4, <2>5 DEF TypeOK
<1>2. Init => SoleStarter
  BY DEF Init, SoleStarter, Holding
<1>3. Init => Orderly
  BY DEF Init, Orderly, OneActive, NoneStopped, ComingIsLocked, BlankIsTorn,
         ServingIsFound, Active, Coming
<1>4. QED
  BY <1>1, <1>2, <1>3 DEF IInv

(* Every step, or none, keeps the invariant.                                *)
LEMMA InvStep == IInv /\ [Next]_vars => IInv'
<1>1. CASE Next
  BY <1>1, TypeStep, SoleStep, OrderlyStep DEF IInv
<1>2. CASE UNCHANGED vars
  BY <1>2 DEF vars, Undisturbed, Happened, Mishaps, Locs, States, IInv,
         TypeOK, SoleStarter, Holding, Trying, files, Orderly, OneActive,
         NoneStopped, ComingIsLocked, BlankIsTorn, ServingIsFound, Active,
         Coming
<1>3. QED
  BY <1>1, <1>2

(* The inductive invariant, of which all that follows is a part.            *)
THEOREM Invariance == Spec => []IInv
BY InvInit, InvStep, PTL DEF Spec

(* Types, for any number of processes and daemons.                          *)
THEOREM TypesHold == Spec => []TypeOK
<1>1. IInv => TypeOK
  BY DEF IInv
<1>2. QED
  BY <1>1, Invariance, PTL

(* daemon.starting.lock excludes, whoever is killed, times out or is        *)
(* started beside it.                                                       *)
THEOREM LockExcludes == Spec => []SoleStarter
<1>1. IInv => SoleStarter
  BY DEF IInv
<1>2. QED
  BY <1>1, Invariance, PTL

(* "Only one of them actually spawns it", for any number of processes that  *)
(* race for the start, die or meet daemons that crash.                      *)
THEOREM OnlyOneDaemon == Spec => []OneDaemon
<1>1. IInv => OneDaemon
  BY DEF IInv, Orderly, OneActive, Active, OneDaemon
<1>2. QED
  BY <1>1, Invariance, PTL

(* As long as the system is undisturbed a daemon that serves is found.      *)
THEOREM ServingDaemonIsFound == Spec => []InfoFindsDaemon
<1>1. IInv => InfoFindsDaemon
  BY DEF IInv, Orderly, ServingIsFound, InfoFindsDaemon, ServingIsFindable,
         Findable
<1>2. QED
  BY <1>1, Invariance, PTL

-----------------------------------------------------------------------------
(* As long as nothing goes wrong, a daemon that comes up stays: whoever     *)
(* waits does so for one, or for a starter that is about to spawn it.       *)
Smooth == \A what \in Mishaps : ~Happened(what)

SomeActive == \E d \in Daemons : state[d] \in Active

GotServing ==
    \A p \in Starters : got[p] # Failed /\ (got[p] \in Daemons => state[got[p]] = "serving")

LockIsHeld == lock => \E p \in Starters : pc[p] \in Holding

WaitForOne ==
    \A p \in Starters :
        /\ pc[p] \in {"poll", "release"} => SomeActive
        /\ pc[p] = "queue" =>
              SomeActive \/ \E q \in Starters : pc[q] \in {"relook", "spawn"}

Calm == GotServing /\ LockIsHeld /\ WaitForOne

LEMMA SmoothIsUndisturbed == Smooth => Undisturbed
BY DEF Smooth, Undisturbed, Mishaps

LEMMA MishapEndsIt ==
    ASSUME TypeOK, NEW what \in Mishaps, Mishap(what)
    PROVE  ~Smooth'
<1>1. count'[what] > 0  BY CountTyped DEF Mishap
<1>2. QED  BY <1>1 DEF Smooth, Happened

LEMMA SmoothBefore ==
    ASSUME TypeOK, Next, Smooth'
    PROVE  Smooth
<1>1. UNCHANGED count \/ \E what \in Mishaps \union {"calls"} : Count(what)
  BY DEF Next, EnsureRunning, TryExisting, ReadNoInfo, ReadInfo, Status,
         StatusFails, StartUnderLock, AcquireStartLock, SpawnFails, Spawn,
         Timeout, Release, Kill, StartByHand, RunDaemon, OpenFails, Listen,
         ListenFails, WriteInfoOpens, WriteInfo, RemoveInfo, CloseDaemon,
         Stop, Crash, Mishap, Mishaps
<1>2. CASE UNCHANGED count
  BY <1>2 DEF Smooth, Happened
<1>3. CASE \E what \in Mishaps \union {"calls"} : Count(what)
  <2>1. \A k \in Mishaps :
            count[k] \in Nat /\ count'[k] \in Nat /\ count'[k] >= count[k]
    BY <1>3, CountTyped DEF TypeOK
  <2>2. QED  BY <2>1 DEF Smooth, Happened
<1>4. QED  BY <1>1, <1>2, <1>3

(* The states of the daemons, and who waits, after a step of a starter.     *)
LEMMA CalmStep ==
    ASSUME IInv, Calm, Next, Smooth'
    PROVE  Calm'
<1>0. Orderly /\ TypeOK /\ SoleStarter /\ Smooth
  BY SmoothBefore, SmoothIsUndisturbed DEF IInv
<1>1. ASSUME NEW p \in Starters, EnsureRunning(p)
      PROVE  Calm'
  BY <1>1, <1>0, AutostartAssumption
     DEF EnsureRunning, Move, TypeOK, Holding, Trying, files, Calm,
         GotServing, LockIsHeld, WaitForOne, SomeActive
<1>2. ASSUME NEW p \in Starters, ReadNoInfo(p)
      PROVE  Calm'
  BY <1>2, <1>0
     DEF ReadNoInfo, Miss, AfterMiss, TypeOK, Holding, Trying, files, Calm,
         GotServing, LockIsHeld, WaitForOne, SomeActive
<1>3. ASSUME NEW p \in Starters, ReadInfo(p)
      PROVE  Calm'
  BY <1>3, <1>0
     DEF ReadInfo, files, Calm, GotServing, LockIsHeld, WaitForOne, SomeActive
<1>4. ASSUME NEW p \in Starters, Status(p)
      PROVE  Calm'
  BY <1>4, <1>0, AutostartAssumption
     DEF Status, Return, TypeOK, Holding, Trying, files, Calm,
         GotServing, LockIsHeld, WaitForOne, SomeActive, Active
<1>5. ASSUME NEW p \in Starters, StatusFails(p)
      PROVE  Calm'
  BY <1>5, <1>0
     DEF StatusFails, Miss, AfterMiss, TypeOK, Holding, Trying, files, Calm,
         GotServing, LockIsHeld, WaitForOne, SomeActive
<1>6. ASSUME NEW p \in Starters, AcquireStartLock(p)
      PROVE  Calm'
  BY <1>6, <1>0
     DEF AcquireStartLock, Move, TypeOK, SoleStarter, Holding, Trying, files, Calm,
         GotServing, LockIsHeld, WaitForOne, SomeActive
<1>7. ASSUME NEW p \in Starters, SpawnFails(p) \/ Kill(p)
      PROVE  Calm'
  BY <1>7, <1>0, MishapEndsIt DEF SpawnFails, Kill, Mishaps
<1>8. ASSUME NEW p \in Starters, NEW d \in Daemons, Spawn(p, d)
      PROVE  Calm'
  BY <1>8, <1>0
     DEF Spawn, Move, Unborn, TypeOK, Holding, Trying, files, Calm,
         GotServing, LockIsHeld, WaitForOne, SomeActive, Active, Coming
<1>9. ASSUME NEW p \in Starters, Timeout(p)
      PROVE  Calm'
  <2>1. ~Promising
    BY <1>9, <1>0, MishapEndsIt DEF Timeout, Mishaps
  <2>2. SomeActive \/ \E q \in Starters : pc[q] \in {"relook", "spawn"}
    BY <1>9 DEF Timeout, Calm, WaitForOne
  <2>3. SomeActive => Promising
    BY <1>0 DEF SomeActive, Active, Promising, Findable, Orderly, ServingIsFound
  <2>4. QED
    BY <2>1, <2>2, <2>3 DEF Promising
<1>10. ASSUME NEW p \in Starters, Release(p)
      PROVE  Calm'
  BY <1>10, <1>0
     DEF Release, Move, TypeOK, Holding, Trying, files, Calm,
         GotServing, LockIsHeld, WaitForOne, SomeActive
<1>11. ASSUME NEW d \in Daemons, StartByHand(d) \/ OpenFails(d) \/ Stop(d) \/ Crash(d)
      PROVE  Calm'
  BY <1>11, <1>0, MishapEndsIt DEF StartByHand, OpenFails, Stop, Crash, Mishaps
<1>12. ASSUME NEW d \in Daemons, ListenFails(d) \/ RemoveInfo(d)
      PROVE  Calm'
  BY <1>12, <1>0
     DEF ListenFails, RemoveInfo, Enter, Listening, Orderly, OneActive, NoneStopped, Active,
         Coming
<1>13. ASSUME NEW d \in Daemons, Listen(d) \/ WriteInfoOpens(d) \/ WriteInfo(d)
      PROVE  Calm'
  BY <1>13, <1>0
     DEF Listen, WriteInfoOpens, WriteInfo, Enter, TypeOK, files, Calm,
         GotServing, LockIsHeld, WaitForOne, SomeActive, Active, Coming
<1>14. ASSUME NEW d \in Daemons, CloseDaemon(d)
      PROVE  Calm'
  BY <1>14, <1>0
     DEF CloseDaemon, Enter, TypeOK, files, Calm,
         GotServing, LockIsHeld, WaitForOne, SomeActive, Active, Coming
<1>15. QED
  BY <1>1, <1>2, <1>3, <1>4, <1>5, <1>6, <1>7, <1>8, <1>9, <1>10, <1>11,
     <1>12, <1>13, <1>14 DEF Next, TryExisting, StartUnderLock, RunDaemon

LEMMA CalmNext == IInv /\ (Smooth => Calm) /\ [Next]_vars => (Smooth => Calm)'
<1>1. CASE Next
  BY <1>1, CalmStep, SmoothBefore DEF IInv
<1>2. CASE UNCHANGED vars
  BY <1>2 DEF vars, files, Smooth, Happened, Calm, GotServing, LockIsHeld, WaitForOne, SomeActive
<1>3. QED  BY <1>1, <1>2

LEMMA CalmInit == Init => Calm
BY AutostartAssumption DEF Init, Calm, GotServing, LockIsHeld, WaitForOne

LEMMA CalmAttaches == IInv /\ (Smooth => Calm) => AttachToTheSame
<1> SUFFICES ASSUME IInv, Smooth => Calm, Smooth, NEW p \in Starters, NEW q \in Starters,
                    {got[p], got[q]} \subseteq Daemons \union {Failed}
             PROVE  got[p] = got[q] /\ got[p] # Failed
  BY DEF AttachToTheSame, Smooth
<1>1. got[p] \in Daemons /\ got[q] \in Daemons /\ got[p] # Failed
  BY DEF Calm, GotServing
<1>2. state[got[p]] \in Active /\ state[got[q]] \in Active
  BY <1>1 DEF Calm, GotServing, Active
<1>3. OneActive
  BY SmoothIsUndisturbed DEF IInv, Orderly
<1>4. QED  BY <1>1, <1>2, <1>3 DEF OneActive

(* "The other waits and attaches to the same daemon", for any number of     *)
(* processes that race for the start and any number of calls.               *)
THEOREM AllAttachToTheSame == Spec => []AttachToTheSame
<1>1. Init => (Smooth => Calm)
  BY CalmInit
<1>2. Spec => [](Smooth => Calm)
  BY <1>1, CalmNext, Invariance, PTL DEF Spec
<1>3. QED
  BY <1>2, CalmAttaches, Invariance, PTL
=============================================================================
