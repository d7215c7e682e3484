--------------------------- MODULE DispatchProofs ---------------------------
(***************************************************************************)
(* What of the daemon's requests is proved for any number of them, any     *)
(* rules, and crashes at any moment, by the steps that NextIs names.       *)
(*                                                                         *)
(* No script outlives its hook (ScriptInv).  Each call is counted once, in *)
(* memory and, but for what a crash or a failed save loses, on disk: two   *)
(* sums over the requests (CountInv), which need that who saves holds      *)
(* store.mu.  GET /calls/recent returns the latest calls (RingInv): where  *)
(* in the ring each of them is, counted backwards from the slot to be      *)
(* written next, and what is copied out of it.  Nothing passes a hook that *)
(* a rule refused or was not asked about (Orderly): what has fired and what*)
(* is still to fire are, together, the rules that apply, in order.         *)
(***************************************************************************)
EXTENDS GatewayProofs

(* Scripts.                                                                *)
ScriptInv == ReqShape /\ ScriptsEnd

LEMMA QuietAt ==
  ASSUME ScriptInv, NEW r \in Request, req[r].at \notin {"script", "reap"}
  PROVE  {req[r].script} = {"none"}
BY DEF ScriptInv, ScriptsEnd

LEMMA ScrMoves ==
  ASSUME ScriptInv, NEW r \in Request, NEW to, NEW scripts, Moves(r, to, scripts),
         scripts = {"none"} \/ to \subseteq {"script", "reap"}
  PROVE  ScriptInv'
<1>1. PICK q : /\ Shaped(q) /\ req' = [req EXCEPT ![r] = q]
               /\ q.at \in to /\ q.script \in scripts
  BY DEF Moves
<1>2. ReqShape' /\ req'[r] = q /\ \A x \in Request \ {r} : req'[x] = req[x]
  BY <1>1, OneMoves DEF ScriptInv
<1>3. QED BY <1>1, <1>2 DEF ScriptInv, ScriptsEnd

LEMMA ScrStep ==
  ASSUME ScriptInv, NEW r \in Request,
         Step(r) \/ CallFails(r) \/ SaveFails(r) \/ Decline(r) \/ Answer(r)
  PROVE  ScriptInv'
<1>0. ReqShape
  BY DEF ScriptInv
<1>1. CASE Forward(r) \/ CallFails(r) \/ Record(r) \/ SaveTmp(r) \/ Decline(r)
  <2>1. {req[r].script} = {"none"}
    BY <1>1, QuietAt DEF Forward, CallFails, Record, SaveTmp, Decline, At
  <2>2. QED
    BY <1>0, <1>1, <2>1, ScrMoves, MovesForward, MovesCallFails, MovesRecord, MovesSaveTmp,
       MovesDecline
<1>2. CASE Return(r) \/ PostDone(r)
  <2>1. {req[r].script} = {"none"}
    BY <1>2, QuietAt DEF Return, PostDone, At
  <2>2. QED BY <1>0, <1>2, <2>1, ScrMoves, MovesReturn, MovesPostDone
<1>3. CASE StartRule(r) \/ Interrupt(r)
  BY <1>0, <1>3, ScrMoves, MovesStartRule, MovesInterrupt
<1>4. CASE TakeOutput(r) \/ Reap(r) \/ Answer(r)
  BY <1>0, <1>4, ScrMoves, MovesRan, AnswerIs
<1>5. CASE Kill(r) \/ ScriptEnds(r)
  <2>1. {req[r].at} \subseteq {"script", "reap"}
    BY <1>5 DEF Kill, ScriptEnds, At, ScriptInv, ScriptsEnd
  <2>2. QED BY <1>0, <1>5, <2>1, ScrMoves, MovesKill, MovesScriptEnds
<1>6. CASE Count(r) \/ SaveFails(r)
  <2>1. req[r].script = "none"
    BY <1>6 DEF Count, SaveFails, At, ScriptInv, ScriptsEnd
  <2>2. PICK q : /\ Shaped(q) /\ req' = [req EXCEPT ![r] = q] /\ q.script = "none"
    BY <1>0, <1>6, <2>1, CountIs, SaveFailsIs DEF Count
  <2>3. ReqShape' /\ req'[r] = q /\ \A x \in Request \ {r} : req'[x] = req[x]
    BY <1>0, <2>2, OneMoves
  <2>4. QED BY <2>2, <2>3 DEF ScriptInv, ScriptsEnd
<1>7. CASE Rename(r)
  <2>1. req[r].script = "none"
    BY <1>7 DEF Rename, At, ScriptInv, ScriptsEnd
  <2>2. /\ ReqShape'
        /\ \A x \in Request : /\ req'[x].script = req[x].script
                              /\ req'[x].at = IF x = r THEN "answer" ELSE req[x].at
    BY <1>0, <1>7, RenameIs
  <2>3. QED BY <2>1, <2>2 DEF ScriptInv, ScriptsEnd
<1>8. QED BY <1>1, <1>2, <1>3, <1>4, <1>5, <1>6, <1>7 DEF Step

LEMMA ScrBegins ==
  ASSUME ScriptInv, NEW r \in Request, NEW s, Begins(r, s)
  PROVE  ScriptInv'
<1>1. PICK entry, rules : Begin(r, entry, rules)
  BY DEF Begins
<1>2. ReqShape /\ req[r].script = "none"
  BY <1>1 DEF Begin, At, ScriptInv, ScriptsEnd
<1>3. PICK q : Shaped(q) /\ req' = [req EXCEPT ![r] = q] /\ q.script = "none"
  BY <1>1, <1>2, BeginIs
<1>4. ReqShape' /\ req'[r] = q /\ \A x \in Request \ {r} : req'[x] = req[x]
  BY <1>2, <1>3, OneMoves
<1>5. QED BY <1>3, <1>4 DEF ScriptInv, ScriptsEnd

LEMMA ScrCrash == ASSUME ScriptInv, Crash PROVE ScriptInv'
<1>1. /\ ReqShape'
      /\ \A x \in Request : /\ req'[x].at = IF Active(x) THEN "gone" ELSE req[x].at
                            /\ req'[x].script = IF Active(x) THEN "none" ELSE req[x].script
  BY CrashIs DEF ScriptInv
<1>2. QED BY <1>1 DEF ScriptInv, ScriptsEnd

LEMMA ScrInit == Init => ScriptInv
<1>1. Idle.script = "none"
  BY DEF Idle
<1>2. QED BY <1>1, IdleFields DEF Init, DispatchInit, ScriptInv, ReqShape, ScriptsEnd

LEMMA ScrNext == ScriptInv /\ RelayInv /\ [Next]_vars => ScriptInv'
<1> SUFFICES ASSUME ScriptInv, RelayInv, [Next]_vars PROVE ScriptInv'
  OBVIOUS
<1>1. CASE UNCHANGED dispatchVars \/ Start
  BY <1>1 DEF Start, dispatchVars, ScriptInv, ReqShape, ScriptsEnd
<1>2. CASE Crash
  BY <1>2, ScrCrash
<1>3. ASSUME NEW r \in Request, Handles(r) PROVE ScriptInv'
  BY <1>3, ScrStep, ScrBegins DEF Handles
<1>4. QED BY <1>1, <1>2, <1>3, NextIs

(* No script runs on when its hook is over: a timed-out rule leaves neither*)
(* a goroutine nor a process behind, for any number of rules and requests. *)
THEOREM ScriptsEndHolds == Spec => []ScriptsEnd
<1>1. ScriptInv => ScriptsEnd
  BY DEF ScriptInv
<1>2. QED BY <1>1, ScrInit, ScrNext, RelInit, RelNext, PTL DEF Spec

-----------------------------------------------------------------------------
(* Counts.  A call is counted once, on its way from "count" to "save"; who *)
(* saves holds the mutex, and its count is in memory until the save is     *)
(* made or has failed.                                                     *)
Early == {"idle", "hook", "script", "reap", "call", "record", "count"}
Saving == {"save", "rename"}
Live == {"disk", "memory", "unsaved"}

KeptOf(r) ==
  /\ req[r].at \in Early => req[r].kept = "no"
  /\ req[r].at \in Saving => req[r].kept = "memory" /\ saver = r
  /\ req[r].kept = "memory" => req[r].at \in Saving
  /\ req[r].at \in {"answer", "done"} /\ req[r].outcome # "local"
       => req[r].kept \in {"disk", "unsaved", "lost"}
  /\ req[r].at = "rename" => tmp = counts
  /\ ~up => req[r].kept \notin {"memory", "unsaved"}

In(kinds, n) == {r \in Request : req[r].kept \in kinds /\ req[r].entry.exposed = n}

Totals ==
  \A n \in Name : /\ disk[n] = Cardinality(In({"disk"}, n))
                  /\ up => counts[n] = Cardinality(In(Live, n))

CountInv ==
  /\ ReqShape /\ ScriptsEnd /\ CountTypeOK
  /\ \A r \in Request : KeptOf(r)
  /\ Totals

LEMMA InIsFinite ==
  ASSUME NEW kinds, NEW n
  PROVE  IsFiniteSet(In(kinds, n))
<1>1. In(kinds, n) \subseteq Request
  BY DEF In
<1>2. QED BY <1>1, DispatchAssumption, FS_Subset

(* Nobody else saves.                                                      *)
LEMMA OneSaver ==
  ASSUME CountInv, NEW r \in Request, NEW x \in Request, x # r,
         saver \in {r, None}
  PROVE  req[x].at \notin Saving /\ req[x].kept # "memory"
BY DispatchAssumption DEF CountInv, KeptOf

(* Steps that count nothing and save nothing.                              *)
SameKept ==
  \A x \in Request : /\ req'[x].kept = req[x].kept
                     /\ req[x].kept # "no" => req'[x].entry = req[x].entry

LEMMA TotalsStay ==
  ASSUME Totals, SameKept, up' = up, disk' = disk, counts' = counts
  PROVE  Totals'
<1>1. ASSUME NEW kinds \in {{"disk"}, Live}, NEW n
      PROVE  In(kinds, n)' = In(kinds, n)
  BY <1>1 DEF In, SameKept, Live
<1>2. QED BY <1>1 DEF Totals

MovesEarly(r) ==
  \E q : /\ Shaped(q) /\ req' = [req EXCEPT ![r] = q]
         /\ q.at \in Early /\ q.kept = req[r].kept /\ q.entry = req[r].entry

LEMMA MovesTo ==
  ASSUME NEW r, NEW to, NEW scripts, Moves(r, to, scripts), to \subseteq Early
  PROVE  MovesEarly(r)
BY DEF Moves, MovesEarly

LEMMA CountMoves ==
  ASSUME CountInv, CountTypeOK', NEW r \in Request, MovesEarly(r), req[r].at \in Early,
         UNCHANGED <<up, storeVars>>, ScriptInv'
  PROVE  CountInv'
<1>1. PICK q : /\ Shaped(q) /\ req' = [req EXCEPT ![r] = q]
               /\ q.at \in Early /\ q.kept = req[r].kept /\ q.entry = req[r].entry
  BY DEF MovesEarly
<1>2. ReqShape' /\ req'[r] = q /\ \A x \in Request \ {r} : req'[x] = req[x]
  BY <1>1, OneMoves DEF CountInv
<1>3. SameKept
  BY <1>1, <1>2 DEF SameKept
<1>4. Totals'
  BY <1>3, TotalsStay DEF CountInv, storeVars
<1>5. KeptOf(r)'
  BY <1>1, <1>2 DEF CountInv, KeptOf, storeVars, Early, Saving
<1>6. \A x \in Request \ {r} : KeptOf(x)'
  BY <1>2 DEF CountInv, KeptOf, storeVars
<1>7. QED BY <1>2, <1>4, <1>5, <1>6 DEF CountInv, ScriptInv

LEMMA CountEarly ==
  ASSUME CountInv, CountTypeOK', ScriptInv', NEW r \in Request,
         \/ StartRule(r) \/ ScriptEnds(r) \/ TakeOutput(r) \/ Interrupt(r) \/ Reap(r) \/ Kill(r)
         \/ Forward(r) \/ Return(r) \/ PostDone(r) \/ Record(r) \/ CallFails(r)
  PROVE  CountInv'
<1>0. ReqShape
  BY DEF CountInv
<1>1. UNCHANGED <<up, storeVars>>
  BY DEF StartRule, ScriptEnds, TakeOutput, Interrupt, Reap, Kill, Forward, Return, PostDone,
         Record, CallFails, recordVars, storeVars
<1>2. req[r].at \in {"script", "reap", "hook", "call", "record"}
  BY DEF StartRule, ScriptEnds, TakeOutput, Interrupt, Reap, Kill, Forward, Return, PostDone,
         Record, CallFails, At, CountInv, ScriptsEnd
<1>3. MovesEarly(r)
  <2>1. {req[r].at} \subseteq Early
    BY <1>2 DEF Early
  <2>2. /\ {"script"} \subseteq Early /\ {"hook", "record"} \subseteq Early
        /\ {"reap"} \subseteq Early /\ {"call"} \subseteq Early /\ {"hook"} \subseteq Early
        /\ {"record"} \subseteq Early /\ {"count"} \subseteq Early
    BY DEF Early
  <2>3. CASE StartRule(r)
    BY <1>0, <2>1, <2>2, <2>3, MovesTo, MovesStartRule
  <2>4. CASE Interrupt(r)
    BY <1>0, <2>1, <2>2, <2>4, MovesTo, MovesInterrupt
  <2>5. CASE Forward(r)
    BY <1>0, <2>1, <2>2, <2>5, MovesTo, MovesForward
  <2>6. CASE Return(r)
    BY <1>0, <2>1, <2>2, <2>6, MovesTo, MovesReturn
  <2>7. CASE PostDone(r)
    BY <1>0, <2>1, <2>2, <2>7, MovesTo, MovesPostDone
  <2>8. CASE Record(r)
    BY <1>0, <2>1, <2>2, <2>8, MovesTo, MovesRecord
  <2>9. CASE CallFails(r)
    BY <1>0, <2>1, <2>2, <2>9, MovesTo, MovesCallFails
  <2>10. CASE Kill(r)
    BY <1>0, <2>1, <2>2, <2>10, MovesTo, MovesKill
  <2>11. CASE ScriptEnds(r)
    BY <1>0, <2>1, <2>2, <2>11, MovesTo, MovesScriptEnds
  <2>12. CASE TakeOutput(r) \/ Reap(r)
    BY <1>0, <2>2, <2>12, MovesTo, MovesRan
  <2>13. QED BY <2>3, <2>4, <2>5, <2>6, <2>7, <2>8, <2>9, <2>10, <2>11, <2>12
<1>4. req[r].at \in Early
  BY <1>2 DEF Early
<1>5. QED BY <1>1, <1>3, <1>4, CountMoves

LEMMA CountDecline ==
  ASSUME CountInv, CountTypeOK', ScriptInv', NEW r \in Request, Decline(r)
  PROVE  CountInv'
<1> DEFINE q == [req[r] EXCEPT !.at = "answer", !.outcome = "local"]
<1>1. Shaped(req[r]) /\ req' = [req EXCEPT ![r] = q] /\ UNCHANGED <<up, storeVars>>
  BY DEF Decline, CountInv, ReqShape, recordVars, storeVars
<1>2. /\ Shaped(q) /\ q.at = "answer" /\ q.outcome = "local"
      /\ q.kept = req[r].kept /\ q.entry = req[r].entry
  BY <1>1, IdleFields DEF Shaped
<1> HIDE DEF q
<1>3. ReqShape' /\ req'[r] = q /\ \A x \in Request \ {r} : req'[x] = req[x]
  BY <1>1, <1>2, OneMoves DEF CountInv
<1>4. SameKept
  BY <1>2, <1>3 DEF SameKept
<1>5. Totals'
  BY <1>1, <1>4, TotalsStay DEF CountInv, storeVars
<1>6. req[r].kept = "no"
  BY DEF Decline, At, CountInv, KeptOf, Early
<1>7. KeptOf(r)'
  BY <1>1, <1>2, <1>3, <1>6 DEF KeptOf, storeVars, Early, Saving
<1>8. \A x \in Request \ {r} : KeptOf(x)'
  BY <1>1, <1>3 DEF CountInv, KeptOf, storeVars
<1>9. QED BY <1>3, <1>5, <1>7, <1>8 DEF CountInv, ScriptInv

LEMMA CountBegins ==
  ASSUME CountInv, CountTypeOK', ScriptInv', NEW r \in Request, NEW s, Begins(r, s)
  PROVE  CountInv'
<1>1. PICK entry, rules : Begin(r, entry, rules)
  BY DEF Begins
<1>2. ReqShape /\ req[r].kept = "no" /\ UNCHANGED <<up, storeVars>>
  BY <1>1 DEF Begin, At, CountInv, KeptOf, Early, recordVars, storeVars
<1>3. PICK q : Shaped(q) /\ req' = [req EXCEPT ![r] = q] /\ q.kept = "no" /\ q.at = "hook"
  BY <1>1, <1>2, BeginIs
<1>4. ReqShape' /\ req'[r] = q /\ \A x \in Request \ {r} : req'[x] = req[x]
  BY <1>2, <1>3, OneMoves
<1>5. SameKept
  BY <1>2, <1>3, <1>4 DEF SameKept
<1>6. Totals'
  BY <1>2, <1>5, TotalsStay DEF CountInv, storeVars
<1>7. KeptOf(r)'
  BY <1>2, <1>3, <1>4 DEF KeptOf, storeVars, Early, Saving
<1>8. \A x \in Request \ {r} : KeptOf(x)'
  BY <1>2, <1>4 DEF CountInv, KeptOf, storeVars
<1>9. QED BY <1>4, <1>6, <1>7, <1>8 DEF CountInv, ScriptInv

LEMMA CountAnswer ==
  ASSUME CountInv, CountTypeOK', ScriptInv', NEW r \in Request, Answer(r)
  PROVE  CountInv'
<1>1. ReqShape /\ UNCHANGED <<up, storeVars>> /\ req[r].at = "answer"
  BY DEF Answer, At, CountInv, recordVars, storeVars
<1>2. PICK q : /\ Shaped(q) /\ req' = [req EXCEPT ![r] = q] /\ q.at = "done"
               /\ q.kept = req[r].kept /\ q.entry = req[r].entry
  BY <1>1, AnswerIs DEF Moves
<1>3. ReqShape' /\ req'[r] = q /\ \A x \in Request \ {r} : req'[x] = req[x]
  BY <1>1, <1>2, OneMoves
<1>4. q.outcome = req[r].outcome
  BY <1>1, <1>3, AnswerIs
<1>5. SameKept
  BY <1>2, <1>3 DEF SameKept
<1>6. Totals'
  BY <1>1, <1>5, TotalsStay DEF CountInv, storeVars
<1>7. KeptOf(r)'
  BY <1>1, <1>2, <1>3, <1>4 DEF CountInv, KeptOf, storeVars, Early, Saving
<1>8. \A x \in Request \ {r} : KeptOf(x)'
  BY <1>1, <1>3 DEF CountInv, KeptOf, storeVars
<1>9. QED BY <1>3, <1>6, <1>7, <1>8 DEF CountInv, ScriptInv

(* usage.Record counts the call, in memory.                                *)
LEMMA CountCounts ==
  ASSUME CountInv, CountTypeOK', ScriptInv', NEW r \in Request, Count(r)
  PROVE  CountInv'
<1> DEFINE name == req[r].entry.exposed
<1>1. /\ ReqShape /\ req[r].at = "count" /\ up /\ up' = up /\ saver = None /\ saver' = r
      /\ counts' = [counts EXCEPT ![name] = @ + 1] /\ disk' = disk /\ tmp' = tmp
  BY DEF Count, Counted, At, CountInv
<1>2. PICK q : /\ Shaped(q) /\ req' = [req EXCEPT ![r] = q] /\ q.at = "save"
               /\ q.kept = "memory" /\ q.entry = req[r].entry
  BY <1>1, CountIs DEF Count
<1>3. ReqShape' /\ req'[r] = q /\ \A x \in Request \ {r} : req'[x] = req[x]
  BY <1>1, <1>2, OneMoves
<1>4. req[r].kept = "no"
  BY <1>1 DEF CountInv, KeptOf, Early
<1> HIDE DEF name
<1>5. \A n : In({"disk"}, n)' = In({"disk"}, n)
  BY <1>2, <1>3, <1>4 DEF In
<1>6. \A n : In(Live, n)' = IF n = name THEN In(Live, n) \cup {r} ELSE In(Live, n)
  BY <1>2, <1>3, <1>4 DEF In, Live, name
<1>7. ASSUME NEW n \in Name
      PROVE  counts'[n] = Cardinality(In(Live, n)')
  <2>1. counts[n] = Cardinality(In(Live, n)) /\ counts \in [Name -> Nat]
    BY <1>1 DEF CountInv, Totals, CountTypeOK
  <2>2. CASE n = name
    <3>1. r \notin In(Live, n)
      BY <1>4 DEF In, Live
    <3>2. Cardinality(In(Live, n) \cup {r}) = Cardinality(In(Live, n)) + 1
      BY <3>1, InIsFinite, FS_AddElement
    <3>3. counts'[n] = counts[n] + 1
      BY <1>1, <2>1, <2>2
    <3>4. QED BY <1>6, <2>1, <2>2, <3>2, <3>3
  <2>3. CASE n # name
    BY <1>1, <1>6, <2>1, <2>3
  <2>4. QED BY <2>2, <2>3
<1>8. Totals'
  BY <1>1, <1>5, <1>7 DEF CountInv, Totals
<1>9. KeptOf(r)'
  BY <1>1, <1>2, <1>3 DEF KeptOf, Early, Saving
<1>10. ASSUME NEW x \in Request \ {r} PROVE KeptOf(x)'
  <2>1. req[x].at \notin Saving /\ req[x].kept # "memory"
    BY <1>1, OneSaver
  <2>2. QED BY <1>1, <1>3, <2>1 DEF CountInv, KeptOf, Saving
<1>11. QED BY <1>3, <1>8, <1>9, <1>10 DEF CountInv, ScriptInv

LEMMA CountSaveTmp ==
  ASSUME CountInv, CountTypeOK', ScriptInv', NEW r \in Request, SaveTmp(r)
  PROVE  CountInv'
<1>1. /\ ReqShape /\ req[r].at = "save" /\ req[r].kept = "memory" /\ saver = r
      /\ tmp' = counts /\ UNCHANGED <<up, counts, saver, disk>>
  BY DEF SaveTmp, At, CountInv, KeptOf, Saving
<1>2. PICK q : /\ Shaped(q) /\ req' = [req EXCEPT ![r] = q] /\ q.at = "rename"
               /\ q.kept = "memory" /\ q.entry = req[r].entry
  BY <1>1, MovesSaveTmp DEF Moves
<1>3. ReqShape' /\ req'[r] = q /\ \A x \in Request \ {r} : req'[x] = req[x]
  BY <1>1, <1>2, OneMoves
<1>4. SameKept
  BY <1>1, <1>2, <1>3 DEF SameKept
<1>5. Totals'
  BY <1>1, <1>4, TotalsStay DEF CountInv
<1>6. KeptOf(r)'
  BY <1>1, <1>2, <1>3 DEF CountInv, KeptOf, Early, Saving
<1>7. ASSUME NEW x \in Request \ {r} PROVE KeptOf(x)'
  <2>1. req[x].at \notin Saving /\ req[x].kept # "memory"
    BY <1>1, OneSaver
  <2>2. QED BY <1>1, <1>3, <2>1 DEF CountInv, KeptOf, Saving
<1>8. QED BY <1>3, <1>5, <1>6, <1>7 DEF CountInv, ScriptInv

(* A save that fails leaves the count in memory for the next one.          *)
LEMMA CountSaveFails ==
  ASSUME CountInv, CountTypeOK', ScriptInv', NEW r \in Request, SaveFails(r)
  PROVE  CountInv'
<1>1. /\ ReqShape /\ req[r].at \in Saving /\ req[r].kept = "memory" /\ saver = r /\ up
      /\ saver' = None /\ UNCHANGED <<up, counts, tmp, disk>>
  BY DEF SaveFails, At, CountInv, KeptOf, Saving
<1>2. PICK q : /\ Shaped(q) /\ req' = [req EXCEPT ![r] = q] /\ q.at = "answer"
               /\ q.kept = "unsaved" /\ q.entry = req[r].entry
  BY <1>1, SaveFailsIs
<1>3. ReqShape' /\ req'[r] = q /\ \A x \in Request \ {r} : req'[x] = req[x]
  BY <1>1, <1>2, OneMoves
<1>4. \A n : In({"disk"}, n)' = In({"disk"}, n)
  BY <1>1, <1>2, <1>3 DEF In
<1>5. \A n : In(Live, n)' = In(Live, n)
  BY <1>1, <1>2, <1>3 DEF In, Live
<1>6. Totals'
  BY <1>1, <1>4, <1>5 DEF CountInv, Totals
<1>7. KeptOf(r)'
  BY <1>1, <1>2, <1>3 DEF KeptOf, Early, Saving
<1>8. ASSUME NEW x \in Request \ {r} PROVE KeptOf(x)'
  <2>1. req[x].at \notin Saving /\ req[x].kept # "memory"
    BY <1>1, OneSaver
  <2>2. QED BY <1>1, <1>3, <2>1 DEF CountInv, KeptOf, Saving
<1>9. QED BY <1>3, <1>6, <1>7, <1>8 DEF CountInv, ScriptInv

(* One that succeeds saves every count there is in memory.                 *)
LEMMA CountRename ==
  ASSUME CountInv, CountTypeOK', ScriptInv', NEW r \in Request, Rename(r)
  PROVE  CountInv'
<1>1. /\ ReqShape /\ req[r].at = "rename" /\ req[r].kept = "memory" /\ saver = r /\ up
      /\ tmp = counts /\ disk' = tmp /\ saver' = None /\ UNCHANGED <<up, counts, tmp>>
  BY DEF Rename, At, CountInv, KeptOf, Saving
<1>2. /\ ReqShape'
      /\ \A x \in Request :
           /\ req'[x].entry = req[x].entry /\ req'[x].outcome = req[x].outcome
           /\ req'[x].at = IF x = r THEN "answer" ELSE req[x].at
           /\ req'[x].kept = IF req[x].kept \in {"memory", "unsaved"} THEN "disk"
                            ELSE req[x].kept
  BY <1>1, RenameIs
<1>3. \A n : In({"disk"}, n)' = In(Live, n) /\ In(Live, n)' = In(Live, n)
  BY <1>2 DEF In, Live
<1>4. Totals'
  BY <1>1, <1>3 DEF CountInv, Totals
<1>5. KeptOf(r)'
  BY <1>1, <1>2 DEF KeptOf, Early, Saving
<1>6. ASSUME NEW x \in Request \ {r} PROVE KeptOf(x)'
  <2>1. req[x].at \notin Saving /\ req[x].kept # "memory"
    BY <1>1, OneSaver
  <2>2. QED BY <1>1, <1>2, <2>1 DEF CountInv, KeptOf, Early, Saving
<1>7. QED BY <1>2, <1>4, <1>5, <1>6 DEF CountInv, ScriptInv

(* A crash takes what is not in the file, and a start reads the file.      *)
LEMMA CountCrash ==
  ASSUME CountInv, CountTypeOK', ScriptInv', Crash
  PROVE  CountInv'
<1>1. ReqShape /\ ~up' /\ UNCHANGED <<counts, tmp, disk>>
  BY DEF Crash, CountInv
<1>2. /\ ReqShape'
      /\ \A x \in Request :
           /\ req'[x].entry = req[x].entry /\ req'[x].outcome = req[x].outcome
           /\ req'[x].at = IF Active(x) THEN "gone" ELSE req[x].at
           /\ req'[x].kept = IF req[x].kept \in {"memory", "unsaved"} THEN "lost"
                            ELSE req[x].kept
  BY <1>1, CrashIs
<1>3. \A n : In({"disk"}, n)' = In({"disk"}, n)
  BY <1>2 DEF In
<1>4. Totals'
  BY <1>1, <1>3 DEF CountInv, Totals
<1>5. ASSUME NEW x \in Request PROVE KeptOf(x)'
  BY <1>1, <1>2 DEF CountInv, KeptOf, Early, Saving, Active
<1>6. QED BY <1>2, <1>4, <1>5 DEF CountInv, ScriptInv

LEMMA CountStart ==
  ASSUME CountInv, CountTypeOK', ScriptInv', Start
  PROVE  CountInv'
<1>1. ~up /\ up' /\ counts' = disk /\ UNCHANGED <<req, saver, tmp, disk>>
  BY DEF Start
<1>2. \A x \in Request : req[x].kept \notin {"memory", "unsaved"} /\ req[x].at \notin Saving
  BY <1>1 DEF CountInv, KeptOf
<1>3. \A n : In({"disk"}, n)' = In({"disk"}, n) /\ In(Live, n)' = In({"disk"}, n)
  BY <1>1, <1>2 DEF In, Live
<1>4. Totals'
  BY <1>1, <1>3 DEF CountInv, Totals
<1>5. ASSUME NEW x \in Request PROVE KeptOf(x)'
  BY <1>1, <1>2 DEF CountInv, KeptOf, Saving
<1>6. QED BY <1>1, <1>4, <1>5 DEF CountInv, ScriptInv, ReqShape

LEMMA CountUnchanged ==
  ASSUME CountInv, UNCHANGED dispatchVars
  PROVE  CountInv'
<1>1. /\ up' = up /\ req' = req /\ counts' = counts /\ saver' = saver /\ tmp' = tmp
      /\ disk' = disk
  BY DEF dispatchVars
<1>2. Totals'
  BY <1>1 DEF CountInv, Totals, In
<1>3. QED BY <1>1, <1>2 DEF CountInv, ReqShape, ScriptsEnd, CountTypeOK, KeptOf

LEMMA CountInit == Init => CountInv
<1> SUFFICES ASSUME Init PROVE CountInv
  OBVIOUS
<1>1. ScriptInv /\ CountTypeOK
  BY ScrInit, SessionInit DEF SessionInv
<1>2. Idle.kept = "no" /\ Idle.at = "idle"
  BY DEF Idle
<1>3. /\ up /\ req = [r \in Request |-> Idle]
      /\ counts = [n \in Name |-> 0] /\ disk = [n \in Name |-> 0]
  BY DEF Init, DispatchInit, NoCounts
<1>4. \A n : In({"disk"}, n) = {} /\ In(Live, n) = {}
  BY <1>2, <1>3 DEF In, Live
<1>5. Totals
  BY <1>3, <1>4, FS_EmptySet DEF Totals
<1>6. ASSUME NEW r \in Request PROVE KeptOf(r)
  BY <1>2, <1>3 DEF KeptOf, Saving
<1>7. QED BY <1>1, <1>5, <1>6 DEF CountInv, ScriptInv

LEMMA CountsNext == CountInv /\ SessionInv /\ [Next]_vars => CountInv'
<1> SUFFICES ASSUME CountInv, SessionInv, [Next]_vars PROVE CountInv'
  OBVIOUS
<1>1. RelayInv /\ CountTypeOK' /\ ScriptInv'
  BY CountNext, ScrNext DEF CountInv, ScriptInv, SessionInv
<1>2. CASE UNCHANGED dispatchVars \/ Crash \/ Start
  BY <1>1, <1>2, CountUnchanged, CountCrash, CountStart
<1>3. ASSUME NEW r \in Request, Handles(r) PROVE CountInv'
  BY <1>1, <1>3, CountEarly, CountDecline, CountBegins, CountAnswer, CountCounts, CountSaveTmp,
     CountSaveFails, CountRename
  DEF Handles, Step
<1>4. QED BY <1>1, <1>2, <1>3, NextIs

(* For any number of calls and tools, saves that fail and daemons that     *)
(* crash: the usage file counts just the calls whose save succeeded or was *)
(* made up for, and nothing is answered before it is counted.              *)
THEOREM CountsAreKept == Spec => []CountsKept
<1>1. CountInv => CountsKept
  BY DEF CountInv, KeptOf, Totals, In, Live, CountsKept
<1>2. QED BY <1>1, CountInit, CountsNext, SessionInit, SessionNext, PTL DEF Spec

-----------------------------------------------------------------------------
Spots == 0 .. RingSize - 1

(* The slot of the i-th newest call when n is the next to be written.      *)
Slot(n, i) == IF i <= n THEN n - i ELSE n - i + RingSize

RingShape ==
  /\ ring.next \in Spots
  /\ ring.entries = [k \in Spots |-> ring.entries[k]]
  /\ \E S : log \in Seq(S)

HowMany == IF ring.full THEN Len(log) >= RingSize ELSE Len(log) = ring.next

WhereTheyAre ==
  \A i \in 1 .. RingSize :
    i <= Len(log) => ring.entries[Slot(ring.next, i)] = log[Len(log) + 1 - i]

RingInv == RingShape /\ HowMany /\ WhereTheyAre

----------------------------------------------------------------------------
(* Counting on the ring.                                                   *)
LEMMA Successor ==
  ASSUME NEW n \in Spots
  PROVE  (n + 1) % RingSize = IF n + 1 = RingSize THEN 0 ELSE n + 1
BY DispatchAssumption DEF Spots

LEMMA SlotShifts ==
  ASSUME NEW n \in Spots, NEW i \in 1 .. RingSize, i - 1 \in 1 .. RingSize,
         NEW m, m = IF n + 1 = RingSize THEN 0 ELSE n + 1
  PROVE  Slot(m, i) = Slot(n, i - 1) /\ Slot(n, i - 1) \in Spots \ {n}
<1>1. RingSize \in Nat \ {0} /\ n \in Nat /\ n < RingSize /\ i \in Nat /\ i > 1 /\ i <= RingSize
  BY DispatchAssumption DEF Spots
<1>2. CASE n + 1 = RingSize
  BY <1>1, <1>2 DEF Slot, Spots
<1>3. CASE n + 1 # RingSize
  BY <1>1, <1>3 DEF Slot, Spots
<1>4. QED BY <1>2, <1>3

(* One record more: it goes into the slot to be written next, the others   *)
(* are one call older than before.                                         *)
LEMMA PutKeeps ==
  ASSUME RingInv, NEW rec, log' = Append(log, rec), ring' = Put(rec)
  PROVE  RingInv'
<1> DEFINE n == ring.next
<1>0. RingSize \in Nat \ {0} /\ n \in Spots
  BY DispatchAssumption DEF RingInv, RingShape
<1>1. PICK S : log \in Seq(S)
  BY DEF RingInv, RingShape
<1>2. /\ log' \in Seq(S \cup {rec})
      /\ Len(log') = Len(log) + 1 /\ Len(log) \in Nat
      /\ log'[Len(log) + 1] = rec
      /\ \A i \in 1 .. Len(log) : log'[i] = log[i]
  <2>1. log \in Seq(S \cup {rec})
    BY <1>1
  <2>2. QED BY <2>1
<1>3. /\ ring'.next = IF n + 1 = RingSize THEN 0 ELSE n + 1
      /\ ring'.full <=> (ring.full \/ n + 1 = RingSize)
      /\ ring'.entries = [ring.entries EXCEPT ![n] = rec]
  <2>1. (n + 1) % RingSize = IF n + 1 = RingSize THEN 0 ELSE n + 1
    BY <1>0, Successor
  <2>2. (n + 1) % RingSize = 0 <=> n + 1 = RingSize
    BY <1>0, <2>1 DEF Spots
  <2>3. QED BY <2>1, <2>2 DEF Put
<1>4. /\ ring'.entries = [k \in Spots |-> ring'.entries[k]]
      /\ ring'.entries[n] = rec
      /\ \A k \in Spots \ {n} : ring'.entries[k] = ring.entries[k]
  BY <1>0, <1>3 DEF RingInv, RingShape
<1>5. RingShape'
  <2>1. ring'.next \in Spots
    BY <1>0, <1>3 DEF Spots
  <2>2. \E T : log' \in Seq(T)
    BY <1>2
  <2>3. QED BY <1>4, <2>1, <2>2 DEF RingShape, Spots
<1>6. HowMany'
  <2>1. HowMany
    BY DEF RingInv
  <2>2. CASE ring.full
    BY <1>0, <1>2, <1>3, <2>1, <2>2 DEF HowMany
  <2>3. CASE ~ring.full
    BY <1>0, <1>2, <1>3, <2>1, <2>3 DEF HowMany
  <2>4. QED BY <2>2, <2>3
<1>7. ASSUME NEW i \in 1 .. RingSize, i <= Len(log')
      PROVE  ring'.entries[Slot(ring'.next, i)] = log'[Len(log') + 1 - i]
  <2>1. CASE i = 1
    <3>1. Slot(ring'.next, i) = n
      BY <1>0, <1>3, <2>1 DEF Slot, Spots
    <3>2. QED BY <1>2, <1>4, <2>1, <3>1
  <2>2. CASE i # 1
    <3>1. i - 1 \in 1 .. RingSize /\ i - 1 < RingSize /\ i - 1 <= Len(log)
      BY <1>0, <1>2, <1>7, <2>2
    <3>2. Slot(ring'.next, i) = Slot(n, i - 1) /\ Slot(n, i - 1) \in Spots \ {n}
      BY <1>0, <1>3, <3>1, SlotShifts
    <3>3. ring.entries[Slot(n, i - 1)] = log[Len(log) + 1 - (i - 1)]
      BY <3>1 DEF RingInv, WhereTheyAre
    <3>4. Len(log) + 1 - (i - 1) = Len(log') + 1 - i
            /\ Len(log) + 1 - (i - 1) \in 1 .. Len(log)
      BY <1>2, <3>1
    <3>5. QED BY <1>2, <1>4, <3>2, <3>3, <3>4
  <2>3. QED BY <2>1, <2>2
<1>8. QED
  BY <1>5, <1>6, <1>7 DEF RingInv, WhereTheyAre

LEMMA EmptyKeeps == ASSUME log' = <<>>, ring' = EmptyRing PROVE RingInv'
<1>1. ring'.next = 0 /\ ~ring'.full /\ ring'.entries = [k \in Spots |-> None]
  BY DEF EmptyRing, Spots
<1>2. log' \in Seq({}) /\ Len(log') = 0
  OBVIOUS
<1>3. RingShape'
  BY <1>1, <1>2, DispatchAssumption DEF RingShape, Spots
<1>4. HowMany'
  BY <1>1, <1>2 DEF HowMany
<1>5. WhereTheyAre'
  BY <1>2 DEF WhereTheyAre
<1>6. QED BY <1>3, <1>4, <1>5 DEF RingInv

LEMMA EmptyHolds == ASSUME log = <<>>, ring = EmptyRing PROVE RingInv
<1>1. ring.next = 0 /\ ~ring.full /\ ring.entries = [k \in Spots |-> None]
  BY DEF EmptyRing, Spots
<1>2. log \in Seq({}) /\ Len(log) = 0
  OBVIOUS
<1>3. QED
  BY <1>1, <1>2, DispatchAssumption
  DEF RingInv, RingShape, HowMany, WhereTheyAre, Spots

LEMMA NothingRecorded ==
  ASSUME RingInv, UNCHANGED <<log, ring>>
  PROVE  RingInv'
BY DEF RingInv, RingShape, HowMany, WhereTheyAre, Slot

(* Only Record writes the ring, and only a start empties it.               *)
LEMMA RingNext == RingInv /\ RelayInv /\ [Next]_vars => RingInv'
<1> SUFFICES ASSUME RingInv, RelayInv, [Next]_vars PROVE RingInv'
  OBVIOUS
<1>1. CASE UNCHANGED dispatchVars \/ Crash
  BY <1>1, NothingRecorded DEF Crash, dispatchVars
<1>2. CASE Start
  BY <1>2, EmptyKeeps DEF Start
<1>3. ASSUME NEW r \in Request, Handles(r) PROVE RingInv'
  <2>1. CASE Record(r)
    BY <2>1, PutKeeps DEF Record
  <2>2. CASE CallFails(r) \/ SaveFails(r) \/ Decline(r) \/ Answer(r)
    BY <2>2, NothingRecorded DEF CallFails, SaveFails, Decline, Answer, recordVars
  <2>3. CASE StartRule(r) \/ ScriptEnds(r) \/ TakeOutput(r) \/ Interrupt(r) \/ Reap(r) \/ Kill(r)
    BY <2>3, NothingRecorded
    DEF StartRule, ScriptEnds, TakeOutput, Interrupt, Reap, Kill, recordVars
  <2>4. CASE Forward(r) \/ Return(r) \/ PostDone(r)
    BY <2>4, NothingRecorded DEF Forward, Return, PostDone, recordVars
  <2>5. CASE Count(r) \/ SaveTmp(r) \/ Rename(r)
    BY <2>5, NothingRecorded DEF Count, Counted, SaveTmp, Rename
  <2>6. CASE \E s \in Session : Begins(r, s)
    BY <2>6, NothingRecorded DEF Begins, Begin, recordVars
  <2>7. QED BY <1>3, <2>1, <2>2, <2>3, <2>4, <2>5, <2>6 DEF Handles, Step
<1>4. QED BY <1>1, <1>2, <1>3, NextIs

----------------------------------------------------------------------------
(* What recent copies, before the limit: all that the ring holds, newest   *)
(* first.                                                                  *)
Part(entries, from, to) == [i \in 1 .. to - from |-> entries[from + i - 1]]

Oldest ==
  IF ring.full
    THEN Part(ring.entries, ring.next, RingSize) \o Part(ring.entries, 0, ring.next)
    ELSE Part(ring.entries, 0, ring.next)

Newest == Reversed(Oldest)

Held == {ring.entries[k] : k \in Spots}

Size == IF ring.full THEN RingSize ELSE ring.next

LEMMA ConcatIs ==
  ASSUME NEW V, NEW s \in Seq(V), NEW t \in Seq(V)
  PROVE  /\ s \o t \in Seq(V) /\ Len(s \o t) = Len(s) + Len(t)
         /\ \A j \in 1 .. Len(s) : (s \o t)[j] = s[j]
         /\ \A j \in 1 .. Len(t) : (s \o t)[Len(s) + j] = t[j]
OBVIOUS

LEMMA OldestIs ==
  ASSUME RingShape
  PROVE  /\ Oldest \in Seq(Held)
         /\ Len(Oldest) = Size /\ Size \in Nat
         /\ \A i \in 1 .. Size : Oldest[Size + 1 - i] = ring.entries[Slot(ring.next, i)]
<1> DEFINE n == ring.next
           A == Part(ring.entries, n, RingSize)
           B == Part(ring.entries, 0, n)
<1>0. /\ RingSize \in Nat \ {0} /\ n \in Nat /\ n < RingSize
      /\ \A k \in 0 .. RingSize - 1 : ring.entries[k] \in Held
  BY DispatchAssumption DEF RingShape, Spots, Held
<1>1. A \in Seq(Held) /\ Len(A) = RingSize - n
        /\ \A i \in 1 .. RingSize - n : A[i] = ring.entries[n + i - 1]
  <2>1. RingSize - n \in Nat /\ \A i \in 1 .. RingSize - n : ring.entries[n + i - 1] \in Held
    BY <1>0
  <2>2. QED BY <2>1 DEF Part
<1>2. B \in Seq(Held) /\ Len(B) = n /\ \A i \in 1 .. n : B[i] = ring.entries[i - 1]
  <2>1. n - 0 = n /\ \A i \in 1 .. n : 0 + i - 1 = i - 1 /\ ring.entries[i - 1] \in Held
    BY <1>0
  <2>2. B = [i \in 1 .. n |-> ring.entries[i - 1]]
    BY <2>1 DEF Part
  <2>3. QED BY SMTT(30), <1>0, <2>1, <2>2
<1> HIDE DEF A, B
<1>3. CASE ring.full
  <2>1. Oldest = A \o B /\ Size = RingSize
    BY <1>3 DEF Oldest, Size, A, B
  <2>2. Oldest \in Seq(Held) /\ Len(Oldest) = RingSize
    BY SMTT(30), <1>0, <1>1, <1>2, <2>1 DEF Spots
  <2>3. ASSUME NEW i \in 1 .. RingSize
        PROVE  Oldest[RingSize + 1 - i] = ring.entries[Slot(ring.next, i)]
    <3>0. PICK j \in 1 .. RingSize : j = RingSize + 1 - i
      BY <1>0
    <3>1. CASE i <= n
      <4>1. PICK k \in 1 .. n : j = (RingSize - n) + k /\ k - 1 = n - i
        <5>1. j - (RingSize - n) \in 1 .. n /\ j = (RingSize - n) + (j - (RingSize - n))
                /\ j - (RingSize - n) - 1 = n - i
          BY <1>0, <3>0, <3>1
        <5>2. QED BY <5>1
      <4>2. Oldest[j] = B[k]
        <5>1. (A \o B)[Len(A) + k] = B[k]
          BY SMTT(30), <1>1, <1>2, ConcatIs
        <5>2. QED BY <1>1, <2>1, <4>1, <5>1
      <4>3. Slot(n, i) = n - i
        BY <3>1 DEF Slot
      <4>4. QED BY <1>2, <3>0, <4>1, <4>2, <4>3
    <3>2. CASE i > n
      <4>1. j \in 1 .. RingSize - n /\ n + j - 1 = n - i + RingSize
        BY <1>0, <3>0, <3>2
      <4>2. Oldest[j] = A[j]
        BY <1>1, <1>2, <2>1, <4>1, ConcatIs
      <4>3. Slot(n, i) = n - i + RingSize
        BY <1>0, <3>2 DEF Slot
      <4>4. QED BY <1>1, <3>0, <4>1, <4>2, <4>3
    <3>3. QED BY <1>0, <3>1, <3>2
  <2>4. QED BY <1>0, <2>1, <2>2, <2>3
<1>4. CASE ~ring.full
  <2>1. Oldest = B /\ Size = n
    BY <1>4 DEF Oldest, Size, B
  <2>2. \A i \in 1 .. n : n + 1 - i \in 1 .. n /\ n + 1 - i - 1 = n - i /\ Slot(n, i) = n - i
    BY <1>0 DEF Slot
  <2>3. \A i \in 1 .. n : Oldest[n + 1 - i] = ring.entries[Slot(ring.next, i)]
    <3>1. ASSUME NEW i \in 1 .. n PROVE B[n + 1 - i] = ring.entries[n - i]
      <4>1. n + 1 - i \in 1 .. n /\ (n + 1 - i) - 1 = n - i
        BY <1>0
      <4>2. B[n + 1 - i] = ring.entries[(n + 1 - i) - 1]
        BY <1>2, <4>1
      <4>3. QED BY <4>1, <4>2
    <3>2. QED BY <2>1, <2>2, <3>1
  <2>4. QED BY <1>0, <1>2, <2>1, <2>3
<1>5. QED BY <1>3, <1>4

LEMMA NewestIs ==
  ASSUME RingInv
  PROVE  /\ Newest \in Seq(Held)
         /\ Len(Newest) = Size /\ Size \in Nat
         /\ Size <= Len(log) /\ Size <= RingSize
         /\ Len(log) <= Size \/ RingSize <= Size
         /\ \A i \in 1 .. Size : Newest[i] = log[Len(log) + 1 - i]
<1>0. RingSize \in Nat \ {0} /\ ring.next \in Spots /\ Len(log) \in Nat
  BY DispatchAssumption DEF RingInv, RingShape
<1>1. /\ Oldest \in Seq(Held) /\ Len(Oldest) = Size /\ Size \in Nat
      /\ \A i \in 1 .. Size : Oldest[Size + 1 - i] = ring.entries[Slot(ring.next, i)]
  BY OldestIs DEF RingInv
<1>2. Size <= Len(log) /\ Size <= RingSize /\ (Len(log) <= Size \/ RingSize <= Size)
  BY <1>0 DEF RingInv, RingShape, HowMany, Size, Spots
<1>3. /\ Newest = [i \in 1 .. Size |-> Oldest[Size + 1 - i]]
      /\ \A i \in 1 .. Size : Oldest[Size + 1 - i] \in Held
  BY <1>1 DEF Newest, Reversed
<1>4. Newest \in Seq(Held) /\ Len(Newest) = Size
  BY <1>1, <1>3
<1>5. ASSUME NEW i \in 1 .. Size
      PROVE  Newest[i] = log[Len(log) + 1 - i]
  <2>1. i \in 1 .. RingSize /\ i <= Len(log)
    BY <1>0, <1>1, <1>2
  <2>2. ring.entries[Slot(ring.next, i)] = log[Len(log) + 1 - i]
    BY <2>1 DEF RingInv, WhereTheyAre
  <2>3. QED BY <1>1, <1>3, <2>2
<1>6. QED BY <1>1, <1>2, <1>4, <1>5

LEMMA RecentIs ==
  ASSUME NEW limit \in Nat
  PROVE  Recent(limit) = IF limit > 0 /\ limit < Len(Newest)
                           THEN SubSeq(Newest, 1, limit) ELSE Newest
BY DEF Recent, Newest, Oldest, Part

LEMMA RecentHolds == RingInv => RecentIsLatest
<1> SUFFICES ASSUME RingInv, NEW limit \in 0 .. RingSize + 1
             PROVE  LET bounds == {Len(log), RingSize} \cup ({limit} \ {0})
                        size == CHOOSE n \in bounds : \A m \in bounds : n <= m
                    IN  /\ Len(Recent(limit)) = size
                        /\ \A i \in 1 .. size : Recent(limit)[i] = log[Len(log) + 1 - i]
  BY DEF RecentIsLatest
<1> DEFINE bounds == {Len(log), RingSize} \cup ({limit} \ {0})
           size == CHOOSE n \in bounds : \A m \in bounds : n <= m
           least == IF limit > 0 /\ limit < Size THEN limit ELSE Size
<1>0. limit \in Nat /\ RingSize \in Nat \ {0} /\ Len(log) \in Nat
  BY DispatchAssumption DEF RingInv, RingShape
<1>1. /\ Newest \in Seq(Held)
      /\ Len(Newest) = Size /\ Size \in Nat
      /\ Size <= Len(log) /\ Size <= RingSize
      /\ Len(log) <= Size \/ RingSize <= Size
      /\ \A i \in 1 .. Size : Newest[i] = log[Len(log) + 1 - i]
  BY NewestIs
<1>2. size = least
  <2>1. least \in bounds /\ \A m \in bounds : least <= m
    BY <1>0, <1>1
  <2>2. size \in bounds /\ \A m \in bounds : size <= m
    BY <2>1
  <2>3. size <= least /\ least <= size /\ least \in Nat /\ size \in Nat
    BY <1>0, <1>1, <2>1, <2>2
  <2>4. QED BY <2>3
<1>3. /\ Len(Recent(limit)) = least
      /\ \A i \in 1 .. least : Recent(limit)[i] = log[Len(log) + 1 - i]
  <2>1. CASE limit > 0 /\ limit < Size
    <3>1. Recent(limit) = SubSeq(Newest, 1, limit)
      BY <1>0, <1>1, <2>1, RecentIs
    <3>2. QED BY <1>0, <1>1, <2>1, <3>1
  <2>2. CASE ~(limit > 0 /\ limit < Size)
    <3>1. Recent(limit) = Newest
      BY <1>0, <1>1, <2>2, RecentIs
    <3>2. QED BY <1>1, <2>2, <3>1
  <2>3. QED BY <2>1, <2>2
<1>4. QED BY <1>2, <1>3

(* For a ring of any size, any limit and any number of calls, restarts of  *)
(* the daemon included, the recent calls are the latest ones, newest first.*)
THEOREM RecentCallsAreLatest == Spec => []RecentIsLatest
<1>1. Init => RingInv
  BY EmptyHolds DEF Init, DispatchInit
<1>2. QED BY <1>1, RingNext, RecentHolds, RelInit, RelNext, PTL DEF Spec

-----------------------------------------------------------------------------
(* Where the rules that apply stand in the file.                           *)
Urgency(rule) == IF rule.priority = 0 THEN 100 ELSE rule.priority

DueAt(rules, hook, entry) ==
  {i \in DOMAIN rules : hook \in rules[i].hooks /\ AppliesTo(rules[i], entry)}

Places(due, rules, hook, entry, place) ==
  /\ due \in Seq(Rule)
  /\ Len(due) = Cardinality(DueAt(rules, hook, entry))
  /\ \A k \in 1 .. Len(due) :
       place[k] \in DueAt(rules, hook, entry) /\ due[k] = rules[place[k]]
  /\ \A i \in DueAt(rules, hook, entry) : \E k \in 1 .. Len(due) : place[k] = i
  /\ \A k, l \in 1 .. Len(due) : k < l =>
       \/ Urgency(due[k]) < Urgency(due[l])
       \/ Urgency(due[k]) = Urgency(due[l]) /\ place[k] < place[l]

LEMMA UrgencyIs ==
  ASSUME NEW rule \in Rule
  PROVE  EffectivePriority(rule) = Urgency(rule) /\ Urgency(rule) \in Int
<1>1. rule.priority \in Int
  BY DEF Rule
<1>2. QED BY <1>1 DEF EffectivePriority, Urgency, DefaultRulePriority

(* The rules of a hook are run in the order of their priorities, and of the*)
(* file where those are equal.                                             *)
LEMMA ApplicableIs ==
  ASSUME NEW rules \in Seq(Rule), NEW hook, NEW entry
  PROVE  \E place : Places(Applicable(rules, hook, entry), rules, hook, entry, place)
<1> DEFINE T == {r \in Rule : hook \in r.hooks /\ AppliesTo(r, entry)}
           here == DueAt(rules, hook, entry)
<1>1. Where(rules, T) = here
  <2>1. \A i \in DOMAIN rules : rules[i] \in Rule
    OBVIOUS
  <2>2. QED BY <2>1 DEF Where, DueAt
<1>2. Applicable(rules, hook, entry) =
        StableSort(Only(rules, T), [i \in DOMAIN Only(rules, T) |->
                                      EffectivePriority(Only(rules, T)[i])])
  BY DEF Applicable
<1> HIDE DEF T, here
<1>3. PICK some : some = Only(rules, T)
  OBVIOUS
<1>4. PICK at : /\ some \in Seq(Rule) /\ Len(some) = Cardinality(here)
                /\ \A k \in DOMAIN some : at[k] \in here /\ some[k] = rules[at[k]]
                /\ \A i \in here : \E k \in DOMAIN some : at[k] = i
                /\ \A k, l \in DOMAIN some : k < l <=> at[k] < at[l]
  BY <1>1, <1>3, OnlyPicks
<1>5. PICK n : n = Len(some)
  OBVIOUS
<1>6. n \in Nat /\ DOMAIN some = 1 .. n /\ \A k \in 1 .. n : some[k] \in Rule
  BY <1>4, <1>5
<1>7. PICK key : key = [i \in DOMAIN some |-> EffectivePriority(some[i])]
  OBVIOUS
<1>8. \A i \in 1 .. n : key[i] = Urgency(some[i]) /\ key[i] \in Int
  BY <1>6, <1>7, UrgencyIs
<1>9. key \in [DOMAIN some -> Int]
  BY <1>6, <1>7, <1>8
<1>10. PICK due : due = StableSort(some, key)
  OBVIOUS
<1>11. due \in Seq(Rule) /\ \E sorting : Sorted(due, some, key, sorting)
  BY <1>4, <1>9, <1>10, SortPicks
<1>12. PICK sorting : Sorted(due, some, key, sorting)
  BY <1>11
<1>13. due = Applicable(rules, hook, entry)
  BY <1>2, <1>3, <1>7, <1>10
<1>14. PICK place : place = [k \in 1 .. n |-> at[sorting[k]]]
  OBVIOUS
<1>15. \A k \in 1 .. n : /\ sorting[k] \in 1 .. n /\ due[k] = some[sorting[k]]
                         /\ place[k] = at[sorting[k]]
  BY <1>5, <1>12, <1>14 DEF Sorted
<1>16. /\ \A k \in 1 .. n : at[k] \in here /\ some[k] = rules[at[k]]
       /\ \A i \in here : \E k \in 1 .. n : at[k] = i
       /\ \A k, l \in 1 .. n : k < l <=> at[k] < at[l]
  BY <1>4, <1>6
<1>17. \A k \in 1 .. n : place[k] \in here /\ due[k] = rules[place[k]]
  BY <1>15, <1>16
<1>18. \A i \in 1 .. n : \E k \in 1 .. n : sorting[k] = i
  BY <1>5, <1>12 DEF Sorted
<1>19. ASSUME NEW i \in here
       PROVE  \E k \in 1 .. n : place[k] = i
  <2>1. PICK l \in 1 .. n : at[l] = i
    BY <1>16
  <2>2. PICK k \in 1 .. n : sorting[k] = l
    BY <1>18, <2>1
  <2>3. place[k] = i
    BY <1>15, <2>1, <2>2
  <2>4. QED BY <2>3
<1>20. \A k \in 1 .. n : key[sorting[k]] = Urgency(due[k])
  BY <1>8, <1>15
<1>21. ASSUME NEW k \in 1 .. n, NEW l \in 1 .. n, k < l
       PROVE  \/ Urgency(due[k]) < Urgency(due[l])
              \/ Urgency(due[k]) = Urgency(due[l]) /\ place[k] < place[l]
  <2>1. \/ key[sorting[k]] < key[sorting[l]]
        \/ key[sorting[k]] = key[sorting[l]] /\ sorting[k] < sorting[l]
    BY <1>5, <1>12, <1>21 DEF Sorted
  <2>2. sorting[k] < sorting[l] => place[k] < place[l]
    BY <1>15, <1>16
  <2>3. key[sorting[k]] = Urgency(due[k]) /\ key[sorting[l]] = Urgency(due[l])
    BY <1>20
  <2>4. QED BY <2>1, <2>2, <2>3
<1>22. due \in Seq(Rule) /\ Len(due) = n /\ n = Cardinality(here)
  BY <1>4, <1>5, <1>11, <1>12 DEF Sorted
<1>23. Places(due, rules, hook, entry, place)
  BY <1>17, <1>19, <1>21, <1>22 DEF Places, here
<1>24. QED BY <1>13, <1>23

----------------------------------------------------------------------------
(* What has been run of a hook.                                            *)
Due(q) == Applicable(q.rules, q.hook, q.entry)

Passed(f) ==
  \/ f.verdict \in {"continue", "rewrite"}
  \/ f.verdict = "fail" /\ f.rule.onError = "skip"

NamesOf(s) == [k \in DOMAIN s |-> s[k].rule.name]

(* n rules are through, and the others wait in their order.                *)
Queued(q, n) ==
  /\ q.rules \in Seq(Rule) /\ Unique(q.rules)
  /\ q.fired \in Seq(Firing) /\ q.todo \in Seq(Rule)
  /\ n \in Nat /\ Len(Due(q)) = n + Len(q.todo)
  /\ \A k \in 1 .. Len(q.todo) : q.todo[k] = Due(q)[n + k]
  /\ \A k \in DOMAIN q.fired : q.fired[k].rule = Due(q)[k]
  /\ \A k \in 1 .. n : Passed(q.fired[k])
  /\ q.value = NamesOf(Rewriters(q.fired))

Through(q, hook) == q.hook = hook /\ q.todo = <<>> /\ Queued(q, Len(q.fired))

Running(q) ==
  /\ q.todo # <<>> /\ q.fired # <<>>
  /\ q.fired[Len(q.fired)].verdict = "none"
  /\ Queued(q, Len(q.fired) - 1)

Orderly(q) ==
  /\ q.at = "idle" => q.hook = "pre" /\ q.fired = <<>> /\ q.value = <<>>
  /\ q.at = "hook" => Queued(q, Len(q.fired))
  /\ q.at \in {"script", "reap"} => Running(q)
  /\ q.at = "call" => Through(q, "pre")
  /\ q.at \in {"record", "count", "save", "rename", "answer"} /\ q.outcome = "result"
       => Through(q, "post")

LEMMA NamesAppend ==
  ASSUME NEW s \in Seq(Firing), NEW f \in Firing
  PROVE  NamesOf(Append(s, f)) = Append(NamesOf(s), f.rule.name)
<1>1. PICK t : t = Append(s, f)
  OBVIOUS
<1>2. /\ t \in Seq(Firing) /\ Len(t) = Len(s) + 1 /\ Len(s) \in Nat
      /\ DOMAIN t = 1 .. Len(s) + 1 /\ DOMAIN s = 1 .. Len(s)
      /\ \A k \in 1 .. Len(s) : t[k] = s[k]
      /\ t[Len(s) + 1] = f
  BY <1>1, AppendIs
<1>3. PICK a : a = NamesOf(s)
  OBVIOUS
<1>4. a \in Seq(STRING) /\ Len(a) = Len(s) /\ \A k \in 1 .. Len(s) : a[k] = s[k].rule.name
  <2>1. \A g \in Firing : g.rule.name \in STRING
    BY DEF Firing, Rule
  <2>2. a = [k \in 1 .. Len(s) |-> s[k].rule.name]
    BY <1>2, <1>3 DEF NamesOf
  <2>3. \A k \in 1 .. Len(s) : s[k] \in Firing
    BY <1>2
  <2>4. QED BY <1>2, <2>1, <2>2, <2>3
<1>5. f.rule.name \in STRING
  BY DEF Firing, Rule
<1>6. NamesOf(t) = [k \in 1 .. Len(s) + 1 |-> t[k].rule.name]
  BY <1>2 DEF NamesOf
<1>7. Append(a, f.rule.name) = [k \in 1 .. Len(s) + 1 |-> t[k].rule.name]
  BY <1>2, <1>4, <1>5
<1>8. QED BY <1>1, <1>3, <1>6, <1>7

LEMMA RewritersAppend ==
  ASSUME NEW s \in Seq(Firing), NEW f \in Firing
  PROVE  /\ Rewriters(s) \in Seq(Firing)
         /\ Rewriters(Append(s, f)) =
              IF f.verdict = "rewrite" THEN Append(Rewriters(s), f) ELSE Rewriters(s)
<1> DEFINE T == {g \in Firing : g.verdict = "rewrite"}
<1>1. f \in T <=> f.verdict = "rewrite"
  OBVIOUS
<1>2. Only(Append(s, f), T) = IF f \in T THEN Append(Only(s, T), f) ELSE Only(s, T)
  BY OnlyAppend
<1>3. Only(s, T) \in Seq(Firing)
  BY OnlyIs
<1>4. Rewriters(s) = Only(s, T) /\ Rewriters(Append(s, f)) = Only(Append(s, f), T)
  BY DEF Rewriters
<1> HIDE DEF T
<1>5. QED BY <1>1, <1>2, <1>3, <1>4

(* The rule that runs counts for nothing until its script has ended.       *)
LEMMA ValueWaits ==
  ASSUME NEW s \in Seq(Firing), NEW rule \in Rule
  PROVE  LET f == [rule |-> rule, verdict |-> "none"]
         IN  f \in Firing /\ Rewriters(Append(s, f)) = Rewriters(s)
<1> DEFINE f == [rule |-> rule, verdict |-> "none"]
<1>1. f \in Firing /\ f.verdict # "rewrite"
  BY DEF Firing
<1> HIDE DEF f
<1>2. Rewriters(Append(s, f)) = Rewriters(s)
  BY <1>1, RewritersAppend
<1>3. QED BY <1>1, <1>2 DEF f

LEMMA LastVerdict ==
  ASSUME NEW s \in Seq(Firing), NEW t \in Seq(Firing), s # <<>>, Len(t) = Len(s),
         \A k \in 1 .. Len(s) - 1 : t[k] = s[k],
         t[Len(s)].rule = s[Len(s)].rule, s[Len(s)].verdict = "none"
  PROVE  NamesOf(Rewriters(t)) =
           IF t[Len(s)].verdict = "rewrite"
             THEN Append(NamesOf(Rewriters(s)), s[Len(s)].rule.name)
             ELSE NamesOf(Rewriters(s))
<1>1. PICK n : n = Len(s)
  OBVIOUS
<1>2. n \in Nat \ {0} /\ \A k \in 1 .. n : s[k] \in Firing /\ t[k] \in Firing
  BY <1>1
<1>3. PICK last, new : last = s[n] /\ new = t[n]
  OBVIOUS
<1>4. /\ last \in Firing /\ last.verdict = "none"
      /\ new \in Firing /\ new.rule = last.rule
  BY <1>1, <1>2, <1>3
<1>5. PICK front : front = [k \in 1 .. n - 1 |-> s[k]]
  OBVIOUS
<1>6. front \in Seq(Firing) /\ Len(front) = n - 1 /\ \A k \in 1 .. n - 1 : front[k] = s[k]
  BY <1>2, <1>5
<1>7. s = Append(front, last)
  <2>1. PICK u : u = Append(front, last)
    OBVIOUS
  <2>2. u \in Seq(Firing) /\ Len(u) = n /\ \A k \in 1 .. n : u[k] = s[k]
    BY <1>2, <1>3, <1>4, <1>6, <2>1
  <2>3. QED BY <1>1, <2>1, <2>2, SameSequence
<1>8. t = Append(front, new)
  <2>1. PICK u : u = Append(front, new)
    OBVIOUS
  <2>2. /\ u \in Seq(Firing) /\ Len(u) = n /\ u[n] = new
        /\ \A k \in 1 .. n - 1 : u[k] = s[k]
    BY <1>2, <1>4, <1>6, <2>1
  <2>3. \A k \in 1 .. n : u[k] = t[k]
    BY <1>1, <1>2, <1>3, <2>2
  <2>4. QED BY <1>1, <2>1, <2>2, <2>3, SameSequence
<1>9. PICK before : before = Rewriters(front)
  OBVIOUS
<1>10. /\ before \in Seq(Firing) /\ Rewriters(s) = before
       /\ Rewriters(t) = IF new.verdict = "rewrite" THEN Append(before, new) ELSE before
  <2>1. Rewriters(Append(front, last)) = before /\ before \in Seq(Firing)
    BY <1>4, <1>6, <1>9, RewritersAppend
  <2>2. Rewriters(Append(front, new)) =
          IF new.verdict = "rewrite" THEN Append(before, new) ELSE before
    BY <1>4, <1>6, <1>9, RewritersAppend
  <2>3. QED BY <1>7, <1>8, <2>1, <2>2
<1>11. NamesOf(Append(before, new)) = Append(NamesOf(before), last.rule.name)
  BY <1>4, <1>10, NamesAppend
<1>12. QED BY <1>1, <1>3, <1>10, <1>11

SameHook(q, p) ==
  /\ p.rules = q.rules /\ p.entry = q.entry /\ p.hook = q.hook
  /\ p.todo = q.todo /\ p.fired = q.fired /\ p.value = q.value

LEMMA QueuedStays ==
  ASSUME NEW q, NEW p, SameHook(q, p)
  PROVE  /\ Queued(q, Len(q.fired)) => Queued(p, Len(p.fired))
         /\ Running(q) => Running(p)
         /\ \A hook : Through(q, hook) => Through(p, hook)
<1>1. \A n : Queued(q, n) => Queued(p, n)
  BY DEF SameHook, Queued, Due
<1>2. QED BY <1>1 DEF SameHook, Running, Through

LEMMA DueIs ==
  ASSUME NEW q, q.rules \in Seq(Rule)
  PROVE  Due(q) \in Seq(Rule)
BY ApplicableIs DEF Due, Places

LEMMA HookBegins ==
  ASSUME NEW q, q.rules \in Seq(Rule), Unique(q.rules), q.fired = <<>>, q.value = <<>>,
         q.todo = Due(q)
  PROVE  Queued(q, Len(q.fired))
<1>1. PICK due : due = Due(q) /\ due \in Seq(Rule)
  BY DueIs
<1>2. Len(due) \in Nat /\ Len(due) = 0 + Len(due) /\ \A k \in 1 .. Len(due) : 0 + k = k
  BY <1>1
<1>3. NamesOf(Rewriters(q.fired)) = <<>>
  <2>1. PICK none : none = <<>>
    OBVIOUS
  <2>2. none \in Seq(Firing) /\ DOMAIN none = {}
    BY <2>1
  <2>3. \A T : Where(none, T) = {}
    BY <2>2 DEF Where
  <2>4. Rewriters(none) \in Seq(Firing) /\ Len(Rewriters(none)) = 0
    BY <2>2, <2>3, OnlyIs, FS_EmptySet DEF Rewriters
  <2>5. Rewriters(none) = <<>>
    BY <2>4
  <2>6. NamesOf(<<>>) = <<>>
    BY DEF NamesOf
  <2>7. QED BY <2>1, <2>5, <2>6
<1>4. Len(q.fired) = 0 /\ DOMAIN q.fired = {} /\ q.fired \in Seq(Firing)
  OBVIOUS
<1>5. QED BY <1>1, <1>2, <1>3, <1>4 DEF Queued

LEMMA RuleStarts ==
  ASSUME NEW q, Queued(q, Len(q.fired)), q.todo # <<>>, NEW p,
         p.rules = q.rules, p.entry = q.entry, p.hook = q.hook,
         p.todo = q.todo, p.value = q.value,
         p.fired = Append(q.fired, [rule |-> Head(q.todo), verdict |-> "none"])
  PROVE  Running(p)
<1>1. PICK fired, todo, due, rule, n :
        fired = q.fired /\ todo = q.todo /\ due = Due(q) /\ rule = Head(todo) /\ n = Len(fired)
  OBVIOUS
<1>2. /\ q.rules \in Seq(Rule) /\ Unique(q.rules)
      /\ fired \in Seq(Firing) /\ todo \in Seq(Rule) /\ todo # <<>>
      /\ n \in Nat /\ Len(due) = n + Len(todo)
      /\ \A k \in 1 .. Len(todo) : todo[k] = due[n + k]
      /\ \A k \in DOMAIN fired : fired[k].rule = due[k]
      /\ \A k \in 1 .. n : Passed(fired[k])
      /\ q.value = NamesOf(Rewriters(fired))
  BY <1>1 DEF Queued
<1>3. rule \in Rule /\ rule = todo[1] /\ 1 \in 1 .. Len(todo)
  BY <1>1, <1>2
<1>4. PICK f : f = [rule |-> rule, verdict |-> "none"]
  OBVIOUS
<1>5. f \in Firing /\ Rewriters(Append(fired, f)) = Rewriters(fired)
  BY <1>2, <1>3, <1>4, ValueWaits
<1>6. PICK new : new = Append(fired, f)
  OBVIOUS
<1>7. /\ new \in Seq(Firing) /\ Len(new) = n + 1 /\ DOMAIN new = 1 .. n + 1
      /\ DOMAIN fired = 1 .. n
      /\ \A k \in 1 .. n : new[k] = fired[k]
      /\ new[n + 1] = f
  BY <1>1, <1>2, <1>5, <1>6
<1>8. p.fired = new /\ p.todo = todo /\ p.rules = q.rules /\ Due(p) = due
      /\ p.value = NamesOf(Rewriters(new))
  BY <1>1, <1>2, <1>4, <1>5, <1>6 DEF Due
<1>9. \A k \in 1 .. n + 1 : new[k].rule = due[k]
  <2>1. due[n + 1] = rule
    BY <1>2, <1>3
  <2>2. \A k \in 1 .. n : new[k].rule = due[k]
    BY <1>2, <1>7
  <2>3. QED BY <1>2, <1>4, <1>7, <2>1, <2>2
<1>10. \A k \in 1 .. n : Passed(new[k])
  BY <1>2, <1>7
<1>11. Len(new) - 1 = n /\ new # <<>> /\ new[Len(new)].verdict = "none"
  BY <1>2, <1>4, <1>7
<1>12. Queued(p, n)
  BY <1>2, <1>7, <1>8, <1>9, <1>10 DEF Queued
<1>13. QED BY <1>2, <1>8, <1>11, <1>12 DEF Running

(* A rule that does not stop its hook has passed.                          *)
Stops(rule, out) == out = "reject" \/ (out = "fail" /\ OnErrorMode(rule) = "reject")

LEMMA HookGoesOn ==
  ASSUME NEW q, Running(q), NEW out \in Output, ~Stops(Head(q.todo), out), NEW p,
         p.rules = q.rules, p.entry = q.entry, p.hook = q.hook, p.todo = Tail(q.todo),
         p.fired = [q.fired EXCEPT ![Len(q.fired)].verdict = out],
         p.value = IF out = "rewrite" THEN Append(q.value, Head(q.todo).name) ELSE q.value
  PROVE  Queued(p, Len(p.fired))
<1>1. PICK fired, todo, due, rule, n :
        /\ fired = q.fired /\ todo = q.todo /\ due = Due(q) /\ rule = Head(todo)
        /\ n = Len(fired)
  OBVIOUS
<1>2. /\ q.rules \in Seq(Rule) /\ Unique(q.rules)
      /\ fired \in Seq(Firing) /\ todo \in Seq(Rule) /\ todo # <<>> /\ fired # <<>>
      /\ fired[n].verdict = "none"
      /\ n - 1 \in Nat /\ Len(due) = n - 1 + Len(todo)
      /\ \A k \in 1 .. Len(todo) : todo[k] = due[n - 1 + k]
      /\ \A k \in DOMAIN fired : fired[k].rule = due[k]
      /\ \A k \in 1 .. n - 1 : Passed(fired[k])
      /\ q.value = NamesOf(Rewriters(fired))
  BY <1>1 DEF Queued, Running
<1>3. n \in Nat /\ n # 0 /\ DOMAIN fired = 1 .. n
  BY <1>1, <1>2
<1>4. rule \in Rule /\ rule = todo[1] /\ 1 \in 1 .. Len(todo)
  BY <1>1, <1>2
<1>5. fired[n].rule = rule
  <2>1. due[n] = rule
    <3>1. n - 1 + 1 = n
      BY <1>3
    <3>2. todo[1] = due[n - 1 + 1]
      BY <1>2, <1>4
    <3>3. QED BY <1>4, <3>1, <3>2
  <2>2. QED BY <1>2, <1>3, <2>1
<1>6. PICK new : new = [fired EXCEPT ![Len(fired)].verdict = out]
  OBVIOUS
<1>7. /\ new \in Seq(Firing) /\ Len(new) = n
      /\ \A k \in 1 .. n - 1 : new[k] = fired[k]
      /\ new[n].rule = fired[n].rule /\ new[n].verdict = out
      /\ NamesOf(Rewriters(new)) =
           IF out = "rewrite" THEN Append(NamesOf(Rewriters(fired)), fired[n].rule.name)
           ELSE NamesOf(Rewriters(fired))
  <2>1. PICK last, judged : last = fired[n] /\ judged = [last EXCEPT !.verdict = out]
    OBVIOUS
  <2>2. last \in Firing
    BY <1>2, <1>3, <2>1
  <2>3. judged \in Firing /\ judged.rule = last.rule /\ judged.verdict = out
    BY <2>1, <2>2 DEF Firing
  <2>4. new = [k \in 1 .. n |-> IF k = n THEN judged ELSE fired[k]]
    BY <1>1, <1>3, <1>6, <2>1
  <2>5. /\ new \in Seq(Firing) /\ Len(new) = n /\ new[n] = judged
        /\ \A k \in 1 .. n - 1 : new[k] = fired[k]
    <3>1. \A k \in 1 .. n : fired[k] \in Firing
      BY <1>2, <1>3
    <3>2. QED BY <1>3, <2>3, <2>4, <3>1
  <2>6. NamesOf(Rewriters(new)) =
          IF new[Len(fired)].verdict = "rewrite"
            THEN Append(NamesOf(Rewriters(fired)), fired[Len(fired)].rule.name)
            ELSE NamesOf(Rewriters(fired))
    <3>1. /\ fired \in Seq(Firing) /\ new \in Seq(Firing) /\ fired # <<>> /\ Len(new) = Len(fired)
          /\ \A k \in 1 .. Len(fired) - 1 : new[k] = fired[k]
          /\ new[Len(fired)].rule = fired[Len(fired)].rule
          /\ fired[Len(fired)].verdict = "none"
      BY <1>1, <1>2, <2>1, <2>3, <2>5
    <3>2. QED BY <3>1, LastVerdict
  <2>7. QED BY <1>1, <2>1, <2>3, <2>5, <2>6
<1>8. Passed(new[n])
  <2>1. rule.onError \in {"", "reject", "skip"}
    BY <1>4 DEF Rule
  <2>2. ~Stops(rule, out)
    BY <1>1
  <2>3. QED BY <1>5, <1>7, <2>1, <2>2 DEF Stops, OnErrorMode, Passed, Output
<1>9. PICK rest : rest = Tail(todo)
  OBVIOUS
<1>10. rest \in Seq(Rule) /\ Len(rest) = Len(todo) - 1
       /\ \A k \in 1 .. Len(rest) : rest[k] = todo[k + 1]
  BY <1>2, <1>9
<1>11. Len(due) = n + Len(rest) /\ \A k \in 1 .. Len(rest) : rest[k] = due[n + k]
  <2>1. Len(todo) \in Nat
    BY <1>2
  <2>2. Len(due) = n + Len(rest)
    BY <1>2, <1>3, <1>10, <2>1
  <2>3. ASSUME NEW k \in 1 .. Len(rest) PROVE rest[k] = due[n + k]
    <3>1. k + 1 \in 1 .. Len(todo) /\ n - 1 + (k + 1) = n + k
      BY <1>3, <1>10, <2>1
    <3>2. todo[k + 1] = due[n - 1 + (k + 1)]
      BY <1>2, <3>1
    <3>3. QED BY <1>10, <3>1, <3>2
  <2>4. QED BY <2>2, <2>3
<1>12. /\ p.fired = new /\ p.todo = rest /\ p.rules = q.rules /\ Due(p) = due
       /\ p.value = NamesOf(Rewriters(new))
  <2>1. p.value = IF out = "rewrite" THEN Append(q.value, rule.name) ELSE q.value
    BY <1>1
  <2>2. QED BY <1>1, <1>2, <1>5, <1>6, <1>7, <1>9, <2>1 DEF Due
<1>13. \A k \in 1 .. n : new[k].rule = due[k] /\ Passed(new[k])
  <2>1. ASSUME NEW k \in 1 .. n - 1 PROVE new[k].rule = due[k] /\ Passed(new[k])
    <3>1. k \in DOMAIN fired /\ new[k] = fired[k]
      BY <1>3, <1>7
    <3>2. QED BY <1>2, <3>1
  <2>2. new[n].rule = due[n]
    <3>1. n \in DOMAIN fired
      BY <1>3
    <3>2. QED BY <1>2, <1>7, <3>1
  <2>3. QED BY <1>3, <1>8, <2>1, <2>2
<1>14. DOMAIN new = 1 .. n
  BY <1>7
<1>15. Queued(p, n)
  BY <1>2, <1>3, <1>7, <1>10, <1>11, <1>12, <1>13, <1>14 DEF Queued
<1>16. QED BY <1>7, <1>12, <1>15

(* What is through has been vetted.                                        *)
LEMMA ThroughIsVetted ==
  ASSUME NEW q, NEW hook, Through(q, hook)
  PROVE  Vetted(q, hook, q.fired, q.value)
<1>1. PICK fired, rules, due, n :
        fired = q.fired /\ rules = q.rules /\ due = Applicable(rules, hook, q.entry)
        /\ n = Len(fired)
  OBVIOUS
<1>2. due = Due(q) /\ Queued(q, n) /\ q.todo = <<>>
  BY <1>1 DEF Through, Due
<1>3. /\ rules \in Seq(Rule) /\ Unique(rules) /\ fired \in Seq(Firing)
      /\ n \in Nat /\ Len(due) = n + Len(q.todo)
      /\ \A k \in DOMAIN fired : fired[k].rule = due[k]
      /\ \A k \in 1 .. n : Passed(fired[k])
      /\ q.value = NamesOf(Rewriters(fired))
  BY <1>1, <1>2 DEF Queued
<1>4. Len(due) = n /\ DOMAIN fired = 1 .. n
  BY <1>1, <1>2, <1>3
<1>5. PICK place : Places(due, rules, hook, q.entry, place)
  BY <1>1, <1>3, ApplicableIs
<1> DEFINE here == DueAt(rules, hook, q.entry)
           Place(i) == CHOOSE j \in DOMAIN q.rules : q.rules[j] = q.fired[i].rule
<1>6. here = {i \in DOMAIN rules : hook \in rules[i].hooks /\ AppliesTo(rules[i], q.entry)}
  BY DEF DueAt
<1>7. /\ \A k \in 1 .. n : place[k] \in here /\ due[k] = rules[place[k]]
      /\ \A i \in here : \E k \in 1 .. n : place[k] = i
      /\ n = Cardinality(here)
      /\ \A k, l \in 1 .. n : k < l =>
           \/ Urgency(due[k]) < Urgency(due[l])
           \/ Urgency(due[k]) = Urgency(due[l]) /\ place[k] < place[l]
  BY <1>4, <1>5 DEF Places
<1>8. here \subseteq DOMAIN rules
  BY <1>6
<1>9. \A k \in 1 .. n : Place(k) = place[k] /\ rules[place[k]] = fired[k].rule
  <2>1. ASSUME NEW k \in 1 .. n PROVE Place(k) = place[k] /\ rules[place[k]] = fired[k].rule
    <3>1. place[k] \in DOMAIN rules /\ rules[place[k]] = fired[k].rule
      BY <1>3, <1>4, <1>7, <1>8
    <3>2. \A j \in DOMAIN rules : rules[j] = fired[k].rule => j = place[k]
      BY <1>3, <3>1 DEF Unique
    <3>3. \E j \in DOMAIN rules : rules[j] = fired[k].rule
      BY <3>1
    <3>4. Place(k) \in DOMAIN rules /\ rules[Place(k)] = fired[k].rule
      BY <1>1, <3>3
    <3>5. QED BY <3>1, <3>2, <3>4
  <2>2. QED BY <2>1
<1> HIDE DEF here, Place
<1>10. {Place(i) : i \in 1 .. n} = here
  BY <1>7, <1>9
<1>11. \A i, j \in 1 .. n : i < j =>
         \/ Urgency(rules[Place(i)]) < Urgency(rules[Place(j)])
         \/ Urgency(rules[Place(i)]) = Urgency(rules[Place(j)]) /\ Place(i) < Place(j)
  <2>1. \A k \in 1 .. n : due[k] = rules[Place(k)]
    BY <1>7, <1>9
  <2>2. QED BY <1>7, <1>9, <2>1
<1>12. q.value = [k \in DOMAIN Rewriters(fired) |-> Rewriters(fired)[k].rule.name]
  BY <1>3 DEF NamesOf
<1>13. \A i \in 1 .. n : \/ fired[i].verdict \in {"continue", "rewrite"}
                         \/ fired[i].verdict = "fail" /\ fired[i].rule.onError = "skip"
  BY <1>3 DEF Passed
<1>14. DOMAIN q.fired = 1 .. n /\ Len(q.fired) = n /\ rules = q.rules /\ fired = q.fired
  BY <1>1, <1>4
<1>15. {Place(i) : i \in DOMAIN q.fired} = here
  BY <1>10, <1>14
<1>16. \A i, j \in DOMAIN q.fired : i < j =>
         \/ Urgency(q.rules[Place(i)]) < Urgency(q.rules[Place(j)])
         \/ Urgency(q.rules[Place(i)]) = Urgency(q.rules[Place(j)]) /\ Place(i) < Place(j)
  BY <1>11, <1>14
<1>17. \A i \in DOMAIN q.fired :
         \/ q.fired[i].verdict \in {"continue", "rewrite"}
         \/ q.fired[i].verdict = "fail" /\ q.fired[i].rule.onError = "skip"
  BY <1>13, <1>14
<1>18. q.value = [k \in DOMAIN Rewriters(q.fired) |-> Rewriters(q.fired)[k].rule.name]
  BY <1>12, <1>14
<1>19. here = {i \in DOMAIN q.rules : hook \in q.rules[i].hooks /\ AppliesTo(q.rules[i], q.entry)}
  BY <1>6, <1>14
<1>20. Len(q.fired) = Cardinality(here)
  BY <1>7, <1>14
<1> USE DEF Place
<1>21. QED BY <1>15, <1>16, <1>17, <1>18, <1>19, <1>20 DEF Vetted, Urgency

AllOrderly == \A r \in Request : Orderly(req[r])

LEMMA OneOrderly ==
  ASSUME ReqShape, AllOrderly, NEW r \in Request, NEW q, req' = [req EXCEPT ![r] = q],
         Orderly(q)
  PROVE  AllOrderly'
BY DEF ReqShape, AllOrderly

(* A step of a request that runs no rule.                                  *)
LEMMA QuietOrderly ==
  ASSUME NEW p, Orderly(p), NEW q, SameHook(p, q), q.at # "idle",
         q.at = "hook" => p.at = "hook",
         q.at \in {"script", "reap"} => p.at \in {"script", "reap"},
         q.at = "call" => Through(p, "pre"),
         q.at \in {"record", "count", "save", "rename", "answer"} /\ q.outcome = "result"
           => Through(p, "post")
  PROVE  Orderly(q)
BY QueuedStays DEF Orderly

LEMMA OrderlySame ==
  ASSUME NEW p, Orderly(p), NEW q, SameHook(p, q), q.at = p.at, q.outcome = p.outcome
  PROVE  Orderly(q)
<1>1. CASE p.at = "idle"
  BY <1>1 DEF Orderly, SameHook
<1>2. CASE p.at # "idle"
  BY <1>2, QuietOrderly DEF Orderly
<1>3. QED BY <1>1, <1>2

LEMMA OrderlyForward ==
  ASSUME NEW p, Shaped(p), Orderly(p), p.at = "hook", p.hook = "pre", p.todo = <<>>
  PROVE  Orderly([p EXCEPT !.at = "call"])
<1> DEFINE q == [p EXCEPT !.at = "call"]
<1>1. SameHook(p, q) /\ q.at = "call"
  BY IdleFields DEF Shaped, SameHook
<1>2. Through(p, "pre")
  BY DEF Orderly, Through
<1> HIDE DEF q
<1>3. Orderly(q)
  BY <1>1, <1>2, QuietOrderly
<1>4. QED BY <1>3 DEF q

LEMMA OrderlyEnds ==
  ASSUME NEW p, Shaped(p), Orderly(p), NEW at \in {"record", "answer"},
         NEW outcome \in {"error", "local"}
  PROVE  Orderly([p EXCEPT !.at = at, !.outcome = outcome])
<1> DEFINE q == [p EXCEPT !.at = at, !.outcome = outcome]
<1>1. SameHook(p, q) /\ q.at = at /\ q.outcome = outcome
  BY IdleFields DEF Shaped, SameHook
<1> HIDE DEF q
<1>2. Orderly(q)
  BY <1>1, QuietOrderly
<1>3. QED BY <1>2 DEF q

LEMMA OrderlyPostDone ==
  ASSUME NEW p, Shaped(p), Orderly(p), p.at = "hook", p.hook = "post", p.todo = <<>>,
         NEW outcome
  PROVE  Orderly([p EXCEPT !.at = "record", !.outcome = outcome])
<1> DEFINE q == [p EXCEPT !.at = "record", !.outcome = outcome]
<1>1. SameHook(p, q) /\ q.at = "record"
  BY IdleFields DEF Shaped, SameHook
<1>2. Through(p, "post")
  BY DEF Orderly, Through
<1> HIDE DEF q
<1>3. Orderly(q)
  BY <1>1, <1>2, QuietOrderly
<1>4. QED BY <1>3 DEF q

(* From the record to the answer nothing of the hook is touched.           *)
LEMMA OrderlyRecords ==
  ASSUME NEW p, Shaped(p), Orderly(p), p.at \in {"record", "count", "save", "rename"},
         NEW at \in {"count", "save", "rename", "answer"}, NEW kept
  PROVE  /\ Orderly([p EXCEPT !.at = at])
         /\ Orderly([p EXCEPT !.at = at, !.kept = kept])
<1>1. ASSUME NEW q, SameHook(p, q), q.at = at, q.outcome = p.outcome
      PROVE  Orderly(q)
  <2>1. p.outcome = "result" => Through(p, "post")
    BY DEF Orderly
  <2>2. QED BY <1>1, <2>1, QuietOrderly
<1> DEFINE q == [p EXCEPT !.at = at]
           k == [p EXCEPT !.at = at, !.kept = kept]
<1>2. SameHook(p, q) /\ q.at = at /\ q.outcome = p.outcome
  BY IdleFields DEF Shaped, SameHook
<1>3. SameHook(p, k) /\ k.at = at /\ k.outcome = p.outcome
  BY IdleFields DEF Shaped, SameHook
<1> HIDE DEF q, k
<1>4. Orderly(q) /\ Orderly(k)
  BY <1>1, <1>2, <1>3
<1>5. QED BY <1>4 DEF q, k

LEMMA OrderlyScript ==
  ASSUME NEW p, Shaped(p), Orderly(p), NEW out
  PROVE  /\ Orderly([p EXCEPT !.script = out])
         /\ p.at = "script" => Orderly([p EXCEPT !.at = "reap"])
<1> DEFINE q == [p EXCEPT !.script = out]
           k == [p EXCEPT !.at = "reap"]
<1>1. SameHook(p, q) /\ q.at = p.at /\ q.outcome = p.outcome
  BY IdleFields DEF Shaped, SameHook
<1>2. SameHook(p, k) /\ k.at = "reap"
  BY IdleFields DEF Shaped, SameHook
<1> HIDE DEF q, k
<1>3. Orderly(q) /\ (p.at = "script" => Orderly(k))
  BY <1>1, <1>2, OrderlySame, QuietOrderly
<1>4. QED BY <1>3 DEF q, k

LEMMA OrderlyKept ==
  ASSUME NEW p, Shaped(p), Orderly(p), NEW from, NEW to
  PROVE  Orderly(Kept(p, from, to)) /\ Shaped(Kept(p, from, to))
         /\ Kept(p, from, to).at = p.at
<1> DEFINE q == [p EXCEPT !.kept = to]
<1>1. SameHook(p, q) /\ q.at = p.at /\ q.outcome = p.outcome /\ Shaped(q)
  BY IdleFields DEF Shaped, SameHook
<1> HIDE DEF q
<1>2. Orderly(q)
  BY <1>1, OrderlySame
<1>3. Kept(p, from, to) = q \/ Kept(p, from, to) = p
  BY DEF Kept, q
<1>4. QED BY <1>1, <1>2, <1>3

LEMMA OrderlyEnded ==
  ASSUME NEW p, NEW where \in {"done", "gone"}
  PROVE  Orderly(Ended(p, where))
<1> DEFINE q == Ended(p, where)
<1>1. q.at = where
  BY DEF Ended, Idle
<1> HIDE DEF q
<1>2. Orderly(q)
  BY <1>1 DEF Orderly
<1>3. QED BY <1>2 DEF q

LEMMA OrderlyStarts ==
  ASSUME NEW p, Shaped(p), Orderly(p), p.at = "hook", p.todo # <<>>
  PROVE  Orderly([p EXCEPT !.at = "script", !.script = "running",
                           !.fired = Append(@, [rule |-> Head(p.todo), verdict |-> "none"])])
<1> DEFINE q == [p EXCEPT !.at = "script", !.script = "running",
                          !.fired = Append(@, [rule |-> Head(p.todo), verdict |-> "none"])]
<1>1. /\ q.at = "script" /\ q.rules = p.rules /\ q.entry = p.entry /\ q.hook = p.hook
      /\ q.todo = p.todo /\ q.value = p.value
      /\ q.fired = Append(p.fired, [rule |-> Head(p.todo), verdict |-> "none"])
  BY IdleFields DEF Shaped
<1>2. Queued(p, Len(p.fired))
  BY DEF Orderly
<1> HIDE DEF q
<1>3. Running(q)
  BY <1>1, <1>2, RuleStarts
<1>4. Orderly(q)
  BY <1>1, <1>3 DEF Orderly
<1>5. QED BY <1>4 DEF q

LEMMA OrderlyBegins ==
  ASSUME NEW q, q.rules \in Seq(Rule), Unique(q.rules), q.fired = <<>>, q.value = <<>>,
         q.todo = Due(q), q.at = "hook"
  PROVE  Orderly(q)
BY HookBegins DEF Orderly

LEMMA OrderlyReturns ==
  ASSUME NEW p, Shaped(p), Orderly(p), p.at = "call"
  PROVE  Orderly([p EXCEPT !.at = "hook", !.hook = "post", !.outcome = "result",
                           !.todo = Applicable(p.rules, "post", p.entry),
                           !.pre = p.fired, !.fired = <<>>, !.value = <<>>])
<1> DEFINE q == [p EXCEPT !.at = "hook", !.hook = "post", !.outcome = "result",
                          !.todo = Applicable(p.rules, "post", p.entry),
                          !.pre = p.fired, !.fired = <<>>, !.value = <<>>]
<1>1. /\ q.at = "hook" /\ q.rules = p.rules /\ q.entry = p.entry /\ q.hook = "post"
      /\ q.todo = Applicable(p.rules, "post", p.entry) /\ q.fired = <<>> /\ q.value = <<>>
  BY IdleFields DEF Shaped
<1>2. p.rules \in Seq(Rule) /\ Unique(p.rules)
  BY DEF Orderly, Through, Queued
<1> HIDE DEF q
<1>3. q.todo = Due(q)
  BY <1>1 DEF Due
<1>4. Orderly(q)
  BY <1>1, <1>2, <1>3, OrderlyBegins
<1>5. QED BY <1>4 DEF q

LEMMA OrderlyRan ==
  ASSUME NEW p, Shaped(p), Orderly(p), p.at \in {"script", "reap"}, NEW out \in Output
  PROVE  Orderly(Ran(p, out))
<1> DEFINE v == Verdict(p, out)
           stop == [v EXCEPT !.at = "record", !.outcome = "rejected", !.todo = <<>>]
           go == [v EXCEPT !.at = "hook", !.todo = Tail(@),
                           !.value = IF out = "rewrite" THEN Append(@, Head(p.todo).name) ELSE @]
<1>1. /\ Shaped(v) /\ v.rules = p.rules /\ v.entry = p.entry /\ v.hook = p.hook
      /\ v.todo = p.todo /\ v.value = p.value
      /\ v.fired = [p.fired EXCEPT ![Len(p.fired)].verdict = out]
  BY IdleFields DEF Verdict, Shaped
<1>2. Ran(p, out) = IF Stops(Head(p.todo), out) THEN stop ELSE go
  BY DEF Ran, Stops
<1> HIDE DEF v
<1>3. Orderly(stop)
  <2>1. stop.at = "record" /\ stop.outcome = "rejected"
    BY <1>1, IdleFields DEF Shaped
  <2> HIDE DEF stop
  <2>2. QED BY <2>1 DEF Orderly
<1>4. ASSUME ~Stops(Head(p.todo), out) PROVE Orderly(go)
  <2>1. /\ go.at = "hook" /\ go.rules = p.rules /\ go.entry = p.entry /\ go.hook = p.hook
        /\ go.todo = Tail(p.todo) /\ go.fired = [p.fired EXCEPT ![Len(p.fired)].verdict = out]
        /\ go.value = IF out = "rewrite" THEN Append(p.value, Head(p.todo).name) ELSE p.value
    BY <1>1, IdleFields DEF Shaped
  <2>2. Running(p)
    BY DEF Orderly
  <2> HIDE DEF go
  <2>3. Queued(go, Len(go.fired))
    BY <1>4, <2>1, <2>2, HookGoesOn
  <2>4. QED BY <2>1, <2>3 DEF Orderly
<1> HIDE DEF stop, go
<1>5. QED BY <1>2, <1>3, <1>4

LEMMA OrderlyStep ==
  ASSUME ReqShape, AllOrderly, NEW r \in Request,
         Step(r) \/ CallFails(r) \/ SaveFails(r) \/ Decline(r) \/ Answer(r)
  PROVE  AllOrderly'
<1>0. Shaped(req[r]) /\ Orderly(req[r])
  BY DEF ReqShape, AllOrderly
<1>1. CASE StartRule(r)
  <2>1. req' = [req EXCEPT ![r] = [req[r] EXCEPT
                  !.at = "script", !.script = "running",
                  !.fired = Append(@, [rule |-> Head(req[r].todo), verdict |-> "none"])]]
    BY <1>1 DEF StartRule, ReqShape
  <2>2. QED BY <1>0, <1>1, <2>1, OrderlyStarts, OneOrderly DEF StartRule, At
<1>2. CASE Forward(r)
  <2>1. req' = [req EXCEPT ![r] = [req[r] EXCEPT !.at = "call"]]
    BY <1>2 DEF Forward, ReqShape
  <2>2. QED BY <1>0, <1>2, <2>1, OrderlyForward, OneOrderly DEF Forward, At
<1>3. CASE Return(r)
  <2>1. req' = [req EXCEPT ![r] = [req[r] EXCEPT
                  !.at = "hook", !.hook = "post", !.outcome = "result",
                  !.todo = Applicable(req[r].rules, "post", req[r].entry),
                  !.pre = req[r].fired, !.fired = <<>>, !.value = <<>>]]
    BY <1>3 DEF Return, ReqShape
  <2>2. QED BY <1>0, <1>3, <2>1, OrderlyReturns, OneOrderly DEF Return, At
<1>4. CASE PostDone(r)
  <2>1. PICK result : req' = [req EXCEPT ![r] = [req[r] EXCEPT !.at = "record", !.outcome = result]]
    BY <1>4 DEF PostDone, ReqShape
  <2>2. QED BY <1>0, <1>4, <2>1, OrderlyPostDone, OneOrderly DEF PostDone, At
<1>5. CASE CallFails(r)
  <2>1. req' = [req EXCEPT ![r] = [req[r] EXCEPT !.at = "record", !.outcome = "error"]]
    BY <1>5 DEF CallFails, ReqShape
  <2>2. QED BY <1>0, <2>1, OrderlyEnds, OneOrderly
<1>6. CASE Decline(r)
  <2>1. req' = [req EXCEPT ![r] = [req[r] EXCEPT !.at = "answer", !.outcome = "local"]]
    BY <1>6 DEF Decline, ReqShape
  <2>2. QED BY <1>0, <2>1, OrderlyEnds, OneOrderly
<1>7. CASE TakeOutput(r) \/ Reap(r)
  <2>1. PICK out \in Output : req' = [req EXCEPT ![r] = Ran(req[r], out)]
    BY <1>7 DEF TakeOutput, Reap, Output
  <2>2. req[r].at \in {"script", "reap"}
    BY <1>7 DEF TakeOutput, Reap, At
  <2>3. QED BY <1>0, <2>1, <2>2, OrderlyRan, OneOrderly
<1>8. CASE Interrupt(r)
  <2>1. req' = [req EXCEPT ![r] = [req[r] EXCEPT !.at = "reap"]]
    BY <1>8 DEF Interrupt, ReqShape
  <2>2. QED BY <1>0, <1>8, <2>1, OrderlyScript, OneOrderly DEF Interrupt, At
<1>9. CASE Kill(r) \/ ScriptEnds(r)
  <2>1. PICK out : req' = [req EXCEPT ![r] = [req[r] EXCEPT !.script = out]]
    BY <1>9 DEF Kill, ScriptEnds, ReqShape
  <2>2. QED BY <1>0, <2>1, OrderlyScript, OneOrderly
<1>10. CASE Record(r)
  <2>1. req' = [req EXCEPT ![r] = [req[r] EXCEPT !.at = "count"]]
    BY <1>10 DEF Record, ReqShape
  <2>2. QED BY <1>0, <1>10, <2>1, OrderlyRecords, OneOrderly DEF Record, At
<1>11. CASE SaveTmp(r)
  <2>1. req' = [req EXCEPT ![r] = [req[r] EXCEPT !.at = "rename"]]
    BY <1>11 DEF SaveTmp, ReqShape
  <2>2. QED BY <1>0, <1>11, <2>1, OrderlyRecords, OneOrderly DEF SaveTmp, At
<1>12. CASE Count(r)
  <2>1. req' = [req EXCEPT ![r] = [req[r] EXCEPT !.at = "save", !.kept = "memory"]]
    BY <1>12 DEF Count, Counted, ReqShape
  <2>2. QED BY <1>0, <1>12, <2>1, OrderlyRecords, OneOrderly DEF Count, At
<1>13. CASE SaveFails(r)
  <2>1. req' = [req EXCEPT ![r] = [req[r] EXCEPT !.at = "answer", !.kept = "unsaved"]]
    BY <1>13 DEF SaveFails, ReqShape
  <2>2. req[r].at \in {"record", "count", "save", "rename"}
    BY <1>13 DEF SaveFails
  <2>3. Orderly([req[r] EXCEPT !.at = "answer", !.kept = "unsaved"])
    BY <1>0, <2>2, OrderlyRecords
  <2>4. QED BY <2>1, <2>3, OneOrderly
<1>14. CASE Rename(r)
  <2> DEFINE K(x) == Kept(req[x], {"memory", "unsaved"}, "disk")
  <2>1. req' = [x \in Request |-> IF x = r THEN [K(x) EXCEPT !.at = "answer"] ELSE K(x)]
    BY <1>14 DEF Rename
  <2>2. \A x \in Request : Orderly(K(x)) /\ Shaped(K(x)) /\ K(x).at = req[x].at
    BY OrderlyKept DEF ReqShape, AllOrderly
  <2> HIDE DEF K
  <2>3. Orderly([K(r) EXCEPT !.at = "answer"])
    BY <1>14, <2>2, OrderlyRecords DEF Rename, At
  <2>4. \A x \in Request : Orderly(req'[x])
    BY <2>1, <2>2, <2>3
  <2>5. QED BY <2>4 DEF AllOrderly
<1>15. CASE Answer(r)
  <2>1. req' = [req EXCEPT ![r] = Ended(req[r], "done")]
    BY <1>15 DEF Answer
  <2>2. QED BY <2>1, OrderlyEnded, OneOrderly
<1>16. QED
  BY <1>1, <1>2, <1>3, <1>4, <1>5, <1>6, <1>7, <1>8, <1>9, <1>10, <1>11, <1>12, <1>13, <1>14, <1>15
  DEF Step

LEMMA OrderlyBegin ==
  ASSUME ReqShape, AllOrderly, NEW r \in Request, NEW s \in Session, Begins(r, s),
         BoundTo(bound[s])
  PROVE  AllOrderly'
<1>1. PICK entry, rules : Begin(r, entry, rules) /\ rules \in Seq(Rule) /\ Unique(rules)
  BY PermittedAreEntries DEF Begins
<1> DEFINE q == [req[r] EXCEPT !.at = "hook", !.entry = entry, !.rules = rules,
                               !.todo = Applicable(rules, "pre", entry)]
<1>2. /\ Shaped(req[r]) /\ Orderly(req[r]) /\ req[r].at = "idle"
      /\ req' = [req EXCEPT ![r] = q]
  BY <1>1 DEF Begin, At, ReqShape, AllOrderly
<1>3. req[r].hook = "pre" /\ req[r].fired = <<>> /\ req[r].value = <<>>
  BY <1>2 DEF Orderly
<1>4. /\ q.at = "hook" /\ q.rules = rules /\ q.entry = entry /\ q.hook = "pre"
      /\ q.todo = Applicable(rules, "pre", entry) /\ q.fired = <<>> /\ q.value = <<>>
  BY <1>2, <1>3, IdleFields DEF Shaped
<1> HIDE DEF q
<1>5. q.todo = Due(q)
  BY <1>4 DEF Due
<1>6. Orderly(q)
  BY <1>1, <1>4, <1>5, OrderlyBegins
<1>7. QED BY <1>2, <1>6, OneOrderly

LEMMA OrderlyCrash == ASSUME ReqShape, AllOrderly, Crash PROVE AllOrderly'
<1> DEFINE K(x) == Kept(req[x], {"memory", "unsaved"}, "lost")
<1>1. req' = [x \in Request |-> IF Active(x) THEN Ended(K(x), "gone") ELSE K(x)]
  BY DEF Crash
<1>2. \A x \in Request : Orderly(K(x))
  BY OrderlyKept DEF ReqShape, AllOrderly
<1> HIDE DEF K
<1>3. \A x \in Request : Orderly(Ended(K(x), "gone"))
  BY OrderlyEnded
<1>4. \A x \in Request : Orderly(req'[x])
  BY <1>1, <1>2, <1>3
<1>5. QED BY <1>4 DEF AllOrderly

LEMMA OrderlyNext == SessionInv /\ AllOrderly /\ [Next]_vars => AllOrderly'
<1> SUFFICES ASSUME SessionInv, AllOrderly, [Next]_vars PROVE AllOrderly'
  OBVIOUS
<1>0. ReqShape /\ RelayInv /\ \A s \in Session : BoundTo(bound[s])
  BY DEF SessionInv, SessionsBound
<1>1. CASE UNCHANGED dispatchVars \/ Start
  BY <1>1 DEF Start, dispatchVars, AllOrderly
<1>2. CASE Crash
  BY <1>0, <1>2, OrderlyCrash
<1>3. ASSUME NEW r \in Request, Handles(r) PROVE AllOrderly'
  BY <1>0, <1>3, OrderlyStep, OrderlyBegin DEF Handles
<1>4. QED BY <1>0, <1>1, <1>2, <1>3, NextIs

LEMMA OrderlyInit == Init => AllOrderly
<1>1. Idle.at = "idle" /\ Idle.hook = "pre" /\ Idle.fired = <<>> /\ Idle.value = <<>>
  BY DEF Idle
<1>2. Orderly(Idle)
  BY <1>1 DEF Orderly
<1>3. QED BY <1>2 DEF Init, DispatchInit, AllOrderly

(* Whatever rules are configured and whatever their scripts do: no call is *)
(* forwarded before every pre-hook rule that applies to it has passed it,  *)
(* in the order of the priorities and the file, and no result is returned  *)
(* before the post-hook rules have.                                        *)
THEOREM NothingPassesUnvetted == Spec => []NothingUnvetted
<1>1. AllOrderly => NothingUnvetted
  <2>1. ASSUME AllOrderly, NEW r \in Request
        PROVE  /\ req[r].at = "call" => Vetted(req[r], "pre", req[r].fired, req[r].value)
               /\ req[r].at = "answer" /\ req[r].outcome = "result"
                    => Vetted(req[r], "post", req[r].fired, req[r].value)
    BY <2>1, ThroughIsVetted DEF AllOrderly, Orderly
  <2>2. QED BY <2>1 DEF NothingUnvetted
<1>2. QED BY <1>1, OrderlyInit, OrderlyNext, SessionInit, SessionNext, PTL DEF Spec
=============================================================================
