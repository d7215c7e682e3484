------------------------------- MODULE Dispatch -------------------------------
(***************************************************************************)
(* The daemon's side of a tool call: gateway.Dispatch with the rule engine *)
(* and the two script runners, the recent-calls ring and the usage store.  *)
(*                                                                         *)
(* A request is one goroutine in Dispatch.  Scripts run beside it: a JS    *)
(* script in a goroutine of its own, a Python script in a process.  The    *)
(* arguments and the result of a call are abstracted to the names of the   *)
(* rules that rewrote them, in order; a result with isError is a result.   *)
(* The daemon may crash and be started again; only the usage file survives.*)
(***************************************************************************)
EXTENDS Catalog

CONSTANTS
  Request,   \* handlers of tools/call requests
  RingSize,  \* capacity of the ring of recent calls
  None       \* no request, no entry

ASSUME DispatchAssumption ==
  /\ RingSize \in Nat \ {0}
  /\ IsFiniteSet(Request) /\ None \notin Request

VARIABLES
  up,      \* the daemon process is alive
  req,     \* the state of each request
  log,     \* history: what was recorded since the daemon started
  ring,    \* statsRing: entries, next, full
  counts,  \* usage.Store.counts of the client's profile
  saver,   \* the request that holds usage.Store.mu, or None
  tmp,     \* usage.json.tmp
  disk     \* usage.json

dispatchVars == <<up, req, log, ring, counts, saver, tmp, disk>>
storeVars == <<counts, saver, tmp, disk>>
recordVars == <<log, ring, counts, saver, tmp, disk>>

----------------------------------------------------------------------------
(* Rules.  Validate admits only the languages below, so a runner is never  *)
(* missing, and the runners return no action but continue and reject: the  *)
(* two engine errors that speak of these cannot happen.                    *)

Language == {"js", "python"}
Hook == {"pre", "post"}
DefaultRulePriority == 100

Rule == [name : STRING, hooks : SUBSET Hook, priority : Int, onError : {"", "reject", "skip"},
         language : Language, servers : SUBSET SUBSET Server, tools : SUBSET SUBSET Name]

OnErrorMode(rule) == IF rule.onError = "" THEN "reject" ELSE rule.onError

(* Mutant: an unset priority counts as zero.                               *)
PriorityAsWritten(rule) == rule.priority

EffectivePriority(rule) ==
  IF rule.priority = 0 THEN DefaultRulePriority ELSE rule.priority

AppliesTo(rule, entry) ==
  /\ rule.servers = {} \/ Matches(rule.servers, entry.server)
  /\ rule.tools = {} \/ Matches(rule.tools, entry.exposed)

Applicable(rules, hook, entry) ==
  LET due == Only(rules, {r \in Rule : hook \in r.hooks /\ AppliesTo(r, entry)})
  IN  StableSort(due, [i \in DOMAIN due |-> EffectivePriority(due[i])])

(* What comes out of a script: continue, with or without a new value,      *)
(* reject, or any error - it throws, exits, is malformed, does not compile.*)
Output == {"continue", "rewrite", "reject", "fail"}

----------------------------------------------------------------------------
Idle == [at |-> "idle", entry |-> None, rules |-> <<>>, hook |-> "pre", todo |-> <<>>,
         pre |-> <<>>, fired |-> <<>>, value |-> <<>>, script |-> "none",
         outcome |-> "none", kept |-> "no"]

NoCounts == [n \in Name |-> 0]
EmptyRing == [entries |-> [i \in 0 .. RingSize - 1 |-> None], next |-> 0, full |-> FALSE]

DispatchInit ==
  /\ up = TRUE
  /\ req = [r \in Request |-> Idle]
  /\ log = <<>>
  /\ ring = EmptyRing
  /\ counts = NoCounts /\ disk = NoCounts /\ tmp = NoCounts
  /\ saver = None

At(r, where) == up /\ req[r].at = where

----------------------------------------------------------------------------
(* A tool handler calls Dispatch.  (The arguments arrive inside a message  *)
(* that was parsed as JSON, so parsing them again does not fail.)          *)
Begin(r, entry, rules) ==
  /\ At(r, "idle")
  /\ req' = [req EXCEPT ![r].at = "hook", ![r].entry = entry, ![r].rules = rules,
                        ![r].todo = Applicable(rules, "pre", entry)]
  /\ UNCHANGED <<up, recordVars>>

(* call_deferred_tool answers an unknown name itself, list_all_tools from  *)
(* the catalog; the SDK answers for a tool that is not registered.  None of*)
(* them comes to Dispatch, and nothing is recorded.                        *)
Decline(r) ==
  /\ At(r, "idle")
  /\ req' = [req EXCEPT ![r].at = "answer", ![r].outcome = "local"]
  /\ UNCHANGED <<up, recordVars>>

(* The next rule is started.  fired holds its name in the code; here it    *)
(* holds the rule, and what came of it as history.                         *)
StartRule(r) ==
  /\ At(r, "hook") /\ req[r].todo # <<>>
  /\ req' = [req EXCEPT
       ![r].at = "script", ![r].script = "running",
       ![r].fired = Append(@, [rule |-> Head(req[r].todo), verdict |-> "none"])]
  /\ UNCHANGED <<up, recordVars>>

ScriptEnds(r) ==
  /\ up /\ req[r].script = "running"
  /\ \E out \in Output : req' = [req EXCEPT ![r].script = out]
  /\ UNCHANGED <<up, recordVars>>

(* RunHook goes on with what the runner returned.                          *)
Verdict(q, out) ==
  [q EXCEPT !.script = "none", !.fired[Len(q.fired)].verdict = out]

(* Mutant: on_error is taken for skip whenever it is not set to reject.    *)
RanUnlessReject(q, out) ==
  LET rule == Head(q.todo)
      stops == out = "reject" \/ (out = "fail" /\ rule.onError = "reject")
  IN  IF stops
        THEN [Verdict(q, out) EXCEPT !.at = "record", !.outcome = "rejected", !.todo = <<>>]
        ELSE [Verdict(q, out) EXCEPT
                !.at = "hook", !.todo = Tail(@),
                !.value = IF out = "rewrite" THEN Append(@, rule.name) ELSE @]

Ran(q, out) ==
  LET rule == Head(q.todo)
      stops == out = "reject" \/ (out = "fail" /\ OnErrorMode(rule) = "reject")
  IN  IF stops
        THEN [Verdict(q, out) EXCEPT !.at = "record", !.outcome = "rejected", !.todo = <<>>]
        ELSE [Verdict(q, out) EXCEPT
                !.at = "hook", !.todo = Tail(@),
                !.value = IF out = "rewrite" THEN Append(@, rule.name) ELSE @]

TakeOutput(r) ==
  /\ At(r, "script") /\ req[r].script \in Output
  /\ req' = [req EXCEPT ![r] = Ran(@, @.script)]
  /\ UNCHANGED <<up, recordVars>>

(* Mutant: Run returns as soon as the timer fires.                         *)
InterruptAndGo(r) ==
  /\ At(r, "script") /\ Head(req[r].todo).language = "js"
  /\ req' = [req EXCEPT ![r] = [Ran(@, "fail") EXCEPT !.script = req[r].script]]
  /\ UNCHANGED <<up, recordVars>>

(* jsrule: the timer or the request's context ends the wait, even when the *)
(* result is there as well - select then picks either.  The VM is told to  *)
(* stop and Run waits for the goroutine, whose result no longer counts.    *)
Interrupt(r) ==
  /\ At(r, "script") /\ Head(req[r].todo).language = "js"
  /\ req' = [req EXCEPT ![r].at = "reap"]
  /\ UNCHANGED <<up, recordVars>>

Reap(r) ==
  /\ At(r, "reap") /\ req[r].script \in Output
  /\ req' = [req EXCEPT ![r] = Ran(@, "fail")]
  /\ UNCHANGED <<up, recordVars>>

(* pyrule: the deadline kills the process; one that has ended well by then *)
(* still counts.                                                           *)
Kill(r) ==
  /\ At(r, "script") /\ Head(req[r].todo).language = "python"
  /\ req[r].script = "running"
  /\ req' = [req EXCEPT ![r].script = "fail"]
  /\ UNCHANGED <<up, recordVars>>

----------------------------------------------------------------------------
(* The pre-hooks are through: dm.CallTool.                                 *)
Forward(r) ==
  /\ At(r, "hook") /\ req[r].hook = "pre" /\ req[r].todo = <<>>
  /\ req' = [req EXCEPT ![r].at = "call"]
  /\ UNCHANGED <<up, recordVars>>

(* The downstream server answers; post-hooks.                              *)
Return(r) ==
  /\ At(r, "call")
  /\ req' = [req EXCEPT
       ![r].at = "hook", ![r].hook = "post", ![r].outcome = "result",
       ![r].todo = Applicable(req[r].rules, "post", req[r].entry),
       ![r].pre = req[r].fired, ![r].fired = <<>>, ![r].value = <<>>]
  /\ UNCHANGED <<up, recordVars>>

CallFails(r) ==
  /\ At(r, "call")
  /\ req' = [req EXCEPT ![r].at = "record", ![r].outcome = "error"]
  /\ UNCHANGED <<up, recordVars>>

(* The post-hooks are through; a rewritten result may not have the shape   *)
(* of a CallToolResult.                                                    *)
PostDone(r) ==
  /\ At(r, "hook") /\ req[r].hook = "post" /\ req[r].todo = <<>>
  /\ \E result \in {"result", "error"} :
       /\ req[r].value = <<>> => result = "result"
       /\ req' = [req EXCEPT ![r].at = "record", ![r].outcome = result]
  /\ UNCHANGED <<up, recordVars>>

----------------------------------------------------------------------------
(* Daemon.record: the ring of recent calls first, then the usage store.    *)

CallRecord(q) ==
  [name |-> q.entry.exposed,
   fired |-> [i \in 1 .. Len(q.pre \o q.fired) |-> (q.pre \o q.fired)[i].rule.name]]

(* Mutant: full is set one record early.                                   *)
PutOneEarly(rec) ==
  [entries |-> [ring.entries EXCEPT ![ring.next] = rec],
   next |-> (ring.next + 1) % RingSize,
   full |-> ring.full \/ ring.next + 2 >= RingSize]

Put(rec) ==
  [entries |-> [ring.entries EXCEPT ![ring.next] = rec],
   next |-> (ring.next + 1) % RingSize,
   full |-> ring.full \/ (ring.next + 1) % RingSize = 0]

Record(r) ==
  /\ At(r, "record")
  /\ log' = Append(log, CallRecord(req[r]))
  /\ ring' = Put(CallRecord(req[r]))
  /\ req' = [req EXCEPT ![r].at = "count"]
  /\ UNCHANGED <<up, storeVars>>

Reversed(s) == [i \in DOMAIN s |-> s[Len(s) + 1 - i]]

(* statsRing.recent: newest first; a limit of 0 means all.                 *)
Recent(limit) ==
  LET Part(from, to) == [i \in 1 .. to - from |-> ring.entries[from + i - 1]]
      all == Reversed(IF ring.full
                        THEN Part(ring.next, RingSize) \o Part(0, ring.next)
                        ELSE Part(0, ring.next))
  IN  IF limit > 0 /\ limit < Len(all) THEN SubSeq(all, 1, limit) ELSE all

(* usage.Record: mu is held from here until the file is saved, or not.     *)
Counted(r) ==
  /\ counts' = [counts EXCEPT ![req[r].entry.exposed] = @ + 1]
  /\ req' = [req EXCEPT ![r].at = "save", ![r].kept = "memory"]
  /\ saver' = r
  /\ UNCHANGED <<up, log, ring, tmp, disk>>

(* Mutant: the mutex is not taken.                                         *)
CountUnlocked(r) == At(r, "count") /\ Counted(r)

Count(r) == At(r, "count") /\ saver = None /\ Counted(r)

SaveTmp(r) ==
  /\ At(r, "save")
  /\ tmp' = counts
  /\ req' = [req EXCEPT ![r].at = "rename"]
  /\ UNCHANGED <<up, log, ring, counts, saver, disk>>

(* A save that fails is swallowed; the next one that succeeds includes it. *)
SaveFails(r) ==
  /\ up /\ req[r].at \in {"save", "rename"}
  /\ req' = [req EXCEPT ![r].at = "answer", ![r].kept = "unsaved"]
  /\ saver' = None
  /\ UNCHANGED <<up, log, ring, counts, tmp, disk>>

(* kept is history: what became of the count of a call.                    *)
Kept(q, from, to) == IF q.kept \in from THEN [q EXCEPT !.kept = to] ELSE q

Rename(r) ==
  /\ At(r, "rename")
  /\ disk' = tmp
  /\ req' = [q \in Request |->
               LET kept == Kept(req[q], {"memory", "unsaved"}, "disk")
               IN  IF q = r THEN [kept EXCEPT !.at = "answer"] ELSE kept]
  /\ saver' = None
  /\ UNCHANGED <<up, log, ring, counts, tmp>>

(* The handler returns; of its locals nothing is left but the history.     *)
Ended(q, where) ==
  [Idle EXCEPT !.at = where, !.entry = q.entry, !.outcome = q.outcome, !.kept = q.kept]

Answer(r) ==
  /\ At(r, "answer")
  /\ req' = [req EXCEPT ![r] = Ended(@, "done")]
  /\ UNCHANGED <<up, recordVars>>

Active(r) == req[r].at \notin {"idle", "done", "gone"}

Step(r) ==
  \/ StartRule(r) \/ ScriptEnds(r) \/ TakeOutput(r)
  \/ Interrupt(r) \/ Reap(r) \/ Kill(r)
  \/ Forward(r) \/ Return(r) \/ PostDone(r)
  \/ Record(r) \/ Count(r) \/ SaveTmp(r) \/ Rename(r)

----------------------------------------------------------------------------
(* The daemon dies and a new one is started: daemon.New loads the usage    *)
(* file and makes an empty ring.                                           *)
Crash ==
  /\ up /\ up' = FALSE
  /\ req' = [r \in Request |->
               LET kept == Kept(req[r], {"memory", "unsaved"}, "lost")
               IN  IF Active(r) THEN Ended(kept, "gone") ELSE kept]
  /\ saver' = None
  /\ UNCHANGED <<log, ring, counts, tmp, disk>>

Start ==
  /\ ~up /\ up' = TRUE
  /\ counts' = disk
  /\ log' = <<>> /\ ring' = EmptyRing
  /\ UNCHANGED <<req, saver, tmp, disk>>

----------------------------------------------------------------------------
(* The rules that gave their hook a new value, in the order they ran.      *)
Firing == [rule : Rule, verdict : {"none"} \cup Output]

Rewriters(fired) == Only(fired, {f \in Firing : f.verdict = "rewrite"})

(* Whatever the scripts do, a call reaches its downstream server only when *)
(* every pre-hook rule that applies to it has run, in the order of their   *)
(* priorities and then of the file, each on what the one before returned,  *)
(* and none of them rejected or failed without on_error: skip; and a result*)
(* reaches the client only past the post-hook rules (RunHook, Dispatch).   *)
Vetted(q, hook, fired, value) ==
  LET due == {i \in DOMAIN q.rules :
                hook \in q.rules[i].hooks /\ AppliesTo(q.rules[i], q.entry)}
      Place(i) == CHOOSE j \in DOMAIN q.rules : q.rules[j] = fired[i].rule
      Urgency(j) == IF q.rules[j].priority = 0 THEN 100 ELSE q.rules[j].priority
  IN  /\ {Place(i) : i \in DOMAIN fired} = due
      /\ Len(fired) = Cardinality(due)
      /\ \A i, j \in DOMAIN fired : i < j =>
           \/ Urgency(Place(i)) < Urgency(Place(j))
           \/ Urgency(Place(i)) = Urgency(Place(j)) /\ Place(i) < Place(j)
      /\ \A i \in DOMAIN fired :
           \/ fired[i].verdict \in {"continue", "rewrite"}
           \/ fired[i].verdict = "fail" /\ fired[i].rule.onError = "skip"
      /\ value = [k \in DOMAIN Rewriters(fired) |-> Rewriters(fired)[k].rule.name]

NothingUnvetted ==
  \A r \in Request :
    LET q == req[r] IN
    /\ q.at = "call" => Vetted(q, "pre", q.fired, q.value)
    /\ q.at = "answer" /\ q.outcome = "result"
         => Vetted(q, "post", q.fired, q.value)

(* A script does not outlive the hook it was run for: no goroutine is left *)
(* behind by a timeout (jsrule.Run drains done, pyrule.Run reaps).         *)
ScriptsEnd ==
  \A r \in Request : req[r].script # "none" => req[r].at \in {"script", "reap"}

(* GET /calls/recent returns the calls recorded last since the daemon      *)
(* started, newest first, up to the ring's capacity and the limit - also   *)
(* when the ring has just become full or has wrapped around (statsRing).   *)
RecentIsLatest ==
  \A limit \in 0 .. RingSize + 1 :
    LET size == CHOOSE n \in {Len(log), RingSize} \cup ({limit} \ {0}) :
                  \A m \in {Len(log), RingSize} \cup ({limit} \ {0}) : n <= m
    IN  /\ Len(Recent(limit)) = size
        /\ \A i \in 1 .. size : Recent(limit)[i] = log[Len(log) + 1 - i]

(* A call is counted before its client can see the answer.  The usage file *)
(* holds a count for exactly the calls whose save succeeded or was made up *)
(* for by a later one, so that a crash loses no more than the saves that   *)
(* failed or had not been made, and while the daemon is up its counts miss *)
(* nothing (usage.Record, save, Load).                                     *)
CountsKept ==
  /\ \A r \in Request :
       req[r].at \in {"answer", "done"} /\ req[r].outcome # "local"
         => req[r].kept \in {"disk", "unsaved", "lost"}
  /\ \A n \in Name :
       LET In(kinds) == Cardinality({r \in Request :
                           req[r].kept \in kinds /\ req[r].entry.exposed = n})
       IN  /\ disk[n] = In({"disk"})
           /\ up => counts[n] = In({"disk", "memory", "unsaved"})
=============================================================================
