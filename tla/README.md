# shadow-mcp in TLA+

shadow-mcp is an MCP gateway: a background daemon keeps one session to every
configured downstream MCP server, merges their tools into a catalog, filters it
per client profile, runs rule scripts around each call and relays the call. This
directory holds a formal model of it: modules written from the Go source, TLC
configurations that check them on small instances, and TLAPS proofs of the
results that do not depend on the size of the instance.

    tlc -workers 2 -config MCManager.cfg MCManager     # model-check
    tlapm ManagerProofs.tla                            # prove

All paths below are relative to `src/`.

## The system and its parts

| Part | Code | State | Operations | What makes it correct | Module |
|---|---|---|---|---|---|
| Downstream manager | `internal/downstream` | session, process and reconnect mutex per server | `NewManager`, `CallTool`, `Reconnect`, `Close` | a dead session is replaced once, a live one never; nothing dialled is lost; a call is not run twice on a session that still works | `Manager`, `ServerPool` |
| Health loop | `internal/daemon/health.go` | the manager of this round | a ping, perhaps a `Reconnect`, per server | every dead session is found; shutdown is not held up for ever | `Manager`, `Daemon` |
| Daemon | `internal/daemon/server.go`, `run.go` | running configuration, raw configuration, manager, catalog, engine | `New`, `reload`, `ProfileServer`, `Close` | the swap keeps the parts together, closes what it displaced and nothing else; a session is bound to one configuration | `Daemon`, `Gateway` |
| Configuration edits | `internal/daemon/config_crud.go`, `adminapi.go` | clone and file snapshot of each request | upserts, deletes, `/reload` | an acknowledged edit is on disk and live, a failed one is gone without a trace | `Daemon` |
| Configuration file | `internal/config` | the file and its `.tmp` | `Load`, `LoadRaw`, `Save`, `Clone`, `Validate` | a crash while saving keeps the old content | `Daemon` |
| Gateway dispatch | `internal/gateway/dispatch.go`, `server_builder.go` | none | pre-hooks, call, post-hooks, record | nothing reaches a server, and no result the client, past a rule | `Dispatch`, `Gateway` |
| Rule engine | `internal/rules` | compiled scripts | `RunHook`, JS and Python runners | priority order, chaining, errors fail closed, no script outlives its hook | `Dispatch` |
| Aggregator | `internal/aggregator` | catalog | `Build` | no tool is lost to another's name | `Catalog` |
| Profiles and lazy loading | `internal/profile`, `internal/gateway/metatools.go` | none | filter, rank, meta-tools | an allowed tool is reachable, a denied one is not | `Catalog`, `Gateway` |
| Usage counts, recent calls | `internal/usage`, `internal/daemon/stats.go` | counts and their file; a ring | `Record`, `Counts`, `recent` | no count lost beyond failed saves, the last N calls in order | `Dispatch` |
| Discovery and autostart | `internal/adminclient/autostart.go`, `internal/daemon/lockfile.go` | info file, start lock | `EnsureRunning`, `WriteInfo`, `RemoveInfo` | at most one daemon is started, everyone finds it | `Autostart` |
| Stdio relay | `internal/transport/stdio.go` | session to the daemon and its mutex | `RunStdio`, `daemonConn.CallTool`, `Close` | one connection; a call is sent again only after a loss; the mutex is given back | `Relay`, `Gateway` |
| Terminal interface | `internal/tui` | list, cursor, form, requests on their way | keys and replies | the cursor stays in the list, keys go where the screen says, a submitted form comes back | `Tui` |
| Admin client, command line | `internal/adminclient/client.go`, `cmd` | none | HTTP requests, flags | - | replies in `Tui`, the rest not modelled |

They interact as follows. The daemon reads the file, opens a manager and builds
catalog and engine from it, then swaps all of them in under `d.mu` and closes
the manager it displaced. An IDE session gets an `mcp.Server` whose handlers
hold the manager, catalog and engine of the moment the session began; a reload
does not take them away. The health loop takes the current manager at the start
of a round and keeps it until the round ends. Both may
therefore be inside a manager that a reload has closed. Admin requests run
concurrently and share the file, its `.tmp` and the fields of the daemon, with no
lock across a request. A stdio relay sits between an IDE and such a session,
starts the daemon if there is none and connects again, once per call, when the
connection is gone. The terminal interface is a client of the admin API whose
replies come back in any order.

The hard behaviours follow from that: callers and health loop meeting on one dead
session; dials of any length outside `m.mu`, against other redials and against
`Close`; overlapping reloads and edits; failures after the file was written;
crashes between steps; edits made behind the daemon's back; a call under way while
the daemon reloads, dies or is started again; scripts against their timeouts;
several calls that find one connection gone. `PROJECT.json` lists
each one at its line together with the properties that would catch it.

## Modules

`Manager` models one `downstream.Manager`. The variables `phase`, `sessions`,
`cmds` and `reMu` are the struct; `status` and `tree` are the world behind it, a
transport and a process tree per session; `pc`, `srv`, `on`, `fresh`, `old`,
`first` and `second` are the goroutines, with `on` the local `session` of
`CallTool` (and `bad` of `Reconnect`), `fresh` and `old` the `session` and
`oldCmd` of `Reconnect`, and `first`/`second` a record of the session the
downstream ran the call on. A session identity stands for the `*ClientSession`
and the `*exec.Cmd` that `connect` returned together; identities are never
reused, which is what comparing pointers of reachable objects gives. Each
critical section on `m.mu` is one step, except that of `Close`, which holds the
lock through one step per session still to be closed (`left`), in any order, and
whatever closing one reports; the steps of others are disabled meanwhile
(`Unlocked`). Each action is one statement or one critical section of the
function named above it, and the program counter follows the order of the code.
What `Break` does happens at any time, to any transport. `Fail` stands for every
error but `ErrConnectionClosed`: timeout, cancelled context, protocol error.

`ServerPool` says what the gateway is promised, without mutexes or counters: a
call runs on the live current session of its server, at most twice and the second
time only if the first session is gone; a session is replaced only when it is
gone, and only by a new one. `Manager!Pool` is the refinement mapping: a session
is `up` if it is current and its transport works, `past` once it was installed.

`Daemon` models configuration, reloads, edits and shutdown. `disk` and `tmp` are
the file and its `.tmp`; `cfg`, `raw` and `dm` the fields of `Daemon` (`dm`
stands for manager, catalog and engine, which are assigned together); `mgr` tells
which managers are open; `pc`, `stage`, `edit`, `clone`, `previous`, `newCfg`,
`newRaw`, `newDm` and `oldDm` are the requests. The process `Main` runs the reload
of `New`. A configuration maps each name to `absent`, `good` or `bad`: an entry
that `Validate` accepts but whose server does not connect. One kind of entry
stands for servers, profiles and rules, whose six closures are the same code.
`os.WriteFile` is two steps, truncate and write, in `Save` (`SaveTruncates`,
`SaveWrites`, then `Rename`) and in a rollback, which writes in place
(`RestoreTruncates`, `RestoreWrites`). All requests use one `.tmp`, so one may
truncate, write or rename what another is still writing: `open` says which name, if
any, leads to the file a request has open, as a rename moves the file and leaves it
open. Two writes into one file may give either content or a mix (`Overwritten`,
`Garbled`).

Shutdown passes through `stopping`, `closing` (the health loop is cancelled) and
`quiet` (it has ended): the loop's `select` may still take a ready tick after the
cancel and begin another round. `dial` is the manager in which a relayed call is
redialling a server; it holds that server's reconnect mutex, for which a round of the
same manager may have to wait, and has no deadline of its own. `Stop` also stands for
a failed listen after `New`, whose deferred calls are the same.

`Autostart` models how a process finds the daemon or starts it. `info` is
`daemon.json`, `lock` says whether `daemon.starting.lock` exists, `state` is where
each daemon process is in `daemon.Run`, `pc` where each process is in
`EnsureRunning`, `asked` the daemon whose port and token it has read and is asking
for its status, `got` what it returned. `tryExisting` is two steps, so a daemon
may die, or another publish itself, between reading the file and asking.
`WriteInfo` is two as well, since `os.WriteFile` truncates first; two writers may
leave a mix that does not parse, and a file removed in between stays removed for
whoever has it open (`linked`). A lock file says nothing of its maker: `lock` is a
Boolean, and any release would remove it. Things that go wrong are counted by
kind in `count`: `faults` (a start that fails, a crash), `slow` (a deadline that
passes although a daemon is on its way), `kills`, `stops`, and starts by `hand`.

A tool call from end to end is the composition of three modules.

`Catalog` holds functions only: `Build` merges the raw tools of all servers,
`FilterEntries` applies a profile, `BuildServer` and `BuildLazyServer` make the
server of a session, with `direct` the tools registered on it, `meta` the
meta-tools and `deferred` what `call_deferred_tool` finds. A name is a member of
a small set, `Joined` gives the name `server__tool`, and a pattern is the set of
names it matches. `sort.SliceStable` is `StableSort` of `Arrangement`. Where an SDK server or a Go
map is given one name twice, the later entry counts (`Latest`).

`Dispatch` is the daemon's side. A request is one goroutine, `req[r]` a record of
its locals: `at` is the program counter, `todo` the rules still to run, `fired`
those that were started, `value` the names of the rules that rewrote arguments or
result, in order, which stands for the data itself. `script` is the goroutine or
process that runs beside it: `ScriptEnds` lets it return anything, `Interrupt`
and `Reap` are the timeout of `jsrule` (select may prefer the timer although the
result is there), `Kill` that of `pyrule`. `Record` writes the ring, `Count` takes
`usage.Store.mu`, held through `SaveTmp` and `Rename`. `Crash` leaves only the
usage file, `Start` reads it. `log` and the field `kept` are history: what was
recorded since the start, and where the count of each call is by now.

`Relay` is the process an IDE starts. `relay` is where `RunStdio` is, `pc` where
each call is in `daemonConn.CallTool`, `using` the session its first attempt took,
`mu` who holds the mutex: from `Lock`, where it looks at the session again, to the
end of the second attempt. A session is `live`, `lost` (by a crash of the daemon or
a drop) or `closed` by the relay.

`Gateway` composes them and adds the configurations. A session is bound when it is
opened, and every configuration is one that `Validate` accepts. `Resolve` looks up the profile under the first lock of
`ProfileServerForPath`, `Bind` builds the server under the second, and a `Reload`
may come between them or at any time after. `bound` keeps, as history, the
configuration and the counts a server was built from. The relay computes its path
from the configuration it has read itself. A request of the daemon is named by the
call and the attempt, so that both attempts of a call can be under way at once.

`Tui` is `Update` of `internal/tui`: one action per message or key. `slot` holds
the requests on their way and then their replies, which are delivered in any order.
The three forms are given by their fields in the order of `form_convert.go`, with
the condition under which each is shown; a text is empty, good or bad. An index
past the end of the list is the step `Panic`.

`Arrangement` says what filtering and sorting a sequence give (`Only`,
`StableSort`), as an arrangement of positions: the one that comes k-th is the one with
k - 1 others ahead. `Catalog`, `Dispatch` and `Tui` use it. It is not recursive, so that
it can be proved about.

`MCManager`, `MCDaemon`, `MCAutostart`, `MCGateway` and `MCTui` give the instances.
The proofs are in `ArrangementProofs`, `ManagerProofs`, `ManagerRefinement`,
`DaemonProofs`, `AutostartProofs`, `GatewayProofs` (with what it needs of `Catalog` and
`Relay`), `DispatchProofs` and `TuiProofs`. Operators named
in a comment as a mutant are deliberately wrong variants of the definition below
them, kept so that each property can be seen to fail on a plausible bug.

## Assumptions of the models

- `ErrConnectionClosed` is what a request gets on a session whose transport is
  gone, whoever closed it, and it stays so.
- A failed `connect` either started nothing, or started a child whose tree nobody
  in the manager knows. What such a child does next is unknown; a tree counts as
  up until `killTree` was called on it.
- `os.WriteFile` and `os.ReadFile` do not fail. A file is truncated when it is opened
  for writing and its content arrives in one write, from its first byte on; a rename
  is atomic, and whoever has the file open writes on to it. Two contents mixed in one
  file do not parse; that the mix happens to be a third valid configuration is left out.
- An empty file parses as a valid configuration without entries (`yaml.Unmarshal`
  of nothing succeeds, and `Validate` has nothing to object to).
- In `Autostart` a daemon that serves answers a status request within the client's
  ten seconds, and one that is not serving, or whose token is another, does not
  answer; the data directory exists; writing and removing `daemon.json` does not
  fail. A signal before a daemon serves ends it through the same steps as later.
- Opening and closing a manager is one step in `Daemon`; what happens inside is
  the subject of `Manager`. The exit of the process closes everything.
- In `Gateway` connecting to a daemon, started by the relay or not, is one step
  that succeeds or fails: how it is found is the subject of `Autostart`, how it
  reloads that of `Daemon`. A call downstream returns a result or an error: what the
  manager does to get it is the subject of `Manager`. The order of the servers in
  the catalog, which the code takes from a map, is that of the configuration.
- Arguments arrive inside a message that was parsed as JSON, so parsing them again
  does not fail. `Validate` admits only the two languages that have runners. Counts
  are those of one profile and one daemon.
- A killed script is gone when `cmd.Run` returns; a grandchild that keeps its stdout
  open is not modelled.
- Header injection, environment overlay, interpolation, YAML and the single field
  checks of `Validate` are data; the models keep whether they accept.

## Runs

| Run | Instance | Checks | Shows |
|---|---|---|---|
| `manager_safety` | 1 server (stdio), 2 callers, health loop, 4 sessions | `TypeOK`, `SwapReplacesBad`, `SessionsAccountedFor`, `TreesAccountedFor`, `RerunOnlyAfterLoss`, `RetryUsesNewSession`, `OnlyDeadReplaced`, `ImplementsPool` | redials are safe in every interleaving; who comes late to one leaves the new session alone |
| `manager_liveness` | 2 servers (one stdio), 1 caller, health loop, 3 sessions, fair | `FailedNewManagerLeavesNothing`, `CloseReleasesAll`, `CallReturns`, `DeadIsReplaced` | a partial failure is cleaned up, no call hangs on a mutex, dead sessions heal |
| `manager_closed` | 1 server, 1 caller, 3 sessions | `StaysClosed` (violated) | a closed manager can come back to life |
| `daemon_solo` | 1 admin, 1 IDE, 6 edits, 2 requests, 1 crash, 3 managers, fair | `TypeOK`, `AcknowledgedEditIsLive`, `FailedEditLeavesNoTrace`, `TornOnlyByRollback`, `RequestsReturn`, `ShutdownEnds` | edits are all or nothing for one client |
| `daemon_duo` | 2 admins, 2 edits, 2 requests, 1 edit by hand, 3 managers | `LiveManagerOpen`, `ManagersAccountedFor`, `LiveConfigConnects` | overlapping reloads leak and close nothing wrongly |
| `daemon_lost` | 2 admins, 1 IDE, 2 edits, 2 requests | `AcknowledgedEditIsLive` (violated) | of two clients one may publish an empty file and be told that its edit is live |
| `autostart` | 2 processes, 3 calls, any 2 mishaps, 5 daemons, fair | `TypeOK`, `SoleStarter`, `OneDaemon`, `InfoFindsDaemon`, `AttachToTheSame`, `EnsureReturns` | the race for the start yields one daemon that all find |
| `autostart_stop` | 2 processes, 3 calls, 1 stop | `ServingIsFindable` (violated) | a daemon that stops hides its successor |
| `gateway` | 17 situations: 2 calls, 3 sessions, 2 servers, a ring of 2, a default limit of 1, fair | `OnlyAllowedCalled`, `AllowedIsReachable`, `MostUsedAreDirect`, `DroppedOnlyIfNamesMeet`, `NothingUnvetted`, `ScriptsEnd`, `RecentIsLatest`, `CountsKept`, `OneSession`, `RetriedOnlyAfterLoss`, `CallReturns` | a tool call passes filter and rules, is counted and comes back, whatever happens meanwhile |
| `gateway_collision` | 1 situation: a tool forced to a name another one bears | `NoToolIsDropped` (violated) | a tool can be lost without a warning |
| `tui` | 3 forms with every key of a form; 2 servers, 2 requests on their way and the ticker; every tab; fair | `TypingGoesToTheField`, `FormReleased` | forms take keys where the screen says and are given back |
| `tui_panic` | 2 servers, 2 requests on their way, the ticker | `NeverPanics` (violated) | a list that shrinks below the cursor takes the interface down |

Four sessions for one server are the one that `NewManager` dials and three
redials: two for goroutines that meet the same dead session, and one more for the
third goroutine, late by two replacements, that would tear down a good session if
`Reconnect` did not compare. With a single redial that bug would go unseen. Two
servers are needed where one of them fails or is closed beside another; one redial
and one caller beside the health loop are enough there, as servers share nothing
but `m.mu`.
The proofs remove these bounds for the safety properties. Three managers are the
one of `New` and one for each of two reloads, so two reloads can overlap with the
rollback of one of them failing; two requests are the least that can overlap, two
names the least for a rename. The five daemons of `autostart` are one per call and two
started by hand, so the bound never stands in the way of a start; two mishaps
combine every pair, a crash behind a killed starter's lock among them.

The situations of `gateway` (`MCGateway`) each allow the faults that concern one
part, since the parts meet only in the session and the request. Three sessions let
both calls connect again, one after the other. The two calls with their retries
make up to four records, so the ring of two fills, wraps and wraps again, and they
are enough for two saves to meet or for a save to make up for a failed one. One
request per call is cancelled in a situation of its own. The rules of a situation
show a default priority between others, a tie, both hooks, both languages, both
error modes and a rule that does not apply; the scripts may do anything. The
catalogs are the ways in which names collide: bare with bare, forced with
namespaced, one listed twice (under limits of one and two), and with each meta-tool. A
limit of one and three tools make every rank matter. For paths, the profile moves, another takes its
place, or the relay has none.

In `tui` each form is run alone, since only one is open at a time, with each key
it knows; two requests on their way are the fewest that can overtake each other.
`SYMMETRY` permutes callers or admins, which no
property tells apart, and is used in safety runs only. Deadlock is not checked:
when sessions, requests and managers are used up, or the manager is closed and no
call comes, the system is at rest.

### Fairness

`FairSpec` of `Manager`: Go runs every goroutine that can run (weak fairness on
what a goroutine does next), and `sync.Mutex` hands over to a waiter that has
starved for a millisecond (strong fairness of `LockReconnect`). That a request
and a dial end is an assumption about the world: the health loop sets a deadline
on both, and `CallTool` on the call if `call_timeout` is set, but the dial a
caller makes has only the deadline of the IDE's request, if any. Strong fairness
of the health loop's dial says that a server tried again and again comes up; it is
used by `DeadIsReplaced` alone. `Break`, `CallTool` and `CloseBegin` are not fair.

`FairSpec` of `Daemon`: requests proceed, and shutdown goes on once begun. The health
loop's pings and redials have deadlines, but `Reconnect` waits for the reconnect mutex
without looking at its context: a round is sure to end only if it is again and again
the case that no relayed call redials in the same manager (strong fairness of
`HealthTickEnds` under that condition). A `select` with two ready cases takes either,
so the cancelled loop ends at last (strong fairness of `HealthLoopEnds`). Nothing makes
a caller's redial end, hence the disjunct `<>[](dial # None)` of `ShutdownEnds`: a
daemon told to stop may hang behind such a redial. Nothing obliges a request, a stop,
a restart or an edit to happen.

`FairSpec` of `Gateway`: requests proceed (a script ends or is stopped by its
timeout, a downstream call returns or fails), the steps of a call in the relay are
taken, and `Close` is when the mutex is free. Nothing is assumed of reloads,
crashes, restarts, lost connections and cancelled calls.

`FairSpec` of `Tui`: a request ends, with the client's ten seconds at the latest,
and bubbletea delivers its reply. Nothing is assumed of the user.

`FairSpec` of `Autostart`: processes run, the start of a daemon succeeds or fails,
and `waitFor` looks at its deadline again and again (strong fairness of
`Timeout`). Calls, kills, crashes, stops and starts by hand are not fair.

### Disagreements between documents and code

- `StaysClosed`. `internal/downstream/manager.go:32-33` has callers close the
  manager "to terminate downstream processes/connections", and line 279 says that
  `Close` closes every connected session. `Reconnect` does not look whether the
  manager was closed, so a redial that outlasts `Close`, or one that a handler of
  an old IDE session starts after it, installs a session that nobody closes.
- `AcknowledgedEditIsLive`. `internal/daemon/config_crud.go:13-16` calls the file
  the source of truth after a successful call. Two overlapping edits start from
  the same `d.rawCfg`, share one `.tmp` and reload independently. The run shows one
  truncate the `.tmp` (`internal/config/save.go:22`) between the write and the rename
  (line 25) of the other, which publishes an empty file and reports success. The same
  steps, with a crash of the daemon after the rename, leave an empty file behind,
  although `save.go:10-11` says that a crash in the middle of a write cannot corrupt the
  previous good configuration; that is so with one client (`TornOnlyByRollback`).
- `NoToolIsDropped`. `internal/aggregator/aggregator.go:1-2` and `:26` call the catalog
  collision-free, and `:50-51` says that what collides is forced to its namespaced name,
  "never silently dropped". That name is not compared with the others (line 81): if a
  server that opted out lists a tool under it, the later entry replaces the earlier one
  and nothing is logged.
- `ServingIsFindable`. `internal/daemon/lockfile.go:11-12` says that other processes
  find a running daemon by what it publishes. `Run` removes `daemon.json` when it
  stops, whoever wrote it: the successor that a process started meanwhile, or
  a second daemon started by hand, serves on but is never found again.
- `NeverPanics`, a bug. A refresh replaces the list and leaves the cursor
  (`internal/tui/app.go:148`); `e`, `enter` and `d` check only that the list is not
  empty and index it at the cursor. If the last entry has gone away under it, by a
  delete made here or elsewhere, the interface panics.

Two more have no run of their own:

- Trees. `docs/ARCHITECTURE.md:18-19` says that each stdio server's whole tree is
  force-killed on shutdown. `connect` forgets the command when the handshake fails
  (`internal/downstream/manager.go:119`); `Manager` reaches a closed manager with such a
  tree. `TreesAccountedFor` speaks of the trees that `connect` returned, only.
- Ranking. `docs/CONFIG.md:72-75` says that the ranking of a lazy profile is applied at
  daemon start or `/reload`, and that a tool's visibility changes only then. Each session
  builds its server anew and ranks it by the counts of that moment
  (`internal/daemon/server.go:139`), the session that a relay opens after a lost
  connection among them; the relay's IDE still has the list it was given first.
  `MostUsedAreDirect` says what the code does, each session for itself.

Observations for which no document promises the contrary, or which a model here
leaves out:

- A starter that is killed leaves `daemon.starting.lock`; all later ones wait 45
  seconds for nobody and fail until someone removes it
  (`internal/adminclient/autostart.go:107-121`).
- Sessions that are open keep filter and rules after a reload, and a relay the list of
  tools it was started with.
- Names also meet if `server__tool` of two pairs is the same name;
  `DroppedOnlyIfNamesMeet` shows that where none do every permitted tool can be called,
  whatever plain names servers share.
- A tool called `call_deferred_tool` displaces the meta-tool
  (`internal/gateway/metatools.go:78`), and what lies beyond the limit cannot be called
  then; `AllowedIsReachable` shows that this is the only such case.
- Ties in the ranking, and which of two tools of one name is kept, depend on the
  order of the catalog, which differs from one `Build` to the next as
  `ServerNames` ranges over a map (`internal/downstream/manager.go:157-166`).
- Discovery is by user, not by configuration: a process that names another
  configuration attaches to the daemon that runs. Two daemons of one user share
  `usage.json` and overwrite each other's counts.
- The admin client gives up after ten seconds, which cancels the context of a
  reload that is still connecting.
- The result of a delete, or of a form already left, closes or releases whichever
  form is open by then; a fetched entry opens over another form; an edit of an entry
  that was deleted meanwhile creates it again; fields that are hidden are checked all
  the same; the hint says `enter` saves on the last field, but a yes/no field takes
  it for itself.

## Proofs

Every safety property that a passing run checks, invariant or action property, is a
theorem, for every value of the constants that the `ASSUME` of its module allows. TLC
evaluates those assumptions in the runs. Three theorems have a hypothesis, said
below. None assumes fairness.

The safety properties of the two passing `Manager` runs hold for any number of
servers, callers and sessions and from the single assumption `ManagerAssumption`
(the stdio servers are servers; the pinger is no caller; `None` is none of the
others).

The properties are not inductive: that a swap replaces the right session needs
that the goroutine holds the mutex, which needs that it was the one to take it,
and so on. `ManagerProofs` strengthens them to `FullInv`, in two layers.
`CoreInv` is about control: a manager is handed out only with all sessions
(`HandedOut`), what a goroutine's locals hold at each program point (`Locals`),
who holds the mutex (`MutexHeld`), that a session in use is never dialled again
and the one being replaced is gone for good (`NothingReused`), and that the
comparison of `Reconnect` still holds at the swap (`StillBad`). `AcctInv` is
about what must not get lost: a dialled session is known to its `Reconnect` only
(`FreshUnseen`), the bad session is no longer current after it (`MovedOn`), trees
fit sessions (`TreesFit`), a call ran only where it was sent (`FirstHere`), and
the properties themselves. Between them stands `CloseLoop`: every session that is no
longer in `left` was closed and, as `Close` holds `m.mu`, none was added since.
`CloseReleasesAll` follows from it when nothing is left. There is one lemma per action and layer
(`DialCore`, `DialAcct`, ...), `NextCore` and `NextAcct` collect them, and the
theorems follow by propositional temporal reasoning.

`ManagerRefinement` proves `Spec => ImplementsPool`. It adds two facts: a request
in flight on a live session is on the current one (`LiveIsCurrent`), and a
goroutine without a call knows no server (`OneCallAtATime`). `DialInitial` and
`Swap` map to `Install`, `Break`, `CloseSession` and `ReleaseOld` to `Lose` or to
nothing, the rest to call steps or to nothing.

`AutostartProofs` proves types, `SoleStarter`, `OneDaemon` and `InfoFindsDaemon` from
`AutostartAssumption` (the constants are numbers, the sentinels are no daemons).
`OneDaemon` is not inductive: why does the second look under the lock not start
another daemon? `Orderly` gives the reason. While a daemon comes up the lock is
taken, by its starter or, if that was killed, by nobody for ever, and no one is at
a point from which the lock could be released or a daemon spawned
(`ComingIsLocked`); it is alone in writing `daemon.json` (`BlankIsTorn`); and when
it serves, the file names it and whoever is at the second look has read no other
name (`ServingIsFound`). A stop, a start by hand and a slow start disturb this
for good (`Disturbance`, `MishapDisturbs`); crashes and kills do not.
`AttachToTheSame` needs more, that nothing at all goes wrong: then whoever waits does so
for a daemon that is on its way or for a starter that is about to spawn one
(`WaitForOne`), a lock has a holder (`LockIsHeld`), and what was returned serves
(`GotServing`); one daemon at a time makes it the same for all. Their conjunction is
`Calm`, and a mishap ends it for good (`MishapEndsIt`).

`DaemonProofs` proves for any number of admin clients, IDE sessions, edits, crashes
and managers that the manager in use is open (`LiveManagerOpen`), none is forgotten
(`ManagersAccountedFor`) and the running configuration did connect
(`LiveConfigConnects`), from `DaemonAssumption`. The invariant says what each
request holds where it reads it (`Locals`), that `Main` runs nothing but the reload
of `New` (`MainStarts`), and that each open manager is the current one or is held by
exactly one reload (`LiveIsOpen`, `HeldOnce`, `OpenIsHeld`). Without `HeldOnce` two
reloads that overlap could close each other's manager.

That only a rollback leaves the file without a configuration (`TornOnlyByRollback`) is
proved for one admin client (`OneWriter`), with crashes and edits by hand: the `.tmp` is
then its own (`TmpIsAlone`), and what it renames is what it wrote. With two the run
`daemon_lost` shows the contrary.

`AcknowledgedEditIsLive` and `FailedEditLeavesNoTrace` are proved for one admin client
and no edit by hand (`OneClient`). The hypothesis is not for convenience: with a second
client the run `daemon_lost` shows the first of them violated, and an edit by hand that
falls between a save, or a rollback, and its reload makes either false. `Alone` says how the file, the
running configuration and the raw one relate at each point of the one request: equal,
but while an edit has been saved and not yet swapped in or taken back
(`RunsWhatWasRead`, `EditIsAlone`); and that what a reload has read is still what the
file holds (`ReadIsCurrent`).

`ArrangementProofs` proves what `Only` and `StableSort` return for every sequence: by a
strict total order each position has its own number of others ahead (counted with the
theorems about finite sets, in place of an induction), so each is taken once, in order.
The other modules cite `OnlyPicks`, `SortPicks` and `StableSortIs`.

`GatewayProofs` is about the relay and the sessions.
- `OneSession` and `RetriedOnlyAfterLoss`, for any number of calls, sessions and
  faults. `RelayInv` adds who holds the mutex (`HolderIsRetrying`: exactly a call that
  dials or sends again), that a session a call has failed on stays lost
  (`RetryingLost`), and what the state of `RunStdio` says of session and calls
  (`PhasesAgree`).
- `DroppedOnlyIfNamesMeet`, for every listing, filter and set of servers that opted out.
  `ExposedIs` says which of its two names `Build` gives a tool, and `NamesKeptApart` that
  two tools then have different ones: two that collide are both namespaced, two that do
  not have different candidates. Hence a name called leads to the tool that bears it.
- `AllowedIsReachable` and `MostUsedAreDirect`, for any catalog, profile and counts.
  First for the functions: what the server of a list of entries offers
  (`BuildServerOffers`, `LazyServerOffers`) and that the first of a sorted list are
  those used most, and as many names as entries if no name comes twice
  (`ShownAreMostUsed`, `NamesCounted`). Filter and ranking keep the order of the catalog
  where counts are equal (`FilterEntriesPlaces`, `SortByUsagePlaces`), so an entry that
  comes before another one in that order comes before it in the list. Then for sessions: `SessionsBound` says that each
  is still bound to what was built when it was opened, from a configuration that was
  loaded and the counts of then.
- `OnlyAllowedCalled`. That a request bears an entry of its session's profile must
  survive that sessions are bound while requests run: a session that is used was
  opened before (`UsedIsOpen`), and an opened one is not bound again.

`DispatchProofs` is about the daemon's requests, for any number of them and any
rules, with crashes at any moment. `NextIs` reduces a step of `Gateway` to one of
`Dispatch` or none.
- `ScriptsEnd`. `ScriptInv` adds only that a request has the fields of one.
- `CountsKept`. `CountInv` says for each request how far its count has come
  (`KeptOf`): who saves holds `Store.mu`, so `.tmp` holds all that is counted when it is
  renamed. The totals are cardinalities of sets of requests; each step moves one
  request from one set to another, the rename a whole set.
- `RecentIsLatest`, for a ring of any size. `RingInv` says in which slot each of the last
  calls is, counted backwards from the next one to be written; a record moves each of
  them by one, and `recent` reads them off whether the ring has wrapped around or not.
- `NothingUnvetted`. `Orderly` says that what has fired and what is still to fire make
  up, in order, the rules that apply (`Queued`), that all but the last were passed, and
  that the value is what they rewrote, which each verdict preserves
  (`HookGoesOn`). `ThroughIsVetted` then compares with the property, which counts the
  rules of the file instead; it needs that their names are unique, as `Validate` demands.

`TuiProofs` proves `TypingGoesToTheField` for every form and any entries. A field is shown
or not by the value of one before it, the transport of a server, the lazy switch of a
profile or the language of a rule (`Gate`), so changing the focused field leaves it where it is; moving the
focus stays within what is shown.

### What the proofs corrected

- `MostUsedAreDirect` asks for a full list only where names are unique, and used to
  count a set of entries to see that. A server that lists a tool twice contributes two
  equal entries, which a set counts once; both may be among the first of the ranking,
  and then the list is shorter than the limit. The property now counts positions of the
  catalog, and an instance has the case (a tool listed twice under a limit of two).
- Stating what a setup is as an assumption showed one instance with two profiles of one
  name, which no daemon loads, and a type of `Tui` that claimed too much of what may be
  fetched for editing. Both are corrected.
- Filtering and sorting were recursive; they are now `Arrangement`.

### Only model-checked

The liveness properties, since fairness and `ENABLED` are out of the prover's reach:
`CallReturns` of `Manager` and of `Gateway`, `DeadIsReplaced`, `RequestsReturn`,
`ShutdownEnds`, `EnsureReturns` and `FormReleased`. The properties of the runs that
expect a violation are false, so there is nothing to prove.

## Not modelled

- The command line: flags, and a choice among the parts above.
- Of the terminal interface, what it draws and the conversions between a form and an
  entry; arguments that contain a comma come back split.
- Of the admin client, URLs, token and encoding. Its requests and replies are in `Tui`
  and `Daemon`.
- Of the configuration, YAML, `${VAR}`, the starter file and those checks of `Validate`
  that concern one field, except where they are the types of `Gateway`. They accept or
  reject, and keep no state.
- Of the runners, the JS interpreter, the compile cache and the environment of a
  Python script. They change no outcome that the model tells apart. Engine errors for
  a missing runner or an unknown action cannot happen, and neither can a failure to
  parse arguments again.
- `internal/transport/listtools.go`, a client that lists and ends.
- The MCP SDK and the operating system, except for what the code relies on.
- Two more hazards have no property. A crash between the save of an edit and its
  reload leaves a configuration nobody has connected to; an edit by hand that was not
  reloaded is overwritten by the next one through the API. `Daemon` reaches both
  states, and no document says that it should not.
