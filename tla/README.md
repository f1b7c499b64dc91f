# BPB Action Mesh: specifications

TLA+ models of this repository, the configurations that check them with TLC,
and theorems about them that TLAPS checks.  The repository is called
`retry-queue`; what it contains is the BPB Action Mesh: GitHub Actions runners
that host short-lived proxies, a Cloudflare Worker that lists them, and tools
that record and judge the state of the swarm.  Its README describes a
`RetryQueue` class; there is no such class in the source, and nothing here
models one.

All definitions follow the source at this commit, also where the source
disagrees with its comments or its tests.  Such places are under *Findings*.

## The system

```
 proxy.yml job  --POST /register, /heartbeat, /mesh/...-->  Worker  <--GET /sub/all, /proxies--  clients
   (Runner)     <--------- 200 / 400 / 401 / 404 --------  (Coordinator)     (panel, subscriptions)
                                                               |
 tools/* -> JSON files -> ci-pipeline -> SwarmLedger file      +-- KV namespace or in-memory Map
 (Inspectors,  (Pipeline, Projections,   (Ledger, Causal)
  TunnelCli)    Contradictions)

 harness -> libp2p nodes of a test cluster (Harness)
```

### Components

| Component | State | Operations | What makes it correct | Status |
|---|---|---|---|---|
| Coordinator, `worker/src/index.ts` | `proxy:<id>` and `mesh:<network>:<node>` entries with expiry, in a KV namespace or a `Map` | register, heartbeat, delete, sub, sub/all, proxies, mesh register, heartbeat, deregister, status, snapshot | a lease ends when it should, the last registration wins, listings are true, every request is answered | modelled, except endpoints without state |
| Runner, `.github/workflows/proxy.yml` | `EXPIRES_AT`, the turn of the keep-alive loop, its sleeps, the response awaited | expiry, register, heartbeat, re-register, mesh calls, deregister, cancellation | a running proxy is listed, a dead one is not | modelled from the expiry on |
| Ledger, `tools/ledger/src/ledger.ts` | the file; per instance a logical clock and a cache | constructor, append, correct, loadAll and its readers, `_reset` | append-only, logical times in order, reads complete | modelled |
| Causal index, `causal.ts` | none | `buildCausalEdges`, `getAncestors`, `getDescendants` | the edges are a DAG | the edges modelled |
| Projections, replay, contradictions | none | views of the events, replays, five rules | replays reproduce verdicts, a verdict is about the latest findings | modelled, except projections that are only printed |
| Schema, adapters | none | `normalizeKey`, `normalize*` | every event has a canonical key | adapters modelled |
| CI pipeline, `tools/ci` | the ledger of earlier jobs | ingest or demo, append, judge, exit | the verdict is about this job, and says so in its exit code | modelled |
| Tunnel emitter, `tools/mock` | `_started`, `_stopped`, pending timers; the exit code and file of the command line | `start`, `fail`, `reconnectAfter`, `close`, command line | nothing after `close`, reconnections end, the exit code is true | modelled |
| Cluster harness, `tools/harness` | the nodes and what was seen of them | spawn, announce, verify, bury, score, stop | a successful result means a connected cluster without stale records | modelled |
| Ghost detector, keyspace inspector | the scan, the dump | get by get, pass by pass | only what is dead is called dead | modelled |
| Validators | none | count, percentage, exit code | the exit code and the advice agree | `validate-bootstrap` modelled |
| Mesh node, `node/src` | DHT, cache of records | announce, discover, index, mirror | -- | does not run at this commit |
| Logger, simulations, panel, scripts | none that others read | I/O | -- | not modelled |

The runner, the only writer of proxies, and the coordinator interact by HTTP
calls that can be lost or answered late.  The handlers of the Worker interact
with each other through the store, at every `await`.  The tools leave JSON
files, which the pipeline of a CI job enters into a ledger file that outlives
the job.  The inspectors read a DHT that nodes go on changing; the harness
drives a DHT of its own.  The panel and subscriptions only read.

### Hard behaviours

* Handlers of the Worker interleave at each `await`; `/heartbeat` reads an
  entry, awaits and writes it back (`index.ts:608-629`, `722-732`).
* The in-memory store is lost with its isolate; handlers die in the middle.
* Four endpoints compute TTLs in three ways, with different caps and defaults.
* Jobs are cancelled or time out, and never deregister then; attempts of one
  run share the proxy id; calls are lost in either direction, last as long as
  they like, and may outlive the attempt that made them.
* Processes write the ledger one after the other, or at the same time, and
  their writes can stop half way.
* A verdict is computed from all events of the ledger, those of earlier jobs,
  of the demo and of a job that died included.
* The inspectors read the clock, the records and the tombstones at different
  times, while records expire, are renewed and are buried.
* The tunnel's timers are never cleared: they fire late, after `close`, and
  between those of other reconnections.
* The harness races announcements against a timeout, and those that lose go on
  in the background; connections come and go between its phases, and its
  tombstone is put without a timeout.

`PROJECT.json` lists these hazards at their lines with the properties that
watch them, and those that no property watches, with the reason.

## The modules

| Module | Role |
|---|---|
| `Coordinator` | the Worker: one action for the code between two awaits |
| `CoordinatorHistory` | adds what clients did, for properties of past and present |
| `Registry` | abstract: leases that are announced, renewed, withdrawn |
| `CoordinatorListing` | adds what was live while a listing runs |
| `Runner` | the workflow, composed with `Coordinator` |
| `Ledger` | `SwarmLedger`: a file, several instances |
| `EventLog` | abstract: one append-only log and its readers |
| `Causal` | the causal index over the events of `Ledger` |
| `TunnelEmitter` | `TunnelEmitter`: its methods and its chains of timers |
| `TunnelCli` | who uses it: its command line, or any program |
| `Inspectors` | ghost detector and keyspace inspector over a changing DHT |
| `Projections` | adapters, latest events, replays: operators on events |
| `Contradictions` | the rules and the exit code |
| `Pipeline` | composes the three: CI jobs over one ledger |
| `Harness` | the cluster harness, its phases and scores |
| `CoordinatorProofs`, `HistoryProofs`, `ListingProofs`, `RunnerProofs`, `LedgerProofs`, `TunnelProofs`, `PipelineProofs`, `HarnessProofs` | theorems |
| `MC*` | values for TLC |

Definitions that a comment marks `[mutant]` are mistakes this code could have
made.  No specification uses them: each shows that a property would notice.

### Coordinator

`proxies[id]` and `records[<<net, id>>]` hold an entry `[value, expires]` or
`Absent`; `req[r]` is the handler that runs in slot `r`: the request, the
await it stands at (`step`), and the local variables that survive the await.
`Send` starts a handler, and every other action runs it to its next call of
the store.  Requests have the fields that the handlers branch on; secrets,
hosts and names are members of small sets.  `check` says which of the early
returns (401, 400) applies, so that authentication is an outcome of a request
and not a string comparison.

The two stores differ in what is modelled: the `Map` sweeps expired entries
when `kvGet` or `kvList` meets them (`Swept`) and dies with the isolate
(`Restart`); the namespace drops them itself (`Dropped`), survives, and can
throw between any two calls (`Fail`).  The namespace is linearizable here; the
real one is eventually consistent, which the source says nothing about.

`verifyPublicRecord` rejects every record at this commit, so `MeshRegister`
answers 400 and no mesh record is ever created.  Records that exist in a
namespace were put there by an earlier deployment: `InitRecords` begins with
any of them.  That keeps heartbeat and deregistration of the mesh reachable.

`Registry` is the abstract specification.  Under `VisibleLease` (an expired
entry counts as none) the interleaved handlers implement it: each step is an
announcement, a renewal, a withdrawal, the loss of a volatile store, the
passing of time, or nothing.  A renewal may restore *any* earlier value of
the id, because a heartbeat does; `LatestWins` shows that only a race does.

### Runner

A job has a `phase` (the step of the workflow it is in), an `attempt`,
`expiry` (`EXPIRES_AT`) and the `round` of its loop.  `Call` sends the message
of the phase through a slot of the coordinator, `Answer` moves on by the
response code, `Lose` by its absence (`|| echo "000"`): the handler of a lost
call may still run to its end later.  `Kill` is a cancellation, a timeout or a
failed step; `Dispatch` is a new run or a re-run.  A run's id is new, so that
nothing is registered under it at first.

One unit of time is 2.5 minutes, half of the heartbeat period.  No curl of the
job has a time limit, and the loop only sleeps between its calls, so `Pass` lets
time go on whatever is in flight: a call takes as long as it likes, the loop
drifts by what its calls took, and a heartbeat goes out when its sleeps are over
*or later* (`Sleeps`, `wake`).  `timeout-minutes` bounds this: a job ends within
`Grace` of its timeout.  A run may be dispatched again while the Worker still
works on calls of its last attempt, which was cancelled or timed out.

Two ghost variables tell what that leads to.  `late[j]` is when a call was last
handled after the expiry it names; the Worker then takes an hour for it, and
`NoGhost` grants that hour and nothing else.  `overtaken[j]` says that a call of
an earlier attempt was about to store its endpoint when the registration of the
present one was stored; that endpoint may then be served, and every later
heartbeat renews it.  `ServesCurrentAttempt` excludes this, and says that no
other order of handlers, losses, restarts and deletions has the same effect.

`clean` and `healed` observe, too: a round is clean if no fault met the job in
it, and a job is healed from the end of a clean round until its store is lost,
its proxy deleted by somebody, or written by a call of an earlier attempt.

### Ledger and Causal

`lines` is the file, a line that is no JSON document is `Garbage`, `ending`
says how the last write left it.  Methods are synchronous, so each is one
action, but any number of instances (processes) may have the file open if
`Concurrent` holds; `tools/ledger/tests/gaps.test.ts` does that, the CI
pipeline opens one at a time.  A write fails in the ways `WriteFaults` names:
nothing written (`lost`), a part of the document (`torn`), or all but the
newline (`unended`).  The clock advances before the write and is not put back.

`EventLog` is the abstract specification: one log that only grows, and readers
that see it as it was at some moment.  That it is ordered is what `ClockOrder`
adds where one instance at a time has the file open.  `Causal` adds the edges of
`buildCausalEdges`; its sort is stable, so that equal times keep the order of
the file.

### TunnelEmitter and TunnelCli

Every timer of the emitter is the continuation of one before it, so the model
has *chains*: that of `start`, and one for each call of `reconnectAfter`.
`timer[c]` says what chain `c` does next and in how much time.  A unit is half
a second, and durations are any of `Duration` within the limits the code draws
them from.  Timers fire in the order in which they were due, at most `Lag`
late, and nothing clears them.  `emitted` is the list of events, each with the
chain that emitted it.

`TunnelCli` gives the emitter its caller.  With `status = "library"` a program
calls the methods in any order.  Otherwise it is the command line, with any
combination of its options, `NaN` for what `parseInt` does not understand.
`parseArgs` takes negative numbers, too, and any that are too large: `Millis` is
what `setTimeout` makes of them, a millisecond for what is not within its range
(`MaxDelay`, 2^31 - 1 ms in Node), and a millisecond is no time here.  The program
listens to the events, writes the endpoint to a file (which may throw), waits
for a final event or for a fixed time, and exits.

### Inspectors, Projections, Contradictions and Pipeline

`Inspectors` has the DHT as its environment: time passes, records are renewed,
peers get tombstones.  The ghost detector takes the time once (`at`), gets one
record after the other and then the tombstone of its peer, unless it is cached;
each get is an action and may fail.  The inspector reads a dump, then counts,
labels and sums up, each with a reading of the clock of its own.  A scan
remembers what the DHT held when it began (`records`, `graves`), for the
properties.

`Projections` and `Contradictions` are operators: what the adapters make of a
result, which event of a key is the latest, what a replay returns, and what the
five rules find.  The projections that only the report prints are left out: no
verdict depends on them.  The code sorts a copy of the events by `logical_time`
and folds over it; a view in the model picks the event that comes last in the
order of that stable sort (`Earlier`: the time, then the position).  A list is a
function from positions, so that a replay, which lets some events through, is a
restriction.  `Pipeline` composes all of them.  A job runs the
inspectors, takes the results of the other tools from small sets, and is then
judged in one step, because `ci-pipeline.ts` awaits nothing: `Judge` appends
the events and applies the rules to the whole ledger; `AppendFails` stops in the
middle; `CannotOpen` meets a ledger whose last line is torn.  The ledger here is
the list of events that `Ledger` has as documents in a file; its clock is
the number of lines, as `ClockOrder` allows for one process at a time.

### Harness

`phase` and `at` are the place in `runHarness` and `spawnCluster` and the node
that its loop has come to; `announced` and `putting` tell nodes whose
announcement was awaited from those whose announcement is still under way.
Nodes, connections and records are the environment: connections come, a bounded
number is lost, a get answers with what is there or with nothing.  Scores are
integers, in units of which every constant in `metrics.ts` is a multiple.
`createDHTNode` and `announceProxyConfig`, which `cluster.ts` imports, are missing
at this commit (`dht.ts` has no such function, `announce.ts` does not parse);
they are modelled as the harness uses them.  The nodes of the cluster know no
others: what `getPeers` counts is nodes of the cluster.  That is an assumption
about `createDHTNode`; with other peers in the count neither the convergence nor
the topology that the harness reports would say anything about its nodes.

## What is checked

| Run | Question | Result |
|---|---|---|
| `coordinator_proxy` | do the interleaved handlers of two proxies with two endpoints, with restarts of the in-memory store, keep them apart and implement the registry? | pass |
| `coordinator_mesh` | the same for one proxy beside the mesh endpoints on a namespace, with failures between any two calls: what brings an old value back, and how long is a lease? | pass |
| `coordinator_listing` | is a listing a regular read of every key, and is every request answered? | pass |
| `coordinator_valid_record` | is a valid signed record accepted? | violated |
| `runner` | is a proxy listed while its job runs, by how much may it outlive it, and which attempt is served, over faults, slow calls and two attempts whose handlers overlap? | pass |
| `runner_serveo` | does a re-registered serveo proxy keep its transport? | violated |
| `ledger_sequential` | order, cache and causal index over sessions, every kind of failed write, resets | pass |
| `ledger_dag` | is the causal index a DAG with two instances? | violated |
| `ledger_torn` | is a confirmed event kept after a torn write? | violated |
| `tunnel` | what follows `close`, do reconnections end, and is the exit code of the command line true, with late timers? | pass |
| `pipeline` | what may the inspectors call dead, and what do the verdicts of two or three jobs over one ledger depend on? | pass |
| `harness` | what does a successful or green result say of the cluster, and does the harness end, unless a put hangs? | pass |

### Bounds

* *Coordinator*: two requests in flight are what every race of this code needs
  (one holds a value, the other changes it); a slot is used again and again,
  so that the sequence of requests is unbounded.  `coordinator_proxy` has two
  ids and two endpoints, so that a handler could serve the value of another id or
  an older one; no client names an expiry there.  `coordinator_mesh` has one id
  with the record and the proxy that share it; its values differ by the expiry
  that a client names, an absolute one or none.  `Horizon` (2 or 3 units) lets a
  lease begin, be renewed at its last moment, and end; the TTL constants keep
  their order (`MinTTL <= DefaultTTL < DefaultTTL + Buffer <= MaxTTL`).
* *Runner*: `Rounds = 2` of the code's 9 heartbeats (the loop is the same in
  each), so that a job lives for 4 units, with one unit for its setup and one of
  grace.  Buffer, default and cap shrink with it (`Buffer = 1`, `DefaultTTL = 2`,
  `MaxTTL = 5`): the default is shorter than a life, so that a late heartbeat
  prolongs a lease and does not hide one.  Two faults suffice to lose the store
  and a call after it.  Two attempts with two slots let a handler of the first
  meet one of the second; `Horizon = 6` covers one that is cut short, the life of
  the other, and the first moments of a lease that a late call prolongs.
* *Ledger*: four events and two instances; with that, three sessions, a fault
  in each and a correction fit.  `ledger_dag` and `ledger_torn` need fewer.
* *Tunnel*: two reconnections can overlap, and `Duration = {2, 6, 8}` has the
  shortest and the longest latency of a reconnection (1 and 3 seconds), a
  latency of `start` and a delay of a midlife reconnection, that meet in
  different orders.  `Latency = {-1, 0, 12}` makes the tunnel ready before and
  after the forced reconnection, `After = {-8, 0, 3, 4}` begins that at once or
  later.  `MaxDelay = 13` puts 3 on the one side of the range of `setTimeout`, with
  the ten units (5 seconds) that the command line adds, and 4 on the other; with
  -8 the wait is over before the tunnel is ready.  One `fail` is enough to come
  between any two events, and `Lag` is a whole unit.
  `CliVerdict` needs it to be less than four (the two seconds by which the wait of
  the command line exceeds the longest latency); TLC refutes it at four.
* *Pipeline*: three keys (a peer with both protocols, so that the cache of
  tombstones is used, and one whose peer is buried, expired or not to be
  read), one renewal or burial, and two units of time, in which a record passes
  its expiry.  `HardSkew = 1` and `SoftSkew = 2` put each comparison on either
  side of both limits.  The six plans order the tools so that each rule meets
  findings of the same job and of an earlier one, and the demo before and after
  them; the peer checks are none, none of two, one of two and two of five.  One
  append fails, before any event or after two.
* *Harness*: the three nodes of the smoke mode, any of which can fail to start;
  the node that is killed is the last, as by default.  Two polls are one that
  fails and one that decides; one connection is lost after convergence.
  Properties whose truth depends on the number of nodes name it.

Clocks are bounded, and jobs and programs end, so the runner, ledger, tunnel,
pipeline and harness configurations switch the deadlock check off;
`Coordinator` never stops and keeps it, apart from time.

### Fairness

* `Answered` assumes weak fairness of every handler (`LFairSpec`): a Worker
  resumes a handler whose call of the store has returned, and no handler waits
  for another.  Clients, time and restarts are under no fairness.
* `TunnelEnds` assumes weak fairness of time, of the timers and
  of the steps of the command line: an event loop runs what is due.  The calls
  of another program, `fail` and `close` among them, are under none.
* `HarnessEnds` assumes weak fairness of the harness without its puts
  (`WF_vars(Step)`): its timers fire, and what it awaits of a node besides a put
  (start, dial, get, stop) ends or fails.  A put is under no fairness, because it
  hangs on an isolated node (`cluster.ts:59-62`, `196-197`): that of an
  announcement is raced against a timer, that of the tombstone (`runner.ts:80`)
  is not, so that the harness may wait for it for ever.  `HarnessEnds` says that
  it waits for ever nowhere else.  That nodes connect is not assumed.
* Runners are under none: a job may be cancelled at any time, so nothing it
  does is certain to happen, and what it guarantees is stated as safety
  (`ListedWhileRunning`).  Neither are the jobs of the pipeline, whose
  properties are about what a verdict says once there is one.

## What is proved

For every value of the constants that the named assumptions allow:

* `CoordinatorProofs`: `TypeCorrect`, `HandlersInOrder`, `MeshLeaseBounded`,
  `ProxyLeaseBounded`.  The inductive invariant is
  `TypeOK /\ HandlersOK /\ MeshLease /\ ProxyLease`.  None of the parts is
  inductive alone: the write after an await uses a value and a TTL read
  before it, so types and leases after the write depend on `HandlersOK`; the
  TTL that `/mesh/heartbeat` carries to the proxy is within the cap only
  because `HandlersOK` says so.  `CoordinatorAssumption` states the order of
  the TTL constants, `AbsentAssumption` that null is none of the values.
* `HistoryProofs`: `OnlyRegisteredServed`, `LastRegistrationWins`,
  `RegistryImplemented`, over the history that `CoordinatorHistory` adds.
  `LatestWins` is not inductive: an old value comes back from the hands of a
  heartbeat, so the invariant adds `HeldFresh` (what a handler holds is the
  latest value, or its id is marked as raced).  The proof sorts the steps into
  those that write the store (`StoreStep`), those that change what a handler
  holds (`HolderStep`), and what the observer notes of either (`Observed`).
  `RegistryImplemented` is `HSpec => ImplementsRegistry`: each handler step
  maps to one step of `Registry` under `VisibleLease`, or to none; a sweep of
  expired entries is invisible.  Its invariant adds the types of the history
  (`KnownOK`): the value a renewal restores is a registered one because of
  `ServedWasRegistered`.
* `ListingProofs`: `ListingsSound`, `ListingsComplete`.  The lemma `Watched` says
  what the observer notes in each step; the two properties are then inductive
  with the invariant of `CoordinatorProofs`.
* `RunnerProofs`: `RunnerTypes`, `RunningIsListed`, `NoProxyOutlives`,
  `CurrentServed`, for any number of runs, attempts, heartbeats, slots and
  faults, calls of any length, and handlers that outlive their job.  The common
  invariant `RInv` is that of `CoordinatorProofs` with the clock of an attempt
  (`Clock`: its expiry is at most a life away), with what is in flight (`Slots`: a
  request is of the current attempt of its run or of an earlier one, and none
  names a later expiry than the current one) and with who waits for it
  (`Lines`).  `ServeEffects` sums up what any handler may do to the proxy of a
  run; each property then has an inductive part of its own: `Leases` (no lease
  exceeds that of the latest attempt, but for what a late call took), `Current`
  (from its 200 on, no older endpoint is stored *or held by a handler that will
  store it*, unless one was when the registration was stored) and `Renewed` (in a
  round without faults, the proxy is there from the response that says so, with a
  lease that reaches the end of the buffer).  `RunnerAssumption` asks that the
  life of a job and the buffer fit the cap (50 minutes and 2 hours), that the
  default is at least the buffer (an hour and 5 minutes), and that the hash which
  names a mesh node is no proxy id.
* `LedgerProofs`: `LedgerTypes`, `OwnWritesRead`, `NoSilentLoss` and
  `LogImplemented` for any number of concurrent instances; `OneWriterInOrder`,
  `OneWriterReadsAll` and `OneWriterDAG` under `~Concurrent`.  `OwnWritesRead`
  needs that a readable file has every confirmed event (`AckedInLines`), which
  is also `NoSilentLoss`; that the clock read from a file is a number needs the
  existence of a maximum, which is an induction over the file: `PrefixMax`, a
  maximum for every prefix, makes the induction one over steps, because a write
  extends the file by one line or ruins its last one.  `OneWriterInOrder` rests
  on `ClockAhead`: the clock of the open instance is not behind any line.
  `LogImplemented` maps every step of the ledger to one of `EventLog`: a write
  appends at most one event, and a read or a session shows the log as it was at
  some moment, or throws.
  `OneWriterDAG` is about the causal index: ids are fresh and a parent's id was
  drawn before (`ParentsUsed`), so a parent is earlier than its children
  (`ParentFirst`); with `ClockOrder` every edge leads to a later event, and the
  earliest event of a set has no predecessor in it.  `ledger_dag` shows that
  the assumption of one writer is needed.
* `TunnelProofs`: `TunnelTypes`, `ReconnectionsEnd`, `QuietWhenClosed`, for any
  durations, any `Lag` and any number of reconnections and failures, whoever
  calls.  `ReconnectionEnds` speaks of the state without timers; the invariant
  `ComesBack` says that as long as a reconnection is not answered, some chain has
  a timer that will announce the tunnel, which each step keeps: a `READY` answers
  all reconnections before it, however they overlap.
  `CliVerdictHolds` proves `CliVerdict` for any options, and for timers that are
  late by less than two seconds (`Lag < 4`, a hypothesis of the theorem).  Any
  integer is an option; the premise `InRange` of `CliVerdict` leaves out only
  those `--reconnect-after` for which the wait is not what it was meant to be.
  `CliInv` says which timers the command line has while it waits, and that one
  that will announce the tunnel fires before the wait is over (`Ahead`): the
  wait ends five seconds after the reconnection began, which takes three at
  most.  Two timers that are late by two seconds may fire in either order.
* `PipelineProofs`, on the inspectors: `GhostsWereDead`, `OrphansGrowOnly`,
  `OrphansAreGhosts`, for any number of keys, renewals, tombstones and failing
  gets, and `AdviceIsVerdict`, on the percentage of `validate-bootstrap`.  The
  invariant says that a record is the one that was there when the scan began, or
  was renewed since and lives beyond its time (`ScanWorld`; a time to live is not
  zero), and that a key that the scan has done with is a ghost if its record
  has expired, unless it is buried or a get failed (`ScanComplete`).
* `PipelineProofs`, on the jobs: `PipelineTypes`, `HardFindingsAreFresh`,
  `ReplaysReproduce`, `DemosAreClean`, for any number of
  jobs, any plans and results, and an append that fails anywhere.
  `PipelineAssumption` asks that there is a job, that the node count of a
  simulation is a number, and that `None` is not a peer.  The invariant
  `PInv` has a part for the ledger (`LedgerOK`: event `i` has time `i`, and is
  what an adapter may say of its key, `Fact`), one for the verdicts
  (`VerdictsOK`: each is the judgement of the prefix that its job read) and one
  for the job that has just been judged (`Current`: its events are the end of the
  ledger, all entered at the same time).
  `ReplaysReproduce` follows because the events up to the end of a job are that
  prefix, whatever was appended since.  `HardFindingsAreFresh` rests on
  `FreshLatest`: of a key that a job reports itself, the latest event is its own.
  That a latest event exists is the existence of a maximum (`Greatest`), by
  well-founded induction; what the results of a job say (`IngestSays`) is shown
  tool by tool.
* `HarnessProofs`: `StaleFails`, `BurialStands`, for any number of nodes.
  `BurialStands` needs that a node that counts as announced has no call under way
  (`AnnounceOrder`); `StaleFails` is the arithmetic of the tombstone score
  (`StaleIsRed`).  The invariant also says that no node is missing once the
  cluster has converged (`NoneMissing`): if a node failed, each of the others has
  fewer peers than `Converged` asks for (`FailureSpoilsConvergence`), because
  connections join nodes that did start (`LinksOK`).
  `HarnessTypes`, `SuccessConnects` and `GreenLists` rest on `HarnessInv`, which
  adds what the harness has looked at when it judges (`Looked`), the scores as
  counts of edges, announcements and findings (`Counted`), and what the verdict
  said of them then (`Judged`).  A node without a connection costs `NodeCount - 1`
  edges (`CountEdges`), one that nobody found as many pairs (`CountPairs`).  Up to
  five nodes, with the penalty for an isolated one, or among three without it,
  the score is then too low (`AvoidedNodeCosts`, `UnlistedNodeCosts`): the
  premises of the two properties.

Only model-checked is liveness (`Answered`, `TunnelEnds`, `HarnessEnds`), because
fairness and `ENABLED` are beyond the prover.  Every invariant, every other
action property and every refinement that a passing run checks is stated by a
theorem.  What `FoldLeft` computes would need induction over data, and is not
proved: the proofs treat the sum of a simulation's counts (`Total`) as a value
like any other.

## Findings

* `coordinator_valid_record`: the unconditional return at `index.ts:370` makes
  `verifyPublicRecord` refuse every record; the tests of the Worker expect a
  valid one to be accepted (`index.test.ts:899`, `1724`).
* `runner_serveo`: a serveo job whose record was lost registers `tcp`
  (`proxy.yml:531`), against the comment at `proxy.yml:327`.
* `ledger_dag`: two instances on one file give equal or decreasing logical
  times, and the "DAG" of `causal.ts:2` has a cycle.
* `ledger_torn`: an event appended after a write that was cut short joins the
  broken line; `append` returns, the event is gone (`ledger.ts:66` against
  `ledger.ts:5`).

One disagreement is proved and has no run: a node that fails to start makes the
whole harness fail after its timeout, because the nodes left are asked for as many
peers as there would be with it (`minPeers`, `cluster.ts:157`; `NoneMissing` in
`HarnessProofs`).  The comment and the warning call such an error non-fatal
(`cluster.ts:152-155`), and the tests hand out a cluster with a node that is null
(`cluster.test.ts:153`, `205`, `251`: "continues when a non-bootstrap node fails to
start").  They pass because their mock of `getPeers` gives each node three peers,
also in a cluster of two.

The following came up in the models as behaviour of the code that no text of the
repository contradicts; the properties carry the premise that excludes it.

* A heartbeat that is handled after `EXPIRES_AT` renews its proxy for an hour and
  the buffer, since a negative rest counts as none (`index.ts:617-623`): a slow
  call or a loop that drifted leaves a ghost for that long (`late` in `NoGhost`).
* A call of an earlier attempt that the Worker still handles when the next one
  registers puts the old endpoint back, and the heartbeats of the new attempt,
  which name an id only, renew it until its end (`overtaken` in
  `ServesCurrentAttempt`).
* Nodes of the same id in two networks share one proxy, which the deregistration
  of either deletes (`index.ts:749`); no property says otherwise.
* The rule `node-liveness-consistency` can never fire (`contradictions.ts:123`);
  the tests say so (`contradictions.test.ts:190`).
* A job that does not report simulation, bootstrap and tunnel itself can fail for
  what an earlier job reported (premise of `HardIsFresh`).  `dht.state.clean`
  is never withdrawn, so that a drift stays.
* A torn ledger makes each later job exit with 1, the code of a drift
  (`ci-pipeline.ts:417`).
* `--reconnect-after` that is no number, or so large that `setTimeout` does not
  take the wait, ends the tunnel mock at once with code 0; one that is negative
  shortens the wait, so that it ends with 0 before the tunnel comes back or is
  there at all (premise of `CliVerdict`).
* The live mode of the keyspace inspector finds nothing (`LiveKeys`).
* A get of a tombstone that fails makes a buried peer a ghost (`GhostWasDead`).
* Advice and exit code of `validate-bootstrap` part at 101 peers
  (`AdviceIsVerdict` says that they do not below); it never takes a peer from the
  coordinator.
* The harness waits for ever for the put of a tombstone that hangs
  (`runner.ts:80`; `HarnessEnds`).
* A node whose announcement was late escapes the penalty for isolation, so that a
  run with four or more nodes can succeed without it; with six or more, a run
  can be green although nobody found one of them (premises of
  `SuccessIsConnected`, `GreenIsListed`).

## Plan

1. *Done*: coordinator with its registry and listings, runner, ledger with its
   log and causal index, tunnel emitter with its command line, inspectors and CI
   pipeline, harness; all invariants, action properties and refinements that
   the passing runs check proved.
2. *Left to model*: `normalizeKey` on keys that are not canonical, ancestors and
   descendants in the causal index; the mesh node, once it runs.

## Not modelled

* The projections other than `latestByKey`: `ci-pipeline.ts` prints them
  (226-242, 389-400) and no verdict depends on them.
* Endpoints of the Worker without state, the layout of subscription URLs,
  cryptography, the eventual consistency of the KV service, and pages of more
  than 1000 keys.
* The programs a runner installs (proxy, tunnels) and the libp2p network, which
  appear as the environment of `Runner`, `Inspectors` and `Harness`.
* The mesh node (`node/src`): `announce.ts` does not parse, `index.ts` imports
  it, and `indexer.ts` uses a variable that is not declared (`indexer.ts:47`).
* Simulations, `validate-spec`, the logger, the panel, scripts and workflows
  other than `proxy.yml`: they keep no state that others read, call external
  programs, or print.  Their results enter `Pipeline` as given.
