# A TLA+ model of the serverless TiDB proxy backend

This directory holds the TLA+ models of `src/pkg/tidb/proxy/backend/cluster.go`. That file contains two parts:

- the backend package (lines 1–404): `Cluster`, `Pool` and the membership and health-sweep operations;
- the proxy server (lines 405–1393): start-up, the autoscaler loop and the connection lifecycle.

It also holds the TLC configurations, the TLAPS proofs and `PROJECT.json`. `PROJECT.json` lists:

- the components;
- the runs and their mutants;
- the map from every definition to the source lines it models;
- the findings and the hazards.

## The system

The proxy keeps two backend pools, `"tp"` and `"ap"` (`Cluster.BackendPools`). Each `Pool` holds three slices that are meant to be indexed in parallel:

- `Tidbs []*DB`
- `TidbsWeights []float64`
- `RoundRobinQ`, the balancer's table

Each `*DB` has an atomic state: `Up`, `Down` or `ManualDown`. The tp pool also holds the proxy itself as a `"self"` member. In that case the proxy computes queries on its own, which is what `ProxyAsCompute` means.

Four actors change the pools:

| actor | code | what it does |
|---|---|---|
| start-up | `parseCluster`, `MakeTidbs`, `ParseTidbs` | lists the proxy pods and the pods of each class, then builds each pool |
| membership reconciler (caller not under `src/`) | `Cluster.AddTidb`, `Cluster.DeleteTidb` → `InitBalancerAfterDeleteTidb` | adds or removes a backend under the pool lock |
| health sweep goroutine | `CheckCluster` → `checkTidbs` → `Pool.UpTidb`/`UpDB`, `Pool.DownTidb` | copies `Tidbs` under RLock, pings each copy unlocked, then re-opens Down backends that answer and marks Down the ones silent for `DownAfterNoAlive` |
| autoscaler goroutine | `Server.CheckClusterSilence` | samples the load every second; after 15 quiet samples it asks the scaler to remove the tp TiDBs, and under load with a tp pool of one member it asks for one |

An operator can also call `DownTidb(addr, ManualDown)`.

The proxy server, the second half of the file, is a further set of goroutines:

| actor | code | what it does |
|---|---|---|
| accept loops | `startNetworkListener` | accept connections while the listener is open and start one `onConn` goroutine per connection |
| one goroutine per connection | `onConn`, then `clientConn.Run` (conn.go) | handshake, register in `s.clients`, then loop: read a packet, take a ticket from `s.concurrentLimiter` (`getToken`), run the query, put the ticket back (`releaseToken`) |
| administrator | `Kill` | `KILL CONNECTION`: mark the connection `WaitShutdown` and cancel its query |
| main, at shutdown (caller not under `src/`) | `Close`, then `TryGracefulDown` | `startShutdown` sets `inShutdownMode` and waits for stray connections; the listeners are closed; `GracefulDown` kicks idle clients once a second until none is left, and after 15 s `KillAllConnections` closes the rest |

Several things the code calls are not under `src/`, so they are modelled from what the code requires of them:

- the balancer (`GetNextTidb`, `InitBalancer`);
- `DB` (`Open`, `Ping`, `GetConn`);
- `TokenLimiter`;
- the scaler;
- `clientConn.Run`, `Close` and `ShutdownOrNotify` (conn.go).

## Modules

| module | models | state ↔ code |
|---|---|---|
| `Cluster` | the pools, membership operations, start-up and health sweep | see below |
| `ClusterProofs` | TLAPS proofs about `Cluster` | |
| `MCCluster` | the instance for TLC | a single pod `a1`, either tp (`MCPodClass`) or ap (`MCPodClassAp`) |
| `Autoscaler` | `CheckClusterSilence` and the scaler | see below |
| `MCAutoscaler` | the instance for TLC | `Debounce = 4`, `MaxTidbs = 3` |
| `AutoscalerProofs` | TLAPS proofs about `Autoscaler` | |
| `Server` | the connection set, the token limiter's users and the shutdown | see below |
| `TokenLimiter` | the contract of `TokenLimiter` (not under `src/`): `Get` blocks while `Limit` tickets are out, `Put` returns one, waiters are served FIFO-or-better | `waiting`, `holding`: sets of tasks |
| `MCServer` | the instance for TLC | three connections `c1`, `c2`, `c3`; `TokenLimit = 2` |
| `ServerProofs` | TLAPS proofs about `Server` | |

### `Cluster`

State and how it corresponds to the code:

- `Tidbs[c]` and `TidbsWeights[c]` are sequences of addresses.
  - A weight is represented by the address it was parsed for, so whether weights line up with members can be observed.
  - `NilDB` stands for a nil `*DB`.
  - `Self` stands for the `"self"` member.
- `state` and `pingAge` are per address.
  - The age of the last ping is counted in sweep ticks and capped at `DownAfterNoAlive + 1`.
- `podLive` and `reachable` are the environment: whether the pod exists and whether the backend answers.
- The sweep's control is `swPc`, `swTodo`, `swPool`, `swList` (the copy) and `swIdx`.
- `swObj` records, for each address, whether the `*DB` the copy holds is still the pool's `*DB`. When the pool's `*DB` has been replaced, `swObj` keeps the frozen state and age of the old one. The old one is what `checkTidbs` reads.
- `crashed` records a panic. A nil dereference in any loop over `Tidbs` is a panic, including the ones inside the sweep's own `DownTidb` and `UpTidb`. `Restart` boots the process again through the same start-up code.
- `bootCls` and `bootIdx` are start-up's position: the class being parsed (`"tp"`, then `"ap"`, then `"done"`) and the index of the next listed pod (0 is the proxy's own entry). `ParseTidb` is one iteration of the `ParseTidbs` loop: it appends the weight, and appends the `*DB` unless `Open` fails. `ParseDone` ends a class and sets its `RoundRobinQ`. Every other code action is guarded by `Running` (started and not crashed).
- `PodOrder` is the order of `GetPod`'s listing. `ClusterAssumption` requires it to list each pod once, as a pod listing does. While a class is being parsed, the environment leaves that class's pods alone (`SetPodLive`), because start-up works on one listing snapshot per class. `ListFailed` is the `break` at lines 754 and 763: when `GetProxyPod` or `GetPod` fails, the class is parsed from what that attempt listed. That is nothing, or for tp the proxy alone. In particular the tp pool can start without `Self`.

Each pool operation is one step, because its lock section excludes the other writers. `checkTidbs` runs one member per step, so every membership call can interleave between the copy, a probe and the `UpTidb` that follows it. The early return at an empty pool is kept: it is `SweepPool` sending the sweep to sleep.

### `Autoscaler`

`Autoscaler` reduces the tp pool to two variables:

- `selfIn`: whether the proxy is a member;
- `others`: how many TiDBs the pool has.

The load is one bit, `"quiet"` or `"loud"`, set by the environment. A request sent by the loop may be lost, because the error is only formatted and never returned. The scaler's target is the last request that was delivered. The reconciler then moves `others` one step at a time towards that target. `sinceIn` is a history variable: the number of quiet samples since the last loud sample or the last scale-in.

### `Server`

State and how it corresponds to the code:

- `phase[c]` is where the goroutine of connection `c` is: `"new"` (not accepted yet), `"handshake"`, `"reading"` (blocked in `readPacket`), `"waitToken"` (blocked in `getToken`), `"dispatching"` (running a query with a ticket), `"gone"` (returned).
- `status[c]` is `clientConn.status`; `inTxn[c]` is whether its session is inside a transaction (the model lets a query open or end one).
- `clients` is the key set of `s.clients`; `closed` holds the connections whose network connection the server closed.
- `tokens` counts the tickets out of `s.concurrentLimiter`.
- `listening` and `inShutdownMode` are the listener and `s.inShutdownMode`. `srv` is the progress of `Close` (`"running"`, `"stray"` during the `GracefulWaitBeforeShutdown` sleep, `"closed"`), and `gd` that of `TryGracefulDown` (`"off"`, `"loop"`, `"tick"`, `"done"`, `"killed"`).

Each action is one step of one goroutine. A lock section is one step. `kickIdleConnection` with the count that follows it is one step (`GracefulKick`), and so is `KillAllConnections` (`Timeout`). The audit plugin is not loaded, so its hooks never fail. `FinishQuery` is the end of a query together with the deferred `releaseToken` and the status compare-and-swap at the top of the `Run` loop: the connection goes back to `"reading"`, or it returns when `Kill` or a shutdown changed its status.

`Server` is proved to refine the safety part of `TokenLimiter` (theorem `LimiterSafety`). The connections blocked in `getToken` are the waiting tasks, and the connections running a query are the holders (`Limiter == INSTANCE TokenLimiter WITH ...`). No run checks the whole `Limiter!Spec`. Given `TokensHeld`, its safety part is `GetToken`'s guard again, and its fairness part is the fairness assumed of `GetToken`, so a run would add nothing to `TypeOK` and `TokensHeld`.

## Runs

| run | expect | properties | what it shows |
|---|---|---|---|
| `cluster_tp` | pass | `NoDuplicateMember` | With a tp pod beside the proxy, no interleaving of start-up (a failed listing included), add, delete, manual down, pod and network changes, restarts and the sweep lists an address twice in a pool. This holds although the sweep calls `UpTidb` from a stale copy. |
| `cluster_ap` | pass | same | The same for an ap pod. This is a pool without the proxy member: its sole member can be deleted, and a sweep visits every pool. |
| `cluster_weights` | violation | `WeightsAligned` | `ParseTidbs` (at start-up) and `AddTidb` append the weight before `Open` and keep it when `Open` fails. |
| `cluster_nil` | violation | `NoNilMember` | The backend stops answering between the sweep's probe and `UpDB`, so `UpTidb` stores nil. The next loop over the pool panics. |
| `cluster_manualdown` | violation | `SweepKeepsManualDown` | The sweep's `DownTidb(addr, Down)` overwrites an operator's `ManualDown`. |
| `cluster_grace` | violation | `GraceWindow` | A backend is deleted and re-added during a sweep. It is marked Down at once, on the age of the `*DB` it replaced. |
| `cluster_resurrect` | violation | `JoinOnlyLivePods` | `UpTidb` appends a backend that was deleted while the sweep was probing it: no pod, no weight and no rebuilt balancer. |
| `autoscaler` | pass | `TypeOK`, `DebounceScaleIn`, `LoadGetsTidb`, `QuietScalesIn` | A scale-in waits for the debounce. When the proxy is a tp member, sustained load gets a tp TiDB and sustained quiet removes them. |
| `cluster_skip` | violation | `SweepVisitsEveryPool` | `checkTidbs` returns at an empty pool. When Go's map order visits the empty ap pool first, the tp backends are not probed in that sweep. |
| `server` | pass | `TypeOK`, `TokensHeld`, `ShutdownEnds` | No more than `TokenLimit` queries run at once, and every exit path of a connection returns its ticket. Shutdown always ends. |
| `server_late_handshake` | violation | `GracefulMeansDrained` | A connection is accepted during the stray-connection wait and is still in its handshake when `Close` returns. `GracefulDown` counts zero clients and reports done. |
| `server_kill_idle` | violation | `KilledClientsLeave` | `Kill` of an idle connection only marks it `WaitShutdown`. Its blocked read goes on, so it stays in `s.clients` until its client sends a packet, and at shutdown it is never kicked. |

Each violation run is a finding in `PROJECT.json`. Every property of a passing run has a mutant: a faulty variant of a mapped definition that TLC must catch. The variants are:

- the duplicate check stopping at the first member;
- the lookup of `UpTidb` and `DeleteTidb` skipping the first member;
- the debounce off by one, in either direction;
- the scale-in and scale-out conditions changed;
- `getToken` not waiting for a free ticket (the mutant of `TypeOK` in `server`);
- `releaseToken` only on the path where the loop goes on;
- the shutdown timeout lost.

### Bounds

The Cluster instance has one pod because two pods made the state space blow up: more than 55M states before depth 17. With one pod, every branch that a single address can reach is covered:

- the nil member;
- the stale copy;
- a delete and re-add during a sweep;
- the weights falling out of line.

Both pool shapes are covered, tp and ap. Parameters:

- `DownAfterNoAlive = 1`: a Down needs two silent ticks.
- `SweepInterval = 1`.
- `MaxWeights = 3`: it allows a misaligned weight beside the proxy and a member.

One branch cannot be reached with one address: the `InitBalancerAfterDeleteTidb` panic in the second loop with `n > 1`, which needs two other members.

The Autoscaler instance uses a debounce of 4 instead of 15. Four is enough for a quiet streak to be cut short by a loud sample and then to complete.

The Server instance has three connections and two tickets: 89,838 distinct states. Two tickets and three connections are the smallest numbers where a connection must wait in `getToken` while both tickets are out, and where a ticket is handed from a finishing connection to a waiting one. The run has `CHECK_DEADLOCK FALSE`: once `TryGracefulDown` returns, main exits, so the model may stop.

### Fairness

The Cluster specification has no fairness, because its runs check only safety.

`Autoscaler` assumes four things:

- Weak fairness of `Sample`: the loop sleeps one second and never exits.
- Strong fairness of a sample whose request is delivered: `ScaleCluster` failures are transient.
- Weak fairness of `ScalerRemove` and of `ScalerAdd`: the external scaler and reconciler do act on their target.

`Server` assumes:

- Weak fairness of the server goroutines (`CloseListeners`, `GracefulStart`, `GracefulKick`, `GracefulTick`, `Timeout`). The sleep of `startShutdown` ends, main calls `TryGracefulDown` once `Close` returns, and the ticker and the 15 s context fire.
- Weak fairness of `ConnExit` and `FinishQuery`. A read on a closed connection fails, and a query ends, or `killConn` cancels it.
- Strong fairness of `GetToken`, per connection. This is the limiter's FIFO-or-better promise, the same fairness `TokenLimiter` states.
- No fairness for the clients. Nothing obliges a client to connect, finish its handshake, send a packet or hang up.

## Proofs

`AutoscalerProofs` proves, for every `Debounce` and `MaxTidbs` allowed by `AutoscalerAssumption` (both positive naturals):

- `TypeCorrect`: `Spec => []TypeOK`.
- `DebounceCorrect`: `Spec => DebounceScaleIn`.

`TypeOK` is not inductive for the debounce. The proofs go through the invariant `IInv == TypeOK /\ count <= sinceIn`: a quiet sample increments both counters, and a reset clears both. TLC checked `IInv` on the `MCAutoscaler` instance before the proof was written. With `IInv`, a sample that sends a scale-in had `count + 1 >= Debounce`, and so `QuietMore(sinceIn) >= Debounce`. `NextIInv` has one step per action. The `Sample` step is split into the four branches of the loop body.

`ServerProofs` proves, for every finite set of connections and every positive `TokenLimit` (`ServerAssumption`):

- `TypeCorrect`: `Spec => []TypeOK`.
- `TokensConserved`: `Spec => []TokensHeld`. The tickets taken are exactly the connections running a query.
- `LimiterSafety`: `Spec => Limiter!Init /\ [][Limiter!Next]_Limiter!lvars`. This is the safety part of the refinement of `TokenLimiter`.

`TypeOK` alone is not inductive. `FinishQuery` decrements `tokens`, and the result stays a natural number only because the finishing connection holds one of the tickets counted. The proofs therefore go through `IInv == TypeOK /\ TokensHeld`, which TLC checks as two invariants of the `server` run.

The lemma `InPhaseExcept` says that a step that moves one connection to phase `v` adds it to the set of connections at `v` and removes it from every other set. With `FS_AddElement` and `FS_RemoveElement`, `GetToken` and `FinishQuery` change the count and the set by one together. Every other step moves no connection into or out of `"dispatching"`. For the refinement, each action is shown to be a step of the limiter:

- a packet read is `Request`;
- `GetToken` is `Acquire`, below the limit because `tokens = Cardinality(holding)`;
- `FinishQuery` is `Release`;
- every other action leaves both sets as they are.

`ClusterProofs` proves, for every set of pods, classes, listing order without repeats and constants allowed by `ClusterAssumption`:

- `TypeCorrect`: `Spec => []TypeOK`.
- `NoDuplicateMemberHolds`: `Spec => []NoDuplicateMember`.

Neither is inductive alone. The proofs go through `IInv == TypeOK /\ NoDuplicateMember /\ SweepUpTarget /\ BootMembers`:

- `SweepUpTarget` says that when the sweep is about to call `UpTidb`, its index points at an address of its copy. Without it, `TypeOK` gives no way to show that `UpTidb`'s argument is an address.
- `BootMembers` says that the pool being parsed holds only pods listed before `bootIdx`, and that the ap pool is empty while tp is parsed. With the assumption that `PodOrder` has no repeats, `ParseTidb`'s append of `PodOrder[bootIdx]` cannot make a duplicate, although `ParseTidbs` has no duplicate check.

TLC checked `IInv` on the one-pod instances and on two-pod instances before the proofs were written.

No run checks the `Cluster` `TypeOK`. A type error in this model comes only from the model's own bounds, such as the cap on ping ages, and not from a mistake the code could make. It is proved as a step towards `NoDuplicateMember`.

The lemmas are about the model's operators:

- `IndexOfFound` and `IndexOfAbsent`: `IndexOf` returns the first index holding the address, or 0. The first index exists by well-founded induction on `<` over `Nat` (`WFMin`).
- `DistinctAppend`, `DistinctExcept` and `DistinctDrop`: appending a new address, replacing a member and removing one keep a sequence without repeats.
- `DropType`: removing one element keeps a sequence's type.

`NextIInv` has one lemma per action. `SweepProbeIInv` splits on what the probed entry is: nil, `Self`, or an address that is reachable or not.

The fairness part of the limiter's contract (no connection starves in `getToken`) is not stated. It would only restate the fairness assumed of `GetToken`.

Some results stay with TLC only:

- Liveness (`LoadGetsTidb`, `QuietScalesIn`, `ShutdownEnds`), because TLAPS does not handle these fairness arguments.
- The `Cluster` action properties, which are violation runs: they show what the code does wrong, and there is nothing to prove about them.

## Not modelled, and the plan

Not modelled yet:

- Routing (`GetTidbConn`) and the drain wait of `DeleteTidb`. They depend on the balancer and on `DB` connection counts (`usingConnsCount`), which are not under `src/`. The drain is where two hazards of `PROJECT.json` bite, at lines 240 and 270 of `cluster.go`: the drain gives up after 30 tries, and deleting the sole member skips it.
- `Run`'s other goroutines (the status HTTP server, `flushCounter`, `runserverless`), and `checkConnectionCount`, which nothing calls.
- `dnsCheck` and the 120 s readiness wait of start-up. These are external commands and timeouts that change no pool state.
- `UpDB` opens the replacement `*DB` without setting its `dbType`, which `ParseTidbs` and `AddTidb` set. A backend that comes back Up therefore loses its class for `GetTidbConn`. The branch that reads it compares with `BigCost`, which is defined nowhere in the repository, so the model keeps no `dbType` (a hazard in `PROJECT.json`).

These are the next modules, in this order:

1. routing with the drain, with `GetTidbConn`'s pick and `GetConn` as two steps, so that a `DeleteTidb` can fall between them;
2. an abstract pool whose members are exactly the live pods, with `Cluster` mapped to it by a refinement mapping.

The deployment YAML and the protobuf definition under `src/` are declarative and have nothing to model.
