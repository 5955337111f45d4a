# Verification of eminer

eminer is an Ethereum GPU miner in Go. It takes work from a pool (Stratum) or
from a node (RPC, "farm" mode), searches nonces on OpenCL devices and reports
solutions. It carries an ethash engine (caches, datasets, sealers, consensus
rules) and a dashboard. This directory holds TLA+ models of these parts, the TLC
configurations that check them on small instances, and TLAPS proofs that hold
for every value of the constants. Paths below are relative to the repository
root unless they start with `src/`, which names the same tree.

## 1. The system

### Components, their state, operations and hazards

| Part | State | Operations | What is hard | What makes it correct | Module |
|---|---|---|---|---|---|
| Stratum client, `stratum/stratum.go` | socket, reader, writer; `ID`; `callBackCh` under a mutex; `notify_Work`; `closed`, `noReconnect`; `serverIdx`, health counters, none of them locked | `Dial`, `Subscribe`, `Auth`, `Read`, `request`/`send`, `handleStratumMessage`, `handleNotification`, `dialNextServer`, `reconnect`, `Close` | one Read goroutine per connection, each of which may reconnect; time-outs against late answers; blocking sends under the mutex; ids reset by Dial | an answer reaches its request; no send on a closed channel; a request returns; a lost connection comes back; Close(true) is final | `StratumClient` |
| Stratum mode, `stratum.go` | miner, client, channels to `checkNewWork`, `shareInfo`, `reportHashRate`, `stopFarmMine` | `Stratum`, `checkNewWork`, main loop: stop and DAG change | rendezvous of four kinds of goroutines; a DAG change while devices search | devices search the current work, never on a DAG being rebuilt; stop ends; mining resumes | `MiningMode` |
| Farm mode, `farm.go` | the same, with a polled node | `Farm`, `checkNewWork`, `farmMineByDevice` | stop while a Seal starts; concurrent submissions | as above | `MiningMode`, `RpcClient` |
| OpenCL miner, `ethash/opencl_miner.go` | `Work`, `stop`, per device: buffers, `workCh`, nonce source | `InitCL`, `Seal` (control loop, workers, result goroutines), `WorkChanged`, `ChangeDAGOnAllDevices`, `Resume`, `Destroy` | work replaced while workers run; an error shared by device goroutines; chunks of the DAG in 32 bits | a worker searches the current work; a share names what was searched; nonce ranges are disjoint; the DAG is complete; Seal returns | `SealDevice`, `DeviceDag` |
| Work package, `ethash/work.go`; decoding, `util.go` | header, seed, targets, extranonce | getters, `getWork`, `notifyWork`, `number` | a seed that belongs to no epoch, an answer that is too short | the epoch of a seed | `SealDevice`, `RpcClient` |
| RPC client, `rpc/rpc.go` | `urlIdx`, `URL`, health counters | `doPost`, `markSick`, `markAlive`, `SubmitWork` | concurrent failover without a mutex | the index stays in the list; a dead server is left | `RpcClient` |
| Ethash caches and datasets, `ethash/ethash.go` | lru with a future item, `sync.Once`, `done` flag, dump files | `get`, `generate`, `cache`, `dataset`, `finalizer` | generation in the background; eviction; crash between dump and rename | whoever is handed an item uses a complete one of its epoch | `EpochCache` |
| CPU sealer, `ethash/sealer.go` | threads, `abort`, `update` | `Seal`, `mine`, `SetThreads` | restarts against solutions and stops | one solution per block; every thread ends | `LocalSeal` |
| Remote sealer, `ethash/sealer.go`, `ethash/api.go` | `works`, `rates`, `currentWork`, channels | `loop`, `submitWork`, notifications, API calls, `Close` | stale solutions; calls against Close | the promise of `WorkRegistry`; a call returns | `RemoteSealer` |
| Consensus rules, `ethash/consensus.go` | none | `VerifyHeaders`, difficulty, uncles, rewards | out-of-order workers; boundaries of generations | results in input order; an uncle is paid once, and something | `HeaderBatch`, `ChainRules` |
| Hashimoto, `ethash/algorithm.go` | none | cache and dataset generation, hashing, sizes | division of rows among threads; offsets of 32 bits; tables against formula | light and full verification agree; a size tells its epoch | `EthashSizes`, `EthashAlgorithm` |
| Dashboard and metrics, `http/` | ring of buckets | `Series`, sampler, `Clear`, `chartData` | a ring that is reused, Clear and requests in between | a chart shows what was sampled | `MetricHistory` |
| Benchmark and entry, `benchmark.go`, `main.go` | stop and signal channels | initialisation, report, rehash, stop | two senders on one unbuffered channel | a benchmark ends | `BenchmarkRun` |
| Helpers: `recovery.go`, `client/`, `counter/`, `util/`, `nvml/`, `ethash/cl`, `ethash/gcn` | flags, a locked counter | formatting, bindings | none of its own | - | - |

### How they interact

`main()` starts `Stratum()` or `Farm()` in a goroutine and sends on its
`stopChan` at an interrupt. Either mode starts one `farmMineByDevice` per
device, which starts a seal goroutine that calls `OpenCLMiner.Seal` again and
again. `checkNewWork` receives work (pushed by the Stratum client on
`notify_Work`, or polled), writes `miner.Work` under the miner's mutex and
sends on every device's `workCh`. When a new header needs another DAG it asks
the main loop, which stops the device goroutines, regenerates the DAG and is
meant to start them again. `reportHashRate`, `checkNewWork` and every solution
use the client's `request` concurrently. All these channels are unbuffered
except `stopFarmMine`, which holds one token per device.

Seal and its goroutines share the package of the miner and the closure of the
control loop; a solution goes from a result goroutine through `onSolutionFound`
to the client's `SubmitWork`. The dashboard reads metrics that a sampler
stores once a minute, and a DAG change clears them. The ethash engine runs on its own
in this program: the miner uses its caches to verify what a GPU found and its
sizes to tell epochs apart.

## 2. Modules

| Module | Models |
|---|---|
| `StratumClient`, `MCStratumClient` | `stratum/stratum.go` and its users in `stratum.go`; constants of the small instances |
| `MiningMode`, `MCMiningMode` | `stratum.go`, `farm.go`, and `Seal`, `WorkChanged`, DAG change and `Resume` of `ethash/opencl_miner.go` as the modes see them |
| `SealDevice` | `OpenCLMiner.Seal` on one device |
| `DeviceDag` | `InitCL`, `ChangeDAGOnAllDevices`, `Destroy` |
| `RpcClient` | `rpc/rpc.go`, the poll of `farm.go`, the decoding of `util.go` |
| `RemoteSealer`, `WorkRegistry` | the remote `loop` and the API; the abstract registry it implements |
| `LocalSeal` | `Seal`, `mine`, `SetThreads` |
| `EpochCache` | caches, datasets, their lru and dumps |
| `HeaderBatch` | `VerifyHeaders` |
| `ChainRules` | difficulty, header and uncle verification, rewards |
| `EthashSizes` | the tables of sizes and the search for a prime after them |
| `EthashAlgorithm` | cache, dataset, hashimoto |
| `MetricHistory` | `http/ts`, `http/metricstat`, `chartData` |
| `BenchmarkRun` | `benchmark.go` with the main goroutine |
| `MCComponents` | one instance of each of the eleven components above from `SealDevice` on |
| `StratumClientProofs`, `MiningModeProofs`, `RpcClientProofs`, `MetricHistoryProofs` | theorems about the module of the name |
| `OpenCLMinerProofs` | theorems about `SealDevice` and `DeviceDag` |
| `EngineProofs` | theorems about `RemoteSealer` (with `WorkRegistry`), `LocalSeal`, `HeaderBatch`, `ChainRules` |
| `EthashProofs` | theorems about `EpochCache`, `EthashSizes` and `EthashAlgorithm` |
| `ComponentsProofs` | theorems about `BenchmarkRun`, and about the eleven components in `MCComponents` |

### StratumClient

Every goroutine interleaves at the points where the Go code can block (mutex,
channel, network, sleep) and where it reads shared state it later uses without a
mutex. `Main` is the goroutine in `Stratum()`. Reader `n` is the `Read`
goroutine that the n-th successful `Dial` starts; readers live on after their
connection is gone, as in the code, since a reader that reconnects returns to
the loop over the *new* `c.reader`. `Callers` are the other users of the client, and
`Helpers` the goroutines that `handleNotification` starts for
`mining.extranonce.subscribe`.

* `stage[p]` is where goroutine `p` is inside `request()`: `Call` draws the id
  (before the mutex), `Register` stores the callback, `WriteTest` (or
  `WriteClosed`) is the test of `isClosed` in `c.Write` and `WriteOk`/`WriteFails`
  its later use of the connection of that moment, `TimeOut`, `Cancelled` (channel closed) and the reader's
  `Deliver` are the three ways out of the select, `Cleanup` is
  `deleteCallback`.
* `pc[d]` is where a goroutine that may dial is elsewhere: `DialOk`,
  `DialFails`, `Pick`/`Increment`/`Wrap` (the check, use and update of
  `serverIdx`, each a step of its own since nothing locks them), `Login`,
  `Subscribed`, `Authorized`, and for readers `ReadTop` (the test of the loop),
  `ReadStart` (the connection of that moment), `ReadError`, `ReadGarbage`, `ReadResponse`, `ReadPush`, then `HandleResponse`,
  `HandleUnclaimed` (a message without id, `searchWaitingResponses`) or
  `HandlePush`, and `Reconnect`, `ReconnectClose`, `Sweep`, `Rotate`.
* A reader that delivers holds the mutex (`lock`) during a blocking send, as
  `handleStratumMessage` and `callWorkCh` do. `RLock` users are not separated:
  what they read is read in the step that uses it.
* `listener` is `checkNewWork`: after a receive (`Notify`) it is back at its select, or
  announces a DAG change to the main loop, or is in `miner.WorkChanged()`
  (`ListenerHandles`), each of which may block. `mining` says whether the goroutines of
  the devices run, which `WorkChanged` needs: `ChangeDAG`, `DevicesStopped` and
  `DagChanged` are the main loop's DAG change, after which they do not
  (`MiningResumes`). `Interrupt`, `StopListener` and `MainClose` are its stop. What the
  main loop does with devices in between is `MiningMode`.
* `Exit` is what a crash of any goroutine or `log.Crit` does; `PickPanics`,
  `ReadPanics` and `WritePanics` are the panics of an index out of range and of a
  nil `c.conn`. `hasConn` says whether `c.conn` is not nil; a failed dial leaves it
  either way, since the code's early returns differ in that.
* The pool (`wire`) answers a request at most once, after any delay or never;
  it may push work or close the connection at any time. A request that is
  answered remembers the connection whose counter gave its id (`reqConn`).
* Message contents are abstract: a response carries an id, a push is work or
  not. What is in `c.work` is not part of this module.

### MiningMode

One instance is one run of `Stratum()` or `Farm()`: the main loop (`main`),
`checkNewWork` (`cn`), and for each device `farmMineByDevice` (`farm`), its
seal goroutine (`seal`) and the work that its `Seal` call copied (`local`).
`report` is `reportHashRate`, whose request returns or never does: the contract
that `StratumClient` establishes (`RequestReturns`). `work` is `miner.Work`, a record of header, epoch, target and extranonce, and
`dag` the epoch on the devices. A rendezvous on an unbuffered channel is one step. The
message on `workCh` is empty: after the rendezvous (`TakeWork`) the sender goes on, and
the device locks and copies `miner.Work` in a step of its own (`CopyWork`).
`checkNewWork` updates extranonce, target and the whole package in separate
steps, as the code locks for each. In Farm mode an epoch change is mined on
the old DAG, because `farm.go` does not compare sizes: `DagMatchesWork` is a
property of Stratum mode. `DagFails` ends the instance (the code destroys the
miner and starts a new `Stratum()`).

`Packages` are the field-wise mixtures of packages that `miner.Work` may hold
between two updates. The search itself is `SealDevice`.

### SealDevice

`ctl` is the control loop: `Enter` copies the package, `TakeMsg` receives on
`workCh`, and `TakeExtra`, `MarkExtra`, `TakeTarget`, `TakeHeader` are the updates of
the three branches, split where the code has no lock (the assignment of
`extraNonce` comes before `d.Lock`, the announcement after it). `wpc[b]` is a
worker: `SetDagArgs`, `Check` (looks at `workChanged`), `Launch` (under the lock),
`Collect` (reads the result buffer, starts a goroutine per solution), and the
failures of the OpenCL calls. `Verify` is the result goroutine, which reads `c.Work`
of that moment. `job` is the closure of `Seal`, `cwork` the miner's package,
`arg6` the kernel's target argument, `headerBuf` the one buffer shared by a
device's workers. A nonce range is its start; `StreamStart` computes it with the
shifts and widths of the code: the extra nonce is the closure's, its length is
`cbits`, the `c.Work.SizeBits` that a launch reads unlocked and that `SetJob` (the mode)
may have replaced before the control loop is told. `used` and `ubits` are the two that
a worker took. `OtherDeviceStops` is `c.stop`, which all devices
share. `found`, `shares`, `searched`, `used` and `ubits` are partly history.

### DeviceDag

`gpu[g]` is the goroutine of a device: `Setup`, `CreateProgram`, `CreateBinary`,
`Alloc`, `Chunk`, `Rest`, `AppendDevice`, `Report`. `err` is the error variable
that all of them assign, `obj` says which OpenCL objects a device has, and `made`
counts how often each item was generated, with the start index in `Width` bits.
A program that does not build stays, with the kernels of the last one.
`ChangeDAGCall`, `Renew`, `ChangeReturns` are a DAG change; `Destroy` releases, and
panics on what was never created.

### RpcClient

A poster is a goroutine in `doPost`: `CheckSick`, `MoveUrl`, `IncIdx`, `WrapIdx`,
`ClearStats` are the steps of the unlocked failover, and an answer is one of
`Unreachable` (a time-out counts towards sickness), `Garbage`, `ErrorReply`,
`ShortReply` (which panics), `WorkReply` and `ShareReply`. `PollFires` is the poll
of `Farm()`, `NewClient` the restart after a recovered panic. `number()` finds the block of a
seed hash among the epochs 1 to 2047, and the program stops when there is none.

### RemoteSealer and WorkRegistry

The loop serves one request at a time (`TakeTask`, `ServeGetWork`, `ServeSubmit`,
`ServeRate`, `ServeGetRate`, `Tick`); a call is a send that is given up when the
loop has exited (`CallStopped`). `Close`, `LoopReturns` and `LoopExits` are the
shutdown, which waits for notifications. `WorkRegistry` says what miners may rely on: a
solution is taken only for a block handed out, not too deep under the block of the
moment, and never after closing. The refinement maps `open` to `loop = "serving"` and
`newest` to the current block. `Seal` does not send on `workCh` in this tree (the
send is commented out at `src/ethash/sealer.go:77`), so `TakeTask` is what the
loop does if it is restored, and GetWork always answers that there is no work otherwise.

### LocalSeal

A call of `Seal` is a runner and its threads; `SetThreads` makes the runner
`Restart`, which is another call. `Find`, `Solved` and `Withdraw` are a thread with a
solution; the ping of `SetThreads` is lost when no runner waits, as in the code.

### EpochCache

One module for both lists: `kind` says which. `Ask`, `AskAsync` are `cache()` and
`dataset()`, with the lru, the future item and the goroutine for it. An object
goes through `GenerateInMemory`, or `LoadDump`, `FillTemp`, `RenameTemp`, `MapDump`, and
`FallBack`, where a dataset in memory is made twice its length (`make([]uint32, dsize/2)`). `SweepDumps`
removes old dumps; `CrashAndRestart` keeps only the files. A caller of `AskAsync` that found the
dataset unfinished may find it done when it looks again (`LookAgain`, `verifySeal`).

### HeaderBatch, ChainRules, EthashAlgorithm

`HeaderBatch` has the workers (`VerifyOne`, `ReportDone`, `VerifierEnds`) and the
goroutine between them and the caller (`HandOut`, `Gather`, `SenderQuits`). `Gather` sends
all results up to the first gap, as the inner loop does.
`ChainRules` is pure operators (difficulty per fork, `verifyHeader`, `VerifyUncles`,
rewards) used by `InsertBlock`, on a chain that grows only by what they accept. The uncles of
a block are a list, and `KnownUncles` is the set that the loop over it adds to.
`EthashAlgorithm` has the algorithms as recursive functions over words of a few bits,
the two hash functions as parameters, and one action per row of a generating thread.
`Slice` is the slice expression of `hashimotoFull` with an offset of `OffsetBits` bits (32 in
the code): an offset that wraps reads another row, and one whose end wraps panics.
`EthashSizes` has the two tables of sizes entry by entry, each as its distance below the
threshold of its epoch in steps of two rows (`datasetGaps`, `cacheGaps`), in numbers of rows so
that TLC's 32 bits hold them, and beside them the search of `calcDatasetSize` and
`calcCacheSize` for the epochs after them.

### MetricHistory

`Sample` is the sampler storing a metric in the bucket of its minute,
`RequestStarts`, `ReadSeries`, `RequestEnds` are `chartData`, whose series are read
one by one while the clock moves, `ClearHistory` is `ClearStats`. `Rates` are the metrics
whose names end in "hashrate", the only ones that a request adds up.

### BenchmarkRun

The main goroutine, `Benchmark`, its report, its goroutine that changes the header and the seal
goroutine. `stopChan` carries messages in both directions.

### MCComponents

The eleven components share no state, so a behaviour chooses which one moves
(`part`) and the others keep their first state: one run explores the sum of their
state spaces and not the product. What one of them does to another is an action
of the other (a pool's package, a caller, a stop). `PartsNext` lists the actions
themselves, so that each is seen to fire.

## 3. Runs

| Run | Question | Instance | Result |
|---|---|---|---|
| `stratum_client` | Are table, channels, answers and Close consistent? `TypeOK`, `CallbackOwned`, `NoSendOnClosed`, `ReplyOfSameConnection`, `CloseSticks`; who gets a message without an id? `WorkGoesToGetWork` | main, 2 readers, 1 caller, 2 ids per connection, 1 server | holds, 4,090,000 states |
| `stratum_servers` | Does one goroutine alone fail over safely? `FailoverAlone` | 3 servers, main and 2 readers | holds, 508,000 |
| `stratum_reconnect` | Does one goroutine alone redial safely? `RedialAlone` | main and 3 readers, 1 id per connection, no DAG change (`NoDagChange`) | holds, 2,190,000 |
| `stratum_client_live` | Do requests return and readers redial? `RequestReturns`, `ReconnectDials` | `stratum` scheme with login, 1 caller, 1 helper, 1 dial, 3 ids, fairness | holds, 28,700 |
| `stratum_timeout` | `ResponseTimeout` | as above | violated |
| `stratum_closed` | `ClosedForGood` | as `stratum_client` | violated |
| `stratum_failover` | `FailoverFinds` | as `stratum_servers` | violated |
| `mining_mode` | Current work, DAG and stop: `TypeOK`, `RebuildAlone`, `WorkIsCurrent`, `DagMatchesWork`, `StopCompletes`, `WorkDelivered` | 2 devices, 5 packages (2nd header, target, extranonce, epoch), both modes | holds, 228,000 |
| `mining_resumes` | `MiningResumes` | as above | violated |
| `components` | Safety of the eleven components: types, `StreamsDisjoint`, `KernelFollowsWork`, `SharesWereSearched`, `DagWhole`, `InitReady`, `FailoverInRange`, `AcceptedIsTaken`, `SealedOnce`, `InHeaderOrder`, `ItemUsable`, `UnclesPaidOnce`, `UncleRewardsPositive`, `LightIsFull`, `SizeTellsEpoch`, `ChartIsExact`; the refinement `KeepsRegistry` | see the bounds below | holds, 745,000 |
| `components_live` | Does what was begun end? `SealStops`, `DeadServerLeft`, `CallsReturn`, `StopEndsThreads`, `EveryBatchEnds`, `EveryBenchmarkEnds` | six of them, two servers, one caller | holds, 27,000 |
| `ethash_large` | `FullIsLightAlways` | `EthashAlgorithm` with offsets of 4 bits | violated |

What the two component runs say of the code:

* **Search.** No interleaving of the control loop, the workers and the result
  goroutines leaves a worker that was told of everything on an old header or extra nonce, or
  reports a pair that was not searched. The ranges of the workers of a device are
  disjoint among those whose extra nonces have one length: it has no more workers than a
  stream number can count (4 by default, and 16). A launch reads the length live, so between a
  new length in `c.Work` and the new extra nonce in the closure a range is of neither package; by
  the next announcement that is over (`KernelFollowsWork`). When only the
  target changes, a kernel keeps the old one until the next header; that is modelled
  (`arg6`) and no property forbids it.
* **DAG.** Chunks and rest tile the items, and what `InitCL` lists is complete, although
  the error that the goroutines share may be overwritten: a device appends itself
  only at its own success.
* **Servers.** A failover that nobody overlaps stays in the list, and a server that
  stopped answering is left. Two at once leave the list, and `overlap` records that.
* **Sealing.** One block gets at most one solution through any restarts; a stop ends
  every thread; the remote loop keeps its registry and answers across Close.
* **Engine.** No item that is handed out is half-written or of another epoch, through
  evictions, failed disks and crashes, with one exception that `ItemUsable` names: a
  dataset that could not be dumped is twice its size, since `dsize/2` is used for words of
  four bytes. Verification with a cache and mining with a dataset agree on every nonce as long as
  an offset of 32 bits reaches all words of the dataset, which is so below 16 GiB, that is up
  to epoch 1920. Both tables of sizes give every epoch a size of its own, and so does the search
  that takes over after them.
* **Charts.** They are exact unless a minute begins while a request is served; then rows
  of two series do not meet.
* **Benchmark.** It ends, unless the 600 seconds and an interrupt cross: then main and
  `Benchmark` each send to the other for ever (`Crossed`).

What the violations show:

* **A request may never return** (`ResponseTimeout`). `handleStratumMessage`
  sends on the unbuffered response channel while it holds the mutex
  (`src/stratum/stratum.go:767`). If the request's timer has fired it is on its
  way into `deleteCallback`, which needs that mutex: reader and requester wait
  for each other for ever. The comment at `src/stratum/stratum.go:106` gives
  a response ten seconds.
* **Close(true) can be lost** (`ClosedForGood`). `reconnect` looks at
  `noReconnect`, then calls `Close(false)`, which overwrites it, and sleeps
  (line 578). A `Close(true)` in that time is forgotten and a connection is opened.
* **Failover can panic** (`FailoverFinds`). `serverIdx` is checked and used
  later without a mutex (lines 595 and 651); two goroutines that fail over at once
  take it past the list.
* **Mining does not resume after a DAG change** (`MiningResumes`). The call of
  `farmMineByDevice` at `src/stratum.go:253` is commented out, so the new
  goroutines end at once and the next `WorkChanged` blocks.
* **A dataset above 16 GiB is misread** (`FullIsLightAlways`). The `offset` of
  `hashimotoFull` (`src/ethash/algorithm.go:404`) is a `uint32` of words: the table's sizes
  pass 2^34 bytes at epoch 1921 (17179864192 at 1920, 17188256896 after it), from where a row
  above the limit is read at an offset that wrapped, or the slice panics. `hashimotoLight`
  computes the item of the row it was asked for, so the two disagree.

Each violated property has a passing one that states what does hold:
`RequestReturns` and `ReconnectDials` hold up to a stuck send (`Wedged`): the one above, to a
request that timed out, and one to a `checkNewWork` that receives no more, because it was
stopped, or is in `WorkChanged` after a DAG change, or announces one to a main loop that is
ending. `CloseSticks` says a Close with no reconnection under way is final unless the process
exits,
`FailoverAlone` that one fail-over at a time is safe, `StopCompletes` and
`WorkDelivered` hold up to the DAG change and to a report that never returns, `LightIsFull`
for the datasets whose words an offset can number.

### Bounds, and why they are enough

`MaxDials` bounds successful dials and `MaxId` requests per connection. Two
dials make the cases where readers of two connections overlap and
ids are used twice; three let a reader that has returned to its loop redial
again while another one does. `MaxId = 2` on the proxy scheme is a login and one more
request; the `stratum` scheme logs in with two, so it has three. The reconnection run
needs only logins, and is cut off where a DAG change is announced (a CONSTRAINT): what the
devices do does not touch a connection, and `RedialAloneHolds` is proved without that bound. A goroutine that
would exceed a bound just never takes that step, which is why deadlock is not
checked; the system also really stops in a state where the main loop has closed
the client and the readers have gone, or has crashed. `Threshold` stands for 5
in `markSick` and `markAlive`: 1 lets every count reach it. Three servers are the least with a
server that is neither first nor last. The proofs drop all these bounds but
their being natural numbers. In `MiningMode` two devices make a stop and a
`WorkChanged` reach them in different orders; nothing there is bounded
otherwise, but deadlock is not checked since a stopped mode stops.

In `components`:

| Module | Bound | Why it is enough |
|---|---|---|
| `SealDevice` | 2 workers, device 1 of 3, nonces of 5 bits with 2 of stream, 1 range after the first, 4 pools of one or two packages, one quality | between two packages the extra nonce changes; header and target with the length of an unchanged extra nonce; extra nonce and length together; or there is none at first, so its length comes with it. Two workers are told one after the other; every branch of the control loop is taken; the device is neither first nor alone, so every shift counts |
| `DeviceDag` | 2 devices, one of AMD, 7 and 8 items, chunks of 4, groups of 2, 4 bits | one device may fail while the other ends; a rest of 3 and of none; the index wraps close above |
| `RpcClient` | 3 servers (2 for liveness), 1 sharer beside the poll, `SickLimit` 2 for 5, epochs 1 and 2048 | a server in the middle; two goroutines that overlap; a seed that is found and one beyond the list |
| `RemoteSealer` | blocks of height 1 and 3, `Stale` 2 for 7, 2 callers, 1 notification | the first block is just stale under the second |
| `LocalSeal` | 2 cores, setting 1, 3 calls of Seal, 2 of SetThreads | a restart of a restart, and a thread more and less |
| `HeaderBatch` | 4 headers, 3 workers; and none | fewer workers than headers, so that indices are handed out again, and results out of order by two |
| `EpochCache` | 2 epochs, lru of 1, 1 dump kept, 2 objects, 3 calls, 1 crash or error | an eviction while in use, a future item that is used or replaced |
| `ChainRules` | forks at 1, 3, 4, 6, 6 blocks, 4 generations for 7, reward span 5 for 8 | the chain passes every fork, and outgrows the generations that a verification looks at; a block's uncles are lists of up to two, the same one twice among them |
| `EthashAlgorithm` | words of 3 bits, 2 words a row, 3 rows of cache, 6 to 10 of dataset, 2 to 4 threads, offsets of 5 bits (of 4 in `ethash_large`) | threads with a full batch, a short one and none; 32 words are more than the largest dataset has, 16 fewer |
| `MetricHistory` | 2 hash rates and another metric, buckets of 2 ticks, a history of 2 buckets, 1 Clear | the ring wraps, and the clock moves within and across buckets |

Integers that the code keeps in 32 or 64 bits are taken modulo 2^w where that
matters (`Width`, `NonceBits`, `WordBits`, `OffsetBits`). `SizeTellsEpoch` is about the code's
own tables, all 2048 epochs of them, and the search at the epochs after them. Deadlock is not checked
in either run, since each component really stops: a Seal returns, a sealer is closed,
a batch is sent, a benchmark exits.

### Fairness, and why the code justifies it

* A goroutine that can run does, timers fire and sleeps end: weak fairness.
* `sync.Mutex` hands itself to a waiter that has starved for 1 ms, so steps
  that wait for the mutex are strongly fair.
* A `select` with several ready cases picks one at random, so in `MiningMode` a
  send to a loop that keeps returning to its select is strongly fair.
* `checkNewWork` and the main loop of the Stratum mode take their steps when they can: a
  send on `changeDAG` needs the main loop at its select, `WorkChanged` needs the goroutines of the
  devices, and where these are missing nothing is assumed.
* Nothing is assumed of the pool, the network, the callers, or an interrupt,
  nor that a dial succeeds.
* In `components_live` a GPU call ends, with or without an error, a worker waiting
  for `d.Lock` gets it, the poll's ticker fires, a post is answered or times out, an API call that can
  reach the loop does (a select picks among its ready cases at random), and a
  verifying worker goes on: weak fairness. `Benchmark`'s own steps are strongly
  fair, for a case of its select may be ready only now and then. Nothing is assumed of
  a caller of `VerifyHeaders`, who may quit, of a stop, of a solution being found, or
  of a server being alive. The fairness of `RpcClient` and `BenchmarkRun` is restated in
  `PartsFairness` for the behaviours in which they move.

## 4. Proofs

### StratumClient

`StratumClientProofs` proves, for any sets of callers and helpers, any number of
servers, schemes, dials and ids:

| Theorem | States |
|---|---|
| `Invariance` | `Spec => []Inv` |
| `TypeCorrect` | `Spec => []TypeOK` |
| `TableIsOwned` | `Spec => []CallbackOwned` |
| `SendsAreSafe` | `Spec => []NoSendOnClosed` |
| `RepliesMatch` | `Spec => []ReplyOfSameConnection` |
| `WorkReachesGetWork` | `Spec => []WorkGoesToGetWork` |
| `CloseIsFinal` | `Spec => CloseSticks` |
| `FailoverAloneHolds`, `OneAtATime` | one fail-over at a time keeps the index in the list, step by step and for ever |
| `RedialAloneHolds`, `OneRedialKeepsConn` | one reconnection at a time leaves no nil connection, step by step and for ever |
| `HolderSendsHolds`, `MutexMovesHolds`, `WedgedStaysHolds` | `Spec => []HolderSends`, `Spec => []MutexMoves`, `Spec => WedgedStays`: what the liveness properties except with `Wedged`, see below |

Assumptions: `BoundsAssumption` (bounds are positive naturals),
`GoroutinesAssumption` (callers, helpers and dialers are different goroutines)
and `NoMsgAssumption` (the absence of a message is not a message); TLC
evaluates all three on every run of the module.

The argument. None of the properties is inductive. A stored callback stays owned only if
the request that has its id is the only one: ids of one connection are drawn
once (`RequestNumbers`), but ids of two connections may coincide, so it is
the table, overwritten by `Register` and compared by `Cleanup`, that decides
who owns an id. A send is safe because the sender holds the mutex
(`LockHeld`), `Sweep`, `Register` and `Cleanup` need it, and a message without
an id is the only one with more than one receiver (`DeliveryOk`,
`NothingLeftTodo`). An answer meets its own request, or one of another
connection, because an id drawn from a connection's counter is never drawn from it again
(`AnswerNumbers`). `UnbornReaders` and `ExitIsFinal` tell which goroutines
exist. `Inv` is the conjunction; it is proved by one lemma per conjunct with
a step per action that can disturb it, and `InvInit` and `InvNext` put them
together.

`Wedged`, which `RequestReturns` and `ReconnectDials` except, is a send made with the mutex
held to a goroutine that receives no more: a request that has timed out, or a `checkNewWork`
that was stopped, that is in `WorkChanged` although the goroutines of the devices have
ended, or that announces a DAG change to a main loop that is ending (`ListenerStuck`). Three
theorems say what there is besides. Only a reader in a send holds the mutex (`HolderSends`,
the converse of `LockHeld`). If it is not wedged, its receiver waits for the message or is on its
way there by steps that need no mutex (`MutexMoves`): a request that still writes, whose
write may fail and wedge the reader after all, or a `checkNewWork` that handles the last work,
which may yet meet the end of the device goroutines. And once a reader is wedged, it
stays so with the mutex held and every callback in place until the process ends
(`WedgedStays`): what `stratum_timeout` shows once is no delay, it is for good.

### The other components

Each row holds for any values of the constants that satisfy the assumption of the
module named (`...Assumption`), which TLC evaluates on the runs.

| Module | Theorem | States | Assumed |
|---|---|---|---|
| `MiningModeProofs` | `MiningInvariance`, `MiningTypeCorrect`, `RebuildAloneHolds`, `WorkIsCurrentHolds`, `DagMatchesWorkHolds` | `MiningInv`, `TypeOK`, `RebuildAlone`, `WorkIsCurrent`, `DagMatchesWork` for any number of devices and any packages | a header has one epoch; a package has the four fields |
| `MiningModeProofs` | `MiningWaitsHolds`, `WaitIsServedHolds`, `SendIsServedHolds`, `DevicesFinishHolds` | `MiningWaits`, `WaitIsServed`, `SendIsServed`, `DevicesFinish`: a main loop that waits for its devices waits for one that can step, announced work is taken unless the device is being stopped, and each step of the devices brings them nearer to the end | as above |
| `OpenCLMinerProofs`, about `SealDevice` | `SealInvariance`, `KernelFollowsWorkHolds`, `SharesWereSearchedHolds`, `StreamsDisjointHolds`, `SealTypeCorrect` | `SealInv`, `KernelFollowsWork`, `SharesWereSearched`, `StreamsDisjoint`, `SealTypeOK` for any pools, workers and widths | an extra nonce is in the upper bits of a nonce, as many as its length says, and leaves room for a stream below it; lengths may change from package to package; the workers of a device fit the bits of a stream; `NoncePowers` |
| `OpenCLMinerProofs`, about `SealDevice` | `NoWorkerLeftHolds`, `StopIsServedHolds`, `StopComesNearerHolds` | `NoWorkerLeft`, `StopIsServed`, `StopComesNearer`: a Seal that returned has no worker left, one that waits for its workers waits for one that can step, and each of their steps is one nearer to the end | as above |
| `OpenCLMinerProofs`, about `DeviceDag` | `DagInvariance`, `DagWholeHolds`, `InitReadyHolds`, `DagTypeCorrect` | `DagInv`, `DagWhole`, `InitReady`, `DagTypeOK` for any rig, number of epochs and sizes | a DAG has at least one chunk and, with a chunk, fits in the start index |
| `OpenCLMinerProofs`, about `DeviceDag` | `ChunksEndHolds` | `ChunksEnd`: the start index of the chunks goes up to the number of items and never wraps, so the loop ends | as above |
| `RpcClientProofs` | `RpcInvariance`, `FailoverInRangeHolds` | `RpcInv` (with the types), `FailoverInRange` for any number of servers and sharers | there is a server |
| `EngineProofs`, about `RemoteSealer` | `RemoteInvariance`, `RemoteTypeCorrect`, `AcceptedIsTakenHolds`, `KeepsRegistryHolds` | `RemoteInv`, `RemoteTypeOK`, `AcceptedIsTaken`, and `RemoteSpec => KeepsRegistry` | heights are numbers |
| `EngineProofs`, about `LocalSeal` | `SealedOnceHolds`, `LocalTypeCorrect` | `SealedOnce`, `LocalTypeOK` for any cores, settings and restarts | the calls of Seal are numbered from 1; there is a greatest setting |
| `EngineProofs`, about `LocalSeal` | `NobodyForgottenHolds`, `StopProgressesHolds` | `NobodyForgotten`, `StopProgresses`: no goroutine is left without a call that will stop it, and after a stop each call is over or can step | as above |
| `EngineProofs`, about `HeaderBatch` | `InHeaderOrderHolds`, `BatchTypeCorrect` | `InHeaderOrder`, `BatchTypeOK` for any batch and any number of workers | a batch is a sequence |
| `EngineProofs`, about `HeaderBatch` | `BatchPlacedHolds`, `BatchCanStepHolds`, `BatchDrainedHolds` | `BatchPlaced`, `BatchCanStep`, `BatchDrained`: each header handed out is in one place, while results are missing somebody can step, and the last result leaves nothing behind | as above |
| `EngineProofs`, about `ChainRules` | `ChainInvariance`, `UnclesPaidOnceHolds`, `UncleRewardsPositiveHolds`, `ChainTypeCorrect` | `ChainInv`, `UnclesPaidOnce`, `UncleRewardsPositive`, `ChainTypeOK` for any forks, generations and heights | an uncle may be as old as the code allows, which is less than the span of the reward (7 and 8), and a block's reward, counted in thirty-seconds of an ether, is at least that span |
| `EthashProofs`, about `EpochCache` | `EpochInvariance`, `ItemUsableHolds`, `EpochTypeCorrect` | `EpochInv`, `ItemUsable`, `EpochTypeOK` for any number of epochs, calls, objects, disk errors and crashes | the sizes of the lists are positive |
| `EthashProofs`, about `EthashAlgorithm` | `DsetInvariance`, `LightIsFullHolds`, `AlgorithmTypeCorrect` | `DsetInv`, `LightIsFull`, `AlgorithmTypeOK` for any sizes, widths of words and offsets, threads and hash functions; `LightIsFull` is about the datasets that an offset reaches | a dataset has an even number of rows; a row is a power of two of words (`HashWords` divides `2^OffsetBits`); `KeccakAssumption`: Keccak makes rows of rows; `PowersAssumption` |
| `EthashProofs`, about `EthashSizes` | `SizeTellsEpochHolds` | `SizeTellsEpoch`, for every epoch of the tables and the two after them | `TablesAssumption`, `PrimesAssumption` |
| `MetricHistoryProofs` | `HistoryInvariance`, `ChartIsExactHolds`, `HistoryTypeCorrect` | `HistoryInv`, `ChartIsExact`, `HistoryTypeOK` for any metrics, resolution and duration | the history is a whole number of buckets |
| `ComponentsProofs` | `BenchTypeCorrect` | `BenchTypeOK`: the group is left once for each time it was joined | - |
| `ComponentsProofs` | `BenchGoesOnHolds` | `BenchGoesOn`: a benchmark can go on unless its end and an interrupt cross | - |
| `ComponentsProofs` | `EachComponentBehaves`, `PartsTypeCorrect`, `PartsAreSafe`, `PartsGoOn` | a behaviour of `MCComponents` is one of each component; `PartsTypeOK`; all safety properties of the run with `KeepsRegistry`; what keeps workers, calls of Seal, verifiers and a benchmark from getting stuck | all of the above but those of `MiningMode` |

`NoncePowers` and `PowersAssumption` are no assumptions on the code: they recall that
a power of two is twice the one before, up to the width of a nonce and of a word,
which the provers do not know of `^`. `TablesAssumption` says of the 4096 entries of the two
tables what the prover would have to look up one by one: each is fewer than a hundred steps of two
rows below the threshold of its epoch (and four powers of two). `PrimesAssumption` says that four
numbers are prime, the sizes in rows of the first two epochs after the tables. TLC evaluates
both on each run.

The arguments:

* **MiningMode.** `WorkIsCurrent` fails to be inductive while `WorkChanged` is on
  its way: `ToldBelow` says that the devices below the one it waits for have the
  current package or, at "copying", are about to copy it. `RebuildAlone` needs that a `farmMineByDevice` that is done met its seal
  goroutine (`DoneIsGone`). `DagMatchesWork` needs `EpochKept`: until the main loop
  begins the change, the work, what `checkNewWork` is about to store, and all copies are of
  the epoch of the DAG.
* **SealDevice.** `Follows`: a worker without news has its header on the device, and its
  range is of the extra nonce except between that assignment and its announcement.
  `LengthsFollow`: the length it launched with is the one in `c.Work`, except while a package with
  another header or extra nonce waits for the control loop, which announces it. `StartsLate` puts
  the workers after the copy of the package. A result carries a searched pair from `Collect` to
  `Verify`, so shares are pairs that were searched.
* **Streams of nonces.** A worker's start is its stream number, shifted into the bits below
  the extra nonce, plus the extra nonce's own bits. What remains of a start modulo the nonces of
  an extra nonce is the stream number times the length of a stream (`StartIs`), so two workers
  of a device whose ranges met would have the same stream number (`StreamsApart`), and so, without an
  extra nonce, would two that meet in the segments of the random start
  (`SegmentsApart`). `Ranged` is what makes it inductive: whatever interleaving of an extra
  nonce, its length and their announcement, the range in use and each range that was searched is
  the worker's own for *some* extra nonce and *some* length of the pool (`SizesFit`: with each of
  them the stream fits in the nonce). The ranges compared are those taken with one length, by workers
  whose extra nonce has that length.
* **DeviceDag.** `Tiled`: between two chunks the items below the start index are made once and
  the others not at all, and the start index does not wrap because a DAG and one more chunk fit
  in its width; the last groups cover the rest and the kernel ignores what exceeds it.
  `Quiet`: a change of the epoch finds no goroutine of the last one. `Listed`: in the first
  epoch a device is in the list when its own goroutine succeeded, whatever the
  shared error says, and nothing touches its objects before the first change.
* **EpochCache.** `Held`: an object that the lru, the future item, a call or a background
  goroutine refers to is in use, so no other epoch is made in it. `Fits`: the future item and
  a call's item are of the epoch they stand for. `Filled`: generate marks an object done with
  whole data; a dataset that could not be dumped is generated in twice the words it needs. `DumpsWhole`: a dump gets its
  final name when it is whole, which a crash before the rename does not change. The lru stays in
  its size because touching an object makes it longer only where there is room (`TouchedFits`).
* **EthashAlgorithm.** `Written`: a row is either untouched or the item that
  `generateDatasetItem` gives at its index, and those between the first row of a thread and
  its cursor are of the second kind. The batches cover the rows, for rounding up gives no
  less (`PlanIs`, `RowInBatch`), so when every thread is at its end the dataset is the function
  that the light client computes. Where all its words are below `2^OffsetBits`, no offset
  wraps (`SliceIs`), and `hashimoto` is given the same rows either way. That
  the items are rows of words at all, and hence not the empty row, is an induction along each of the
  algorithm's recursive functions; they run over bounded ranges, where well-foundedness of the naturals
  gives it (`IterationTyped`, `IterationIs`).
* **Sizes of datasets and caches.** Each entry of a table lies within its threshold's step
  above the epoch before (`EntriesAre`), so the sizes of two epochs of the tables differ
  (`TablesTell`). After the tables, the search for a prime ends at the greatest one at or below
  its start, in steps of two, if there is any (`PrimeBelowIs`). The known primes of epochs
  2048 and 2049 keep each result above the last entry and the two apart
  (`SearchedAre`, `PastTables`), which settles the seam (`SeamTells`).
* **RpcClient.** `MovesAlone`: while nobody has overlapped, at most one goroutine moves the index,
  and when it is about to use it, it has checked it. The restart of the client after a
  panic needs that nobody submits before the first work.
* **RemoteSealer.** `works` holds blocks that were handed out (`WorksIssued`), so a
  submission that finds its block takes one that the registry issued. Every step is
  shown to be a step of `WorkRegistry` or a stutter.
* **LocalSeal.** `OneRunner`: a restart hands over, at most one runner can take a
  solution or start one that can, and none after a solution.
* **HeaderBatch.** An index in the done channel has its verdict (`VerdictsIn`), all
  below `nextOut` are checked (`Sent`), and what `Gather` sends ends at the first gap, which
  exists because `<` on the naturals is well-founded (`FirstGap`). A processor that
  has no header starts no worker (`CrewFits`).
* **ChainRules.** `Sound`: the block at height n has number n and the block below as parent,
  and each of its uncles is a child of an older ancestor (`Near`), is no block of the chain, is in
  no other block, and is once in its own list (`AcceptedDiffer`). A header that `VerifyUncles` accepts is `Near`
  (`AcceptedIsNear`), and it is new to the *whole* chain although the code only collects the last
  generations (`AcceptedIsNew`): an uncle of block n has its number at most `Generations` below
  n, and a block that holds it, or is it, cannot be further down. The bounds of a
  reward follow from `Near` (`Fraction`).
* **MetricHistory.** `RingExact`: in each minute within the history a ring shows the sum of what
  was sampled in it, for hash rates and others alike, and the bucket of any other time is not shown. `Spaced` keeps the samples of a
  metric a Resolution apart, so a minute has one of each metric at most; `Locked` keeps requests
  out of updates. `RequestExact`: while its minute lasts, an open request has the rows of the
  series it has read, added up bucket by bucket (`AddedIs`).
* **The components together.** `OthersStay` and `PartStep` reduce a step of `PartsNext` to a step
  of one component and a stutter of the ten others, so each invariant above is carried over
  without being proved again.

TLC evaluates every assumption on the runs of its module.

### What is left of liveness

That something happens in the end needs fairness and `ENABLED`, which the prover does not
take. What the liveness properties rest on besides can be proved: that whoever waits
waits for somebody who can step (a deadlock would break it), and that the steps lead somewhere
(a livelock would). Both are stated with the guards of the actions written out.

| Checked by TLC | Proved for every value of the constants |
|---|---|
| `StopCompletes` | `WaitIsServed`, `DevicesFinish`. Tokens are neither lost nor sent twice (`TokensKept`: those in the channel and the farm goroutines that took one are the tokens sent), and a farm goroutine meets its seal goroutine twice (`MetTwice`) |
| `WorkDelivered` | `SendIsServed`, `DevicesFinish`. The device that `checkNewWork` sends to is in its control loop, on its way there, or being stopped |
| `SealStops` | `StopIsServed`, `StopComesNearer`, `NoWorkerLeft`. `Staffed`: workers run only between the start of Seal and its return, and `c.stop` is set before Seal waits |
| `StopEndsThreads` | `StopProgresses`, `NobodyForgotten`. `Tended`: a goroutine that mines has a runner that waits for its block, restarts, or has closed its abort; a restart hands its place over to the next call |
| `EveryBatchEnds` | `BatchCanStep`, `BatchDrained`. `OnePlace`: a header that was handed out is with one worker, once in the queue, or checked; so the queue has room for who reports, and the header the sender waits for is with somebody |
| `EveryBenchmarkEnds` | `BenchGoesOn`. `BenchStaged`: at each stage of `Benchmark` the goroutine it sends to or waits for is where it can take it. The exception `Crossed` is the only one |
| `RequestReturns`, `ReconnectDials` | `MutexMoves`. Unless a reader is `Wedged`, the holder of the mutex waits for a goroutine that is on its way to the receive; a wedged one stays so (`WedgedStays`) |

What is only model-checked: those eight properties themselves and the other liveness properties
(liveness under fairness is beyond the prover), and the five violated properties. Every invariant and every
other action property of a passing run is a theorem.

## 5. Not modelled, and why

* GPU kernels and OpenCL bindings, `nvml`, templates, pprof, device listing, flags,
  formatting, logging, panic traces: I/O, generated or vendored code. What a kernel
  promises is in `SealDevice` (it searches the range it was given) and `DeviceDag` (it writes
  its items).
* `counter/`: a counter behind a mutex. `client/`: an interface.
* The contents of `c.work` in the Stratum client (job ids, target, extranonce):
  kept as data; a package reaches the devices as one value.
* `shareInfo` and the reports' texts: a timer and a print. Fan and clock settings, metrics of
  a device: reads and writes of registers.
* `FixedDifficulty`, an option that replaces the target by a constant.
* `markAlive`, `Check` and `SubmitHashrate` of the RPC client: nothing calls them.
* That Farm mode starts a DAG change: its main loop has the case, nothing sends on it.

Known limits of the code that the models contain or the reading showed, and that no
property is about:

* `SubmitWork` of the Stratum client panics with "implement me" (`src/stratum/stratum.go:66`).
* `generateDAGOnDevice` never writes the buffer of the cache, and the digest of a share is
  computed over the cache with `hashimotoFull` (`src/ethash/opencl_miner.go:957`).
* Four bits number the extra-nonce streams of a rig (`src/ethash/opencl_miner.go:882`):
  the workers of one device always have different ones (`StreamsDisjoint`), but those of
  two devices whose indices are four apart have the same with the default of four workers.
* `http/http.go:104` adds up every series whose name ends in "hashrate", so a device's
  `.solutions.hashrate` (`src/ethash/opencl_miner.go:183`) counts in the total.
* "Device memory may be insufficient" (`src/stratum.go:232`, `src/farm.go:330`) is compared
  with an error that begins with a small letter, so it never matches.
* `README.md:82` of the repository speaks of 3 kernels; there is one.
* A worker of `VerifyHeaders` may stay blocked on `done` after an abort.
* `LocalSeal`: a ping of `SetThreads` is dropped when nobody listens (the comment near
  `src/ethash/ethash.go:632` only says it never blocks).
* A temporary dump stays on disk after an error or a crash.
