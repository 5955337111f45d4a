--------------------------- MODULE MCComponents ---------------------------
(* One instance of each component that is a module of its own: the GPU     *)
(* side of the OpenCL miner (SealDevice, DeviceDag), the getwork client    *)
(* (RpcClient), the ethash engine (RemoteSealer, LocalSeal, HeaderBatch,   *)
(* EpochCache, ChainRules, EthashAlgorithm), the dashboard's history       *)
(* (MetricHistory) and the benchmark (BenchmarkRun).  A behaviour chooses  *)
(* the component that moves; the others keep their first state.            *)
EXTENDS SealDevice, DeviceDag, RpcClient, RemoteSealer, LocalSeal,
        HeaderBatch, EpochCache, ChainRules, EthashAlgorithm, MetricHistory,
        BenchmarkRun

CONSTANT Parts  \* the components to choose from

ASSUME PartsAssumption ==
  Parts \subseteq {"seal", "dag", "rpc", "remote", "local", "batch", "epochs",
                   "chain", "dataset", "history", "benchmark"}

VARIABLE part  \* the component that moves
-----------------------------------------------------------------------------
(* Values of the constants.                                                *)

\* A pool that changes the extra nonce, one that changes header, target and
\* the length of the extra nonce, one that changes the extra nonce and its
\* length, and one that sends none at first.  A nonce has five bits here.
Package(h, t, e, b) == [header |-> h, target |-> t, extra |-> e, bits |-> b]
MCPlainPool == {<<Package("h1", 2, 0, 0)>>}
MCPools == {<<Package("h1", 2, 8, 2), Package("h1", 2, 16, 2)>>,
            <<Package("h1", 2, 16, 2), Package("h2", 1, 16, 1)>>,
            <<Package("h1", 2, 24, 2), Package("h1", 2, 16, 1)>>,
            <<Package("h1", 2, 0, 0), Package("h1", 2, 8, 2)>>}

\* Items that leave a rest of three and of none after the chunks.
MCItems == <<7, 8>>

\* The second block is so much higher that the first goes stale.
MCHeight == [b \in Tasks |-> IF b = "b1" THEN 1 ELSE 3]

\* An unsound header after sound ones, one that is not linked to the one
\* before it, one that is known already; and no header at all.
Linked(old, ok) == [linked |-> TRUE, known |-> old, sound |-> ok]
MCBatches ==
  {<<Linked(FALSE, TRUE), Linked(FALSE, FALSE),
     [linked |-> FALSE, known |-> FALSE, sound |-> TRUE],
     Linked(TRUE, FALSE)>>, <<>>}

MCSetups == {<<"cache", TRUE>>, <<"dataset", TRUE>>, <<"dataset", FALSE>>}

MCForks == [homestead |-> 1, byzantium |-> 3, constantinople |-> 4,
            muir |-> 6]
MCDelay == [byzantium |-> 2, constantinople |-> 3, muir |-> 4]

\* Two words of three bits that are mixed well enough for ten different rows.
MCKeccak(row) == <<(7 * row[1] + 7 * row[2] + row[1] * row[2] + 1) % 8,
                   (7 * row[1] + 6 * row[2] + 2) % 8>>
MCBlake(h, n) == <<(h[1] + 3 * n[1] + 2) % 8, (5 * h[1] + n[1]^2 + 1) % 8>>

\* Rows and threads: a batch for each, a rest, more threads than full batches.
MCDatasets == {<<6, 2>>, <<8, 3>>, <<6, 4>>, <<10, 3>>}
MCHashes == {<<0>>, <<5>>}
MCNonces == {<<n>> : n \in 0..7}
-----------------------------------------------------------------------------
(* The behaviours.                                                         *)

partsVars ==
  <<part, sealVars, dagVars, rpcVars, remoteVars, localVars, batchVars,
    epochVars, chainVars, dsetVars, historyVars, benchVars>>

\* A component that does not move has one first state.
Chosen(p, value, values) == part = p \/ value = CHOOSE v \in values : TRUE

PartsInit ==
  /\ part \in Parts
  /\ SealInit
  /\ DagInit
  /\ RpcInit
  /\ RemoteInit
  /\ LocalInit
  /\ BatchInit
  /\ EpochInit
  /\ ChainInit
  /\ DsetInit
  /\ HistoryInit
  /\ BenchInit
  /\ Chosen("seal", jobs, Pools) /\ Chosen("batch", batch, Batches)
  /\ Chosen("epochs", <<kind, onDisk>>, EpochSetups)
  /\ Chosen("dataset", plan, Datasets) /\ Chosen("dag", binary, BOOLEAN)

\* The components that do not move.
Others(p) ==
  /\ UNCHANGED part
  /\ IF p = "seal" THEN TRUE ELSE UNCHANGED sealVars
  /\ IF p = "dag" THEN TRUE ELSE UNCHANGED dagVars
  /\ IF p = "rpc" THEN TRUE ELSE UNCHANGED rpcVars
  /\ IF p = "remote" THEN TRUE ELSE UNCHANGED remoteVars
  /\ IF p = "local" THEN TRUE ELSE UNCHANGED localVars
  /\ IF p = "batch" THEN TRUE ELSE UNCHANGED batchVars
  /\ IF p = "epochs" THEN TRUE ELSE UNCHANGED epochVars
  /\ IF p = "chain" THEN TRUE ELSE UNCHANGED chainVars
  /\ IF p = "dataset" THEN TRUE ELSE UNCHANGED dsetVars
  /\ IF p = "history" THEN TRUE ELSE UNCHANGED historyVars
  /\ IF p = "benchmark" THEN TRUE ELSE UNCHANGED benchVars

PartsNext ==
  \/ part = "seal" /\ SetJob /\ Others("seal")
  \/ part = "seal" /\ Enter /\ Others("seal")
  \/ part = "seal" /\ EnterStopped /\ Others("seal")
  \/ part = "seal" /\ TakeMsg /\ Others("seal")
  \/ part = "seal" /\ TakeExtra /\ Others("seal")
  \/ part = "seal" /\ MarkExtra /\ Others("seal")
  \/ part = "seal" /\ TakeTarget /\ Others("seal")
  \/ part = "seal" /\ TakeHeader /\ Others("seal")
  \/ part = "seal" /\ OtherDeviceStops /\ Others("seal")
  \/ part = "seal" /\ StopSealing /\ Others("seal")
  \/ part = "seal" /\ Abort /\ Others("seal")
  \/ part = "seal" /\ Return /\ Others("seal")
  \/ \E b \in Workers :
       \/ part = "seal" /\ SetDagArgs(b) /\ Others("seal")
       \/ part = "seal" /\ Check(b) /\ Others("seal")
       \/ part = "seal" /\ Launch(b) /\ Others("seal")
       \/ part = "seal" /\ LaunchFails(b) /\ Others("seal")
       \/ part = "seal" /\ Collect(b) /\ Others("seal")
       \/ part = "seal" /\ CollectFails(b) /\ Others("seal")
  \/ \E f \in found :
       \/ part = "seal" /\ Verify(f) /\ Others("seal")
  \/ part = "dag" /\ StartDevice /\ Others("dag")
  \/ part = "dag" /\ StartsDone /\ Others("dag")
  \/ part = "dag" /\ InitReturns /\ Others("dag")
  \/ part = "dag" /\ ChangeDAGCall /\ Others("dag")
  \/ part = "dag" /\ Renew /\ Others("dag")
  \/ part = "dag" /\ RenewDone /\ Others("dag")
  \/ part = "dag" /\ ChangeReturns /\ Others("dag")
  \/ part = "dag" /\ StopMiner /\ Others("dag")
  \/ part = "dag" /\ Destroy /\ Others("dag")
  \/ \E g \in Gpus :
       \/ part = "dag" /\ Setup(g) /\ Others("dag")
       \/ part = "dag" /\ CreateProgram(g) /\ Others("dag")
       \/ part = "dag" /\ CreateBinary(g) /\ Others("dag")
       \/ part = "dag" /\ Alloc(g) /\ Others("dag")
       \/ part = "dag" /\ Chunk(g) /\ Others("dag")
       \/ part = "dag" /\ Rest(g) /\ Others("dag")
       \/ part = "dag" /\ AppendDevice(g) /\ Others("dag")
       \/ part = "dag" /\ Report(g) /\ Others("dag")
  \/ \E p \in Posters :
       \/ part = "rpc" /\ CheckSick(p) /\ Others("rpc")
       \/ part = "rpc" /\ MoveUrl(p) /\ Others("rpc")
       \/ part = "rpc" /\ IncIdx(p) /\ Others("rpc")
       \/ part = "rpc" /\ WrapIdx(p) /\ Others("rpc")
       \/ part = "rpc" /\ ClearStats(p) /\ Others("rpc")
       \/ part = "rpc" /\ Unreachable(p) /\ Others("rpc")
       \/ part = "rpc" /\ Garbage(p) /\ Others("rpc")
       \/ part = "rpc" /\ ErrorReply(p) /\ Others("rpc")
       \/ part = "rpc" /\ ShortReply(p) /\ Others("rpc")
  \/ part = "rpc" /\ PollFires /\ Others("rpc")
  \/ part = "rpc" /\ WorkReply /\ Others("rpc")
  \/ \E s \in Sharers :
       \/ part = "rpc" /\ ShareFound(s) /\ Others("rpc")
       \/ part = "rpc" /\ ShareReply(s) /\ Others("rpc")
  \/ \E u \in Urls :
       \/ part = "rpc" /\ ServerDies(u) /\ Others("rpc")
  \/ \E b \in Tasks :
       \/ part = "remote" /\ TakeTask(b) /\ Others("remote")
  \/ \E c \in Callers :
       \/ part = "remote" /\ ServeGetWork(c) /\ Others("remote")
       \/ part = "remote" /\ ServeSubmit(c) /\ Others("remote")
       \/ part = "remote" /\ ServeRate(c) /\ Others("remote")
       \/ part = "remote" /\ ServeGetRate(c) /\ Others("remote")
       \/ part = "remote" /\ Call(c) /\ Others("remote")
       \/ part = "remote" /\ CallStopped(c) /\ Others("remote")
       \/ part = "remote" /\ CallReturns(c) /\ Others("remote")
  \/ \E id \in Ids :
       \/ part = "remote" /\ RateAges(id) /\ Others("remote")
  \/ part = "remote" /\ Tick /\ Others("remote")
  \/ part = "remote" /\ NotifyEnds /\ Others("remote")
  \/ part = "remote" /\ Close /\ Others("remote")
  \/ part = "remote" /\ LoopReturns /\ Others("remote")
  \/ part = "remote" /\ LoopExits /\ Others("remote")
  \/ part = "local" /\ SealBlock /\ Others("local")
  \/ part = "local" /\ StopMining /\ Others("local")
  \/ \E n \in Settings :
       \/ part = "local" /\ SetThreads(n) /\ Others("local")
  \/ \E s \in Seals :
       \/ part = "local" /\ Spawn(s) /\ Others("local")
       \/ part = "local" /\ Stopped(s) /\ Others("local")
       \/ part = "local" /\ Restart(s) /\ Others("local")
       \/ part = "local" /\ RunnerEnds(s) /\ Others("local")
  \/ \E s \in Seals, t \in Slots :
       \/ part = "local" /\ Solved(s, t) /\ Others("local")
       \/ part = "local" /\ Find(s, t) /\ Others("local")
       \/ part = "local" /\ Withdraw(s, t) /\ Others("local")
  \/ \E w \in Crew(batch) :
       \/ part = "batch" /\ VerifyOne(w) /\ Others("batch")
       \/ part = "batch" /\ ReportDone(w) /\ Others("batch")
       \/ part = "batch" /\ VerifierEnds(w) /\ Others("batch")
       \/ part = "batch" /\ HandOut(w) /\ Others("batch")
  \/ part = "batch" /\ Gather /\ Others("batch")
  \/ part = "batch" /\ CallerQuits /\ Others("batch")
  \/ part = "batch" /\ SenderQuits /\ Others("batch")
  \/ \E u \in Users, e \in Epochs :
       \/ part = "epochs" /\ Ask(u, e) /\ Others("epochs")
       \/ part = "epochs" /\ AskAsync(u, e) /\ Others("epochs")
  \/ \E u \in Users :
       \/ part = "epochs" /\ Obtain(u) /\ Others("epochs")
       \/ part = "epochs" /\ LookAgain(u) /\ Others("epochs")
       \/ part = "epochs" /\ LeaveItem(u) /\ Others("epochs")
  \/ \E j \in makers :
       \/ part = "epochs" /\ JobMovesOn(j) /\ Others("epochs")
  \/ \E o \in Objects :
       \/ part = "epochs" /\ GenerateInMemory(o) /\ Others("epochs")
       \/ part = "epochs" /\ LoadDump(o) /\ Others("epochs")
       \/ part = "epochs" /\ FillTemp(o) /\ Others("epochs")
       \/ part = "epochs" /\ RenameTemp(o) /\ Others("epochs")
       \/ part = "epochs" /\ MapDump(o) /\ Others("epochs")
       \/ part = "epochs" /\ FallBack(o) /\ Others("epochs")
       \/ part = "epochs" /\ SweepDumps(o) /\ Others("epochs")
  \/ part = "epochs" /\ CrashAndRestart /\ Others("epochs")
  \/ \E d \in Delays, spoilt \in Spoilings :
       \/ part = "chain" /\ InsertBlock(d, <<>>, spoilt) /\ Others("chain")
  \/ \E d \in Delays, u \in UncleCandidates :
       \/ part = "chain" /\ InsertBlock(d, <<u>>, "no") /\ Others("chain")
  \/ \E d \in Delays, u, v \in UncleCandidates :
       \/ part = "chain" /\ InsertBlock(d, <<u, v>>, "no") /\ Others("chain")
  \/ part = "chain" /\ ClockTicks /\ Others("chain")
  \/ \E t \in DOMAIN cursor :
       \/ part = "dataset" /\ WriteRow(t) /\ Others("dataset")
  \/ part = "history" /\ ClockMoves /\ Others("history")
  \/ part = "history" /\ UpdateStarts /\ Others("history")
  \/ part = "history" /\ ClearHistory /\ Others("history")
  \/ part = "history" /\ RequestStarts /\ Others("history")
  \/ part = "history" /\ RequestEnds /\ Others("history")
  \/ \E n \in Names :
       \/ part = "history" /\ Sample(n) /\ Others("history")
       \/ part = "history" /\ ReadSeries(n) /\ Others("history")
  \/ part = "benchmark" /\ InitSucceeds /\ Others("benchmark")
  \/ part = "benchmark" /\ InitIsCritical /\ Others("benchmark")
  \/ part = "benchmark" /\ SealEnters /\ Others("benchmark")
  \/ part = "benchmark" /\ HeaderChanges /\ Others("benchmark")
  \/ part = "benchmark" /\ TakeChange /\ Others("benchmark")
  \/ part = "benchmark" /\ ReportTime /\ Others("benchmark")
  \/ part = "benchmark" /\ ReportEnds /\ Others("benchmark")
  \/ part = "benchmark" /\ TimeIsUp /\ Others("benchmark")
  \/ part = "benchmark" /\ StopReport /\ Others("benchmark")
  \/ part = "benchmark" /\ StopSeal /\ Others("benchmark")
  \/ part = "benchmark" /\ SealReturns /\ Others("benchmark")
  \/ part = "benchmark" /\ SealWaitedFor /\ Others("benchmark")
  \/ part = "benchmark" /\ Interrupt /\ Others("benchmark")
  \/ part = "benchmark" /\ TakeSignal /\ Others("benchmark")
  \/ part = "benchmark" /\ PassStop /\ Others("benchmark")
  \/ part = "benchmark" /\ MainSlept /\ Others("benchmark")
  \/ part = "benchmark" /\ TakeStop /\ Others("benchmark")

-----------------------------------------------------------------------------
(* Fairness is the components' own: SealFairness, RpcFairness,            *)
(* RemoteFairness, LocalFairness, BatchFairness and BenchFairness.  Those  *)
(* of the getwork client and of the benchmark are restated for the         *)
(* behaviours in which they move, for they have a fair first step.         *)
PartsFairness ==
  /\ SealFairness /\ RemoteFairness /\ LocalFairness /\ BatchFairness
  /\ WF_rpcVars(part = "rpc" /\ PollFires)
  /\ \A p \in Posters : WF_rpcVars(part = "rpc" /\ Proceed(p))
  /\ WF_benchVars(part = "benchmark" /\ MainSteps)
  /\ SF_benchVars(part = "benchmark" /\ BenchSteps)
  /\ WF_benchVars(part = "benchmark" /\ (SealEnters \/ SealReturns))
  /\ WF_benchVars(part = "benchmark" /\ ReportEnds)

PartsBehave == PartsInit /\ [][PartsNext]_partsVars

PartsSpec == PartsBehave /\ PartsFairness
-----------------------------------------------------------------------------
(* Properties.                                                             *)

\* The component that moves keeps its types.
PartsTypeOK ==
  CASE part = "seal" -> SealTypeOK
    [] part = "dag" -> DagTypeOK
    [] part = "rpc" -> RpcTypeOK
    [] part = "remote" -> RemoteTypeOK
    [] part = "local" -> LocalTypeOK
    [] part = "batch" -> BatchTypeOK
    [] part = "epochs" -> EpochTypeOK
    [] part = "chain" -> ChainTypeOK
    [] part = "dataset" -> AlgorithmTypeOK
    [] part = "history" -> HistoryTypeOK
    [] part = "benchmark" -> BenchTypeOK

\* BatchEnds: a caller of VerifyHeaders that does not quit gets all results,
\* and no worker is left over.
EveryBatchEnds == part = "batch" => BatchEnds

\* BenchmarkEnds: a benchmark ends the process, unless its end and an
\* interrupt cross.
EveryBenchmarkEnds == part = "benchmark" => BenchmarkEnds
=============================================================================
