--------------------------- MODULE ComponentsProofs ---------------------------
(***************************************************************************)
(* Theorems about BenchmarkRun and about the components together: every    *)
(* behaviour of MCComponents moves each component by its own steps only,   *)
(* so what is proved of a component holds there, and each keeps its types. *)
(***************************************************************************)
EXTENDS MCComponents, OpenCLMinerProofs, RpcClientProofs, EngineProofs,
        EthashProofs, MetricHistoryProofs

\* The group counts the seal goroutine from its entry to its return.
BenchInv ==
  /\ BenchTypeOK
  /\ bench = "initCL" => sealing = "off"
  /\ sealing \in {"off", "entering", "returned"} => group = 0
  /\ sealing \in {"loop", "aborting"} => group = 1

\* Nothing has joined the group when the process starts.
LEMMA BenchStarts == BenchInit => BenchInv
BY DEF BenchInit, BenchInv, BenchTypeOK

\* Benchmark and its goroutines join the group once and leave it once.
LEMMA RunKeeps ==
  ASSUME BenchInv,
         \/ InitSucceeds \/ InitIsCritical \/ SealEnters \/ HeaderChanges
         \/ TakeChange \/ ReportTime \/ ReportEnds \/ TimeIsUp \/ StopReport
         \/ StopSeal \/ SealReturns \/ SealWaitedFor
  PROVE  BenchInv'
<1> USE DEF BenchInv, BenchTypeOK
<1>1. CASE InitSucceeds \/ InitIsCritical BY <1>1 DEF InitSucceeds, InitIsCritical
<1>2. CASE SealEnters BY <1>2 DEF SealEnters
<1>3. CASE HeaderChanges \/ TakeChange BY <1>3 DEF HeaderChanges, TakeChange
<1>4. CASE ReportTime \/ ReportEnds \/ TimeIsUp \/ StopReport
  BY <1>4 DEF ReportTime, ReportEnds, TimeIsUp, StopReport
<1>5. CASE StopSeal BY <1>5 DEF StopSeal
<1>6. CASE SealReturns BY <1>6 DEF SealReturns
<1>7. CASE SealWaitedFor BY <1>7 DEF SealWaitedFor
<1> QED BY <1>1, <1>2, <1>3, <1>4, <1>5, <1>6, <1>7

\* main leaves the group alone.
LEMMA MainKeeps ==
  ASSUME BenchInv, Interrupt \/ MainSteps PROVE BenchInv'
BY DEF BenchInv, BenchTypeOK, Interrupt, MainSteps, TakeSignal, PassStop,
       MainSlept, TakeStop

\* Every step of the benchmark and of main keeps the invariant.
LEMMA BenchStep == BenchInv /\ [BenchNext]_benchVars => BenchInv'
<1>1. ASSUME BenchInv, UNCHANGED benchVars PROVE BenchInv'
  BY <1>1 DEF BenchInv, BenchTypeOK, benchVars
<1> QED BY <1>1, RunKeeps, MainKeeps DEF BenchNext, MainSteps

\* A WaitGroup that goes below zero panics: the group of a benchmark is never
\* left without having been joined, nor joined twice.
THEOREM BenchTypeCorrect == BenchSpec => []BenchTypeOK
<1>1. BenchInit => BenchInv BY BenchStarts
<1>2. BenchInv /\ [BenchNext]_benchVars => BenchInv' BY BenchStep
<1>3. BenchInv => BenchTypeOK BY DEF BenchInv
<1> QED BY <1>1, <1>2, <1>3, PTL DEF BenchSpec

\* Each stage of Benchmark finds the goroutine it waits for where it can take
\* the message, and main is told only by a benchmark that was not interrupted.
BenchStaged ==
  /\ bench = "workChanged" => sealing \in {"entering", "loop"}
  /\ bench \in {"select", "stopReport", "stopSeal"} => sealing = "loop"
  /\ bench = "wait" => sealing \in {"aborting", "returned"}
  /\ bench \in {"sendStop", "returned"} => sealing = "returned"
  /\ bench \in {"workChanged", "select", "stopReport"} =>
       reporter \in {"asleep", "polling"}
  /\ bench \in {"initCL", "workChanged", "select"} => ending = "none"
  /\ mainAt = "sleeping" <=> ending = "aborted"
  /\ bench = "sendStop" => ending # "aborted"
  /\ bench = "returned" /\ Running => mainAt = "sleeping"

\* Benchmark begins with InitCL, which waits for nobody.
LEMMA StagedInit == BenchInit => BenchStaged
BY DEF BenchInit, BenchStaged

\* Every step of Benchmark and of main leads to a stage that is ready for it.
LEMMA StagedStep ==
  BenchInv /\ BenchStaged /\ [BenchNext]_benchVars => BenchStaged'
<1> USE DEF BenchStaged, Running
<1>1. ASSUME BenchStaged, UNCHANGED benchVars PROVE BenchStaged'
  BY <1>1 DEF benchVars
<1>2. ASSUME BenchInv, BenchStaged,
             \/ InitSucceeds \/ InitIsCritical \/ SealEnters \/ HeaderChanges
             \/ TakeChange
      PROVE  BenchStaged'
  BY <1>2 DEF BenchInv, InitSucceeds, InitIsCritical, SealEnters,
              HeaderChanges, TakeChange
<1>3. ASSUME BenchStaged,
             ReportTime \/ ReportEnds \/ TimeIsUp \/ StopReport
      PROVE  BenchStaged'
  BY <1>3 DEF ReportTime, ReportEnds, TimeIsUp, StopReport
<1>4. ASSUME BenchInv, BenchStaged,
             StopSeal \/ SealReturns \/ SealWaitedFor
      PROVE  BenchStaged'
  BY <1>4 DEF BenchInv, StopSeal, SealReturns, SealWaitedFor
<1>5. ASSUME BenchStaged, Interrupt \/ MainSteps PROVE BenchStaged'
  BY <1>5 DEF Interrupt, MainSteps, TakeSignal, PassStop, MainSlept, TakeStop
<1> QED BY <1>1, <1>2, <1>3, <1>4, <1>5 DEF BenchNext, MainSteps

\* A running benchmark can go on, unless its end and an interrupt cross: the
\* stage it is at can be left, or a goroutine it waits for can step.
BenchGoesOn ==
  Running =>
    \/ bench \in {"initCL", "select"}
    \/ bench = "workChanged" /\ sealing \in {"entering", "loop"}
    \/ bench = "stopReport" /\ reporter \in {"asleep", "polling"}
    \/ bench = "stopSeal" /\ sealing = "loop"
    \/ bench = "wait" /\ (sealing = "aborting" \/ group = 0)
    \/ bench = "sendStop" /\ mainAt = "select"
    \/ mainAt = "sleeping"
    \/ Crossed

\* A stage that is ready for its goroutine can be left.
LEMMA StagedGoesOn == BenchInv /\ BenchStaged => BenchGoesOn
BY DEF BenchInv, BenchTypeOK, BenchStaged, BenchGoesOn, Crossed

\* The only way main and Benchmark can wait for each other is to send to each
\* other at the same time.
THEOREM BenchGoesOnHolds == BenchSpec => []BenchGoesOn
<1>1. BenchInit => BenchInv /\ BenchStaged BY BenchStarts, StagedInit
<1>2. BenchInv /\ BenchStaged /\ [BenchNext]_benchVars
        => (BenchInv /\ BenchStaged)'
  BY BenchStep, StagedStep
<1> QED BY <1>1, <1>2, StagedGoesOn, PTL DEF BenchSpec
-----------------------------------------------------------------------------
(* The components together.                                                *)

\* A component that is not the one that moves stays.
LEMMA OthersStay ==
  ASSUME NEW p, Others(p)
  PROVE  /\ part' = part
         /\ p # "seal" => UNCHANGED sealVars
         /\ p # "dag" => UNCHANGED dagVars
         /\ p # "rpc" => UNCHANGED rpcVars
         /\ p # "remote" => UNCHANGED remoteVars
         /\ p # "local" => UNCHANGED localVars
         /\ p # "batch" => UNCHANGED batchVars
         /\ p # "epochs" => UNCHANGED epochVars
         /\ p # "chain" => UNCHANGED chainVars
         /\ p # "dataset" => UNCHANGED dsetVars
         /\ p # "history" => UNCHANGED historyVars
         /\ p # "benchmark" => UNCHANGED benchVars
BY DEF Others

\* A step leaves the components alone that part does not name.
LEMMA OnePartMoves == PartsNext => Others(part)
BY DEF PartsNext

\* A step of a part is one of its component.
LEMMA PartStep ==
  ASSUME PartsNext
  PROVE  /\ part = "seal" => SealNext
         /\ part = "dag" => DagNext
         /\ part = "rpc" => RpcNext
         /\ part = "remote" => RemoteNext
         /\ part = "local" => LocalNext
         /\ part = "batch" => BatchNext
         /\ part = "epochs" => EpochNext
         /\ part = "chain" => ChainNext
         /\ part = "dataset" => DsetNext
         /\ part = "history" => HistoryNext
         /\ part = "benchmark" => BenchNext
<1>1. part = "seal" => SealNext BY DEF PartsNext, SealNext
<1>2. part = "dag" => DagNext BY DEF PartsNext, DagNext
<1>3. part = "rpc" => RpcNext BY DEF PartsNext, RpcNext
<1>4. part = "remote" => RemoteNext BY DEF PartsNext, RemoteNext
<1>5. part = "local" => LocalNext BY DEF PartsNext, LocalNext
<1>6. part = "batch" => BatchNext BY DEF PartsNext, BatchNext
<1>7. part = "epochs" => EpochNext BY DEF PartsNext, EpochNext, GenerateStep
<1>8. part = "chain" => ChainNext BY DEF PartsNext, ChainNext
<1>9. part = "dataset" => DsetNext BY DEF PartsNext, DsetNext
<1>10. part = "history" => HistoryNext BY DEF PartsNext, HistoryNext
<1>11. part = "benchmark" => BenchNext BY DEF PartsNext, BenchNext
<1> QED BY <1>1, <1>2, <1>3, <1>4, <1>5, <1>6, <1>7, <1>8, <1>9, <1>10, <1>11

\* Whatever moves, each component takes one of its own steps or stays.
LEMMA ComponentSteps ==
  ASSUME [PartsNext]_partsVars
  PROVE  /\ UNCHANGED part
         /\ [SealNext]_sealVars
         /\ [DagNext]_dagVars
         /\ [RpcNext]_rpcVars
         /\ [RemoteNext]_remoteVars
         /\ [LocalNext]_localVars
         /\ [BatchNext]_batchVars
         /\ [EpochNext]_epochVars
         /\ [ChainNext]_chainVars
         /\ [DsetNext]_dsetVars
         /\ [HistoryNext]_historyVars
         /\ [BenchNext]_benchVars
<1>1. CASE PartsNext
  <2>1. Others(part) BY <1>1, OnePartMoves
  <2>2. /\ part' = part
        /\ part # "seal" => UNCHANGED sealVars
        /\ part # "dag" => UNCHANGED dagVars
        /\ part # "rpc" => UNCHANGED rpcVars
        /\ part # "remote" => UNCHANGED remoteVars
        /\ part # "local" => UNCHANGED localVars
        /\ part # "batch" => UNCHANGED batchVars
        /\ part # "epochs" => UNCHANGED epochVars
        /\ part # "chain" => UNCHANGED chainVars
        /\ part # "dataset" => UNCHANGED dsetVars
        /\ part # "history" => UNCHANGED historyVars
        /\ part # "benchmark" => UNCHANGED benchVars
    BY <2>1, OthersStay
  <2> QED BY <1>1, <2>2, PartStep
<1>2. CASE UNCHANGED partsVars BY <1>2 DEF partsVars
<1> QED BY <1>1, <1>2

\* A behaviour of the components is one of each of them.
THEOREM EachComponentBehaves ==
  PartsBehave =>
    /\ SealInit /\ [][SealNext]_sealVars
    /\ DagInit /\ [][DagNext]_dagVars
    /\ RpcInit /\ [][RpcNext]_rpcVars
    /\ RemoteInit /\ [][RemoteNext]_remoteVars
    /\ LocalInit /\ [][LocalNext]_localVars
    /\ BatchInit /\ [][BatchNext]_batchVars
    /\ EpochInit /\ [][EpochNext]_epochVars
    /\ ChainInit /\ [][ChainNext]_chainVars
    /\ DsetInit /\ [][DsetNext]_dsetVars
    /\ HistoryInit /\ [][HistoryNext]_historyVars
    /\ BenchInit /\ [][BenchNext]_benchVars
<1>1. PartsInit => /\ SealInit /\ DagInit /\ RpcInit /\ RemoteInit /\ LocalInit
                   /\ BatchInit /\ EpochInit /\ ChainInit /\ DsetInit
                   /\ HistoryInit /\ BenchInit
  BY DEF PartsInit
<1>2. [PartsNext]_partsVars => /\ [SealNext]_sealVars
                             /\ [DagNext]_dagVars
                             /\ [RpcNext]_rpcVars
                             /\ [RemoteNext]_remoteVars
                             /\ [LocalNext]_localVars
                             /\ [BatchNext]_batchVars
                             /\ [EpochNext]_epochVars
                             /\ [ChainNext]_chainVars
                             /\ [DsetNext]_dsetVars
                             /\ [HistoryNext]_historyVars
                             /\ [BenchNext]_benchVars
  BY ComponentSteps
<1> QED BY <1>1, <1>2, PTL DEF PartsBehave

\* The GPU workers in the company of the others: types, disjoint streams, what
\* they search, and how they end.
LEMMA SealAmongParts ==
  PartsBehave => /\ [](/\ SealTypeOK /\ StreamsDisjoint
                       /\ KernelFollowsWork /\ SharesWereSearched
                       /\ NoWorkerLeft /\ StopIsServed)
                 /\ StopComesNearer
<1> DEFINE I == SealTyped /\ Ranged /\ SealInv /\ LengthsFollow /\ Staffed
<1>1. SealInit => I
  BY SealTypedInit, RangedInit, SealInitInv, LengthsInit DEF SealInit, Staffed
<1>2. I /\ [SealNext]_sealVars => I'
  BY SealTypedStep, RangedStep, SealStep, LengthsStep, StaffedStep
<1>3. I => /\ SealTypeOK /\ StreamsDisjoint
           /\ KernelFollowsWork /\ SharesWereSearched
  BY RangedApart
     DEF SealTyped, SealInv, Follows, LengthsFollow, KernelFollowsWork, InLoop
<1>4. I => NoWorkerLeft /\ StopIsServed
  BY DEF SealTyped, SealTypeOK, Staffed, NoWorkerLeft, StopIsServed
<1>5. I /\ [SealNext]_sealVars => NearerEnd BY NearerStep
<1> HIDE DEF I
<1> QED BY <1>1, <1>2, <1>3, <1>4, <1>5, EachComponentBehaves, PTL
        DEF StopComesNearer

\* The devices and their DAGs in the company of the others.
LEMMA DagAmongParts == PartsBehave => [](DagTypeOK /\ DagWhole /\ InitReady)
<1>1. DagInit => DagTyped BY DagInitTyped
<1>2. DagTyped /\ [DagNext]_dagVars => DagTyped' BY DagTypedStep
<1>3. DagTyped => DagTypeOK /\ DagWhole /\ InitReady
  BY DagTypesFollow
     DEF DagTyped, DagInv, Tiled, DagWhole, Listed, InitReady, Ready
<1> QED BY <1>1, <1>2, <1>3, EachComponentBehaves, PTL

\* The getwork client in the company of the others.
LEMMA RpcAmongParts == PartsBehave => [](RpcTypeOK /\ FailoverInRange)
<1>1. RpcInit => RpcInv BY RpcInitInv
<1>2. RpcInv /\ [RpcNext]_rpcVars => RpcInv' BY RpcStep
<1>3. RpcInv => RpcTypeOK /\ FailoverInRange
  BY DEF RpcInv, MovesAlone, FailoverInRange
<1> QED BY <1>1, <1>2, <1>3, EachComponentBehaves, PTL

\* The remote sealer in the company of the others: it still implements the
\* registry of works.
LEMMA RemoteAmongParts ==
  PartsBehave => [](RemoteTypeOK /\ AcceptedIsTaken) /\ KeepsRegistry
<1>1. RemoteInit => RemoteInv BY RemoteInvInit
<1>2. RemoteInv /\ [RemoteNext]_remoteVars => RemoteInv' BY RemoteInvNext
<1>3. RemoteInv => RemoteTypeOK /\ AcceptedIsTaken BY DEF RemoteInv
<1>4. RemoteInit => Registry!RegistryInit
  BY DEF RemoteInit, Registry!RegistryInit
<1>5. RemoteInv /\ [RemoteNext]_remoteVars
        => [Registry!RegistryNext]_(Registry!registryVars)
  BY RegistryStep
<1> QED BY <1>1, <1>2, <1>3, <1>4, <1>5, EachComponentBehaves, PTL
        DEF KeepsRegistry, Registry!RegistrySpec

\* The sealer on the processor in the company of the others.
LEMMA LocalAmongParts ==
  PartsBehave => [](/\ LocalTypeOK /\ SealedOnce
                    /\ NobodyForgotten /\ StopProgresses)
<1>1. LocalInit => LocalTended BY TendedInit
<1>2. LocalTended /\ [LocalNext]_localVars => LocalTended' BY TendedStep
<1>3. LocalTended => LocalTypeOK /\ SealedOnce
  BY LocalTypesFollow DEF LocalTended, LocalInv, OneRunner, SealedOnce
<1> QED BY <1>1, <1>2, <1>3, TendedForgetsNobody, TendedProgresses,
           EachComponentBehaves, PTL

\* A batch of headers in the company of the others.
LEMMA BatchAmongParts ==
  PartsBehave => [](/\ BatchTypeOK /\ InHeaderOrder
                    /\ BatchCanStep /\ BatchDrained)
<1>1. BatchInit => BatchPlaced BY PlacedInit
<1>2. BatchPlaced /\ [BatchNext]_batchVars => BatchPlaced' BY PlacedStep
<1>3. BatchPlaced => BatchTypeOK /\ InHeaderOrder
  BY BatchTypesFollow DEF BatchPlaced, BatchTyped, BatchInv, InHeaderOrder
<1> QED BY <1>1, <1>2, <1>3, PlacedCanStep, PlacedIsDrained,
           EachComponentBehaves, PTL

\* The items of the epochs in the company of the others.
LEMMA EpochAmongParts == PartsBehave => [](EpochTypeOK /\ ItemUsable)
<1>1. EpochInit => EpochTyped BY EpochInitTyped
<1>2. EpochTyped /\ [EpochNext]_epochVars => EpochTyped' BY EpochTypedStep
<1>3. EpochTyped => EpochTypeOK /\ ItemUsable
  BY EpochTypesFollow, HeldIsUsable DEF EpochTyped
<1> QED BY <1>1, <1>2, <1>3, EachComponentBehaves, PTL

\* The chain in the company of the others.
LEMMA ChainAmongParts ==
  PartsBehave => [](ChainTypeOK /\ UnclesPaidOnce /\ UncleRewardsPositive)
<1>1. ChainInit => ChainInv BY ChainInitInv
<1>2. ChainInv /\ [ChainNext]_chainVars => ChainInv' BY ChainStep
<1>3. ChainInv => ChainTypeOK /\ UnclesPaidOnce /\ UncleRewardsPositive
  BY ChainTypesFollow, SoundPaysOnce, SoundPaysFairly
<1> QED BY <1>1, <1>2, <1>3, EachComponentBehaves, PTL

\* The dataset in the company of the others.
LEMMA DsetAmongParts ==
  PartsBehave => [](AlgorithmTypeOK /\ LightIsFull /\ SizeTellsEpoch)
<1>1. DsetInit => DsetInv BY DsetInitInv
<1>2. DsetInv /\ [DsetNext]_dsetVars => DsetInv' BY DsetStep
<1>3. DsetInv => AlgorithmTypeOK /\ LightIsFull BY RowsFollow, FullIsLight
<1>4. SizeTellsEpoch BY SizesTell, Zenon DEF SizeTellsEpoch
<1>5. DsetInv => SizeTellsEpoch BY <1>4
<1> QED BY <1>1, <1>2, <1>3, <1>5, EachComponentBehaves, PTL

\* The history of the metrics in the company of the others.
LEMMA HistoryAmongParts == PartsBehave => [](HistoryTypeOK /\ ChartIsExact)
BY HistoryStarts, HistoryStep, HistoryTypesFollow, ChartFollows,
   EachComponentBehaves, PTL

\* The benchmark in the company of the others.
LEMMA BenchAmongParts == PartsBehave => [](BenchTypeOK /\ BenchGoesOn)
<1>1. BenchInit => BenchInv /\ BenchStaged BY BenchStarts, StagedInit
<1>2. BenchInv /\ BenchStaged /\ [BenchNext]_benchVars
        => (BenchInv /\ BenchStaged)'
  BY BenchStep, StagedStep
<1>3. BenchInv /\ BenchStaged => BenchTypeOK /\ BenchGoesOn
  BY StagedGoesOn DEF BenchInv
<1> QED BY <1>1, <1>2, <1>3, EachComponentBehaves, PTL

\* The part that moves is one of the eleven.
LEMMA PartNamed == PartsBehave => [](part \in Parts)
<1>1. PartsInit => part \in Parts BY DEF PartsInit
<1>2. part \in Parts /\ [PartsNext]_partsVars => (part \in Parts)'
  BY ComponentSteps
<1> QED BY <1>1, <1>2, PTL DEF PartsBehave

\* Whichever component moves, it keeps its types.
THEOREM PartsTypeCorrect == PartsBehave => []PartsTypeOK
<1>1. /\ part \in Parts /\ SealTypeOK /\ DagTypeOK /\ RpcTypeOK /\ RemoteTypeOK
      /\ LocalTypeOK /\ BatchTypeOK /\ EpochTypeOK /\ ChainTypeOK
      /\ AlgorithmTypeOK /\ HistoryTypeOK /\ BenchTypeOK
      => PartsTypeOK
  BY PartsAssumption DEF PartsTypeOK
<1> QED BY <1>1, PartNamed, SealAmongParts, DagAmongParts, RpcAmongParts,
           RemoteAmongParts, LocalAmongParts, BatchAmongParts,
           EpochAmongParts, ChainAmongParts, DsetAmongParts,
           HistoryAmongParts, BenchAmongParts, PTL

\* What the components promise each by itself they promise together: the
\* safety properties of the run.
THEOREM PartsAreSafe ==
  PartsBehave =>
    /\ [](StreamsDisjoint /\ KernelFollowsWork /\ SharesWereSearched)
    /\ [](DagWhole /\ InitReady /\ FailoverInRange)
    /\ [](AcceptedIsTaken /\ SealedOnce /\ InHeaderOrder) /\ KeepsRegistry
    /\ [](ItemUsable /\ LightIsFull /\ SizeTellsEpoch)
    /\ [](UnclesPaidOnce /\ UncleRewardsPositive)
    /\ []ChartIsExact
BY SealAmongParts, DagAmongParts, RpcAmongParts, RemoteAmongParts,
   LocalAmongParts, BatchAmongParts, EpochAmongParts, ChainAmongParts,
   DsetAmongParts, HistoryAmongParts, PTL

\* Nor do they stop each other: what keeps each of them from getting stuck, the
\* workers of a device, the goroutines of a call of Seal, the verifiers of
\* a batch and the stages of a benchmark, holds among the others as well.
THEOREM PartsGoOn ==
  PartsBehave =>
    /\ [](NoWorkerLeft /\ StopIsServed) /\ StopComesNearer
    /\ [](NobodyForgotten /\ StopProgresses)
    /\ [](BatchCanStep /\ BatchDrained)
    /\ []BenchGoesOn
BY SealAmongParts, LocalAmongParts, BatchAmongParts, BenchAmongParts, PTL
=============================================================================
