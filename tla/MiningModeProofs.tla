--------------------------- MODULE MiningModeProofs ---------------------------
(***************************************************************************)
(* Theorems about MiningMode for every number of devices and every set of  *)
(* work packages.  They rest on one inductive invariant: a device whose    *)
(* goroutine ended is out of Seal, WorkChanged has reached the devices     *)
(* below i, and until the device goroutines end the work in place has the  *)
(* epoch of the DAG.                                                       *)
(***************************************************************************)
EXTENDS MiningMode, FiniteSetTheorems, TLAPS

\* The phases in which a device may search, with the work it has copied; in the
\* last of them it was told of a work it has yet to copy.
Running == {"starting", "sealing", "copying"}

\* Only a farm goroutine that met its seal goroutine is done, and the DAG is
\* rebuilt, or the mode left, when all of them are.
DoneIsGone ==
  /\ \A d \in Devices : farm[d] = "done" => seal[d] = "gone"
  /\ main \in {"dagGen", "done", "restart"} => AllDone

\* The devices below i have the work that WorkChanged announces, or have been
\* told and are at the copy.
ToldBelow ==
  /\ cn \in {"changeDAG", "setWork"} => i = 1
  /\ \A d \in Devices :
       /\ seal[d] \in Running \ {"copying"}
       /\ cn = "recv" \/ (cn = "send" /\ d < i)
       => local[d] = work

\* In Stratum mode, as long as a device goroutine runs and no DAG change is
\* under way, miner.Work and its copies are of the epoch of the DAG.
EpochKept ==
  mode = "stratum" /\ main \notin {"dagStop", "dagWait"} /\ ~AllDone =>
    /\ work.epoch = dag
    /\ cn = "setWork" => wt.epoch = dag
    /\ \A d \in Devices : seal[d] \in Running => local[d].epoch = dag

\* The inductive invariant.
MiningInv == TypeOK /\ DoneIsGone /\ ToldBelow /\ EpochKept

\* The initial states satisfy the invariant.
LEMMA InitInv == ASSUME Init PROVE MiningInv
<1> USE DevicesAssumption, WorksAssumption, PackagesAssumption
<1>1. work \in Packages /\ work \in Works BY DEF Init
<1>2. TypeOK
  <2>1. /\ k \in Devices /\ i \in Devices /\ tokens \in 0..N
    BY DEF Init, Devices
  <2>2. /\ local \in [Devices -> Packages]
        /\ farm \in [Devices -> {"wait", "stopSeal", "stopSealFunc", "done"}]
        /\ seal \in [Devices -> {"select", "entry", "starting", "sealing",
                                 "copying", "stopping", "gone"}]
    BY <1>1 DEF Init
  <2>3. dag \in {w.epoch : w \in Works} /\ wt \in Works
    BY <1>1 DEF Init
  <2>4. /\ mode \in {"stratum", "farm"} /\ main = "announce" /\ cn = "recv"
        /\ report = "timer" /\ stop = FALSE
    BY DEF Init
  <2> QED BY <1>1, <2>1, <2>2, <2>3, <2>4 DEF TypeOK
<1>3. DoneIsGone BY DEF Init, DoneIsGone
<1>4. ToldBelow BY DEF Init, ToldBelow, Running
<1>5. EpochKept BY DEF Init, EpochKept, Running
<1> QED BY <1>2, <1>3, <1>4, <1>5 DEF MiningInv

\* A package updated in place stays a package of its header and epoch.
LEMMA UpdatedInPlace ==
  ASSUME NEW w \in Packages, NEW v \in Works
  PROVE  /\ [w EXCEPT !.extra = v.extra] \in Packages
         /\ [w EXCEPT !.target = v.target] \in Packages
         /\ [w EXCEPT !.extra = v.extra].epoch = w.epoch
         /\ [w EXCEPT !.target = v.target].epoch = w.epoch
BY DEF Packages

\* A device that receives on workCh goes from its select to the copy; no other
\* device moves.
LEMMA TakeWorkShape ==
  ASSUME TypeOK, NEW d \in Devices, TakeWork(d)
  PROVE  /\ seal' \in [Devices -> {"select", "entry", "starting", "sealing",
                                   "copying", "stopping", "gone"}]
         /\ seal[d] = "sealing" /\ seal'[d] = "copying"
         /\ \A e \in Devices \ {d} : seal'[e] = seal[e]
BY DEF TakeWork, TypeOK

\* All that a message on workCh does to the devices.
LEMMA Told ==
  ASSUME TypeOK, NEW d \in Devices, TakeWork(d)
  PROVE  \A e \in Devices : \/ seal'[e] = seal[e]
                            \/ seal[e] = "sealing" /\ seal'[e] = "copying"
BY TakeWorkShape

\* Every step keeps the types.
LEMMA TypeStep == ASSUME TypeOK, [Next]_vars PROVE TypeOK'
<1> USE DevicesAssumption, WorksAssumption, PackagesAssumption DEF Devices
<1>1. CASE NotifyWork
  BY <1>1 DEF NotifyWork, TypeOK, modeVars, mainVars, devVars
<1>2. CASE PollWork
  BY <1>2 DEF PollWork, TypeOK, modeVars, mainVars, devVars
<1>3. CASE NewExtraNonce
  BY <1>3, UpdatedInPlace
     DEF NewExtraNonce, TypeOK, modeVars, mainVars, devVars
<1>4. CASE NewTarget
  BY <1>4, UpdatedInPlace DEF NewTarget, TypeOK, modeVars, mainVars, devVars
<1>5. CASE NewHeader
  BY <1>5 DEF NewHeader, TypeOK, modeVars, mainVars, devVars
<1>6. CASE ChangeDAG
  BY <1>6 DEF ChangeDAG, TypeOK, modeVars, devVars
<1>7. CASE SetWork
  BY <1>7 DEF SetWork, TypeOK, modeVars, mainVars, devVars
<1>8. CASE WorkChanged
  <2>1. seal' \in [Devices -> {"select", "entry", "starting", "sealing",
                               "copying", "stopping", "gone"}]
    BY <1>8, TakeWorkShape DEF WorkChanged, TypeOK
  <2> QED BY <1>8, <2>1 DEF WorkChanged, TypeOK, modeVars, mainVars
<1>9. CASE ReportHashRate \/ ReportReturns
  BY <1>9 DEF ReportHashRate, ReportReturns, TypeOK, mainVars, cnVars, devVars
<1>10. ASSUME NEW d \in Devices, DeviceStep(d) PROVE TypeOK'
  <2>1. /\ farm' \in [Devices -> {"wait", "stopSeal", "stopSealFunc", "done"}]
        /\ seal' \in [Devices -> {"select", "entry", "starting", "sealing",
                                  "copying", "stopping", "gone"}]
    BY <1>10 DEF DeviceStep, SealTimer, SealCopy, SealLoop, FarmStop, StopSeal,
                 SealReturns, CopyWork, StopSealFunc, TypeOK
  <2>2. tokens' \in 0..N
    <3>1. tokens' = tokens \/ (tokens > 0 /\ tokens' = tokens - 1)
      BY <1>10 DEF DeviceStep, SealTimer, SealCopy, SealLoop, FarmStop,
                   StopSeal, SealReturns, CopyWork, StopSealFunc
    <3> QED BY <3>1 DEF TypeOK
  <2>5. stop' \in BOOLEAN
    <3>1. stop' = stop \/ stop' = TRUE
      BY <1>10 DEF DeviceStep, SealTimer, SealCopy, SealLoop, FarmStop,
                   StopSeal, SealReturns, CopyWork, StopSealFunc
    <3> QED BY <3>1 DEF TypeOK
  <2>3. local' \in [Devices -> Packages]
    BY <1>10 DEF DeviceStep, SealTimer, SealCopy, SealLoop, FarmStop, StopSeal,
                 SealReturns, CopyWork, StopSealFunc, TypeOK
  <2>4. UNCHANGED <<modeVars, mainVars, cnVars, work, dag>>
    BY <1>10 DEF DeviceStep, SealTimer, SealCopy, SealLoop, FarmStop, StopSeal,
                 SealReturns, CopyWork, StopSealFunc
  <2> QED BY <2>1, <2>2, <2>3, <2>4, <2>5 DEF TypeOK, modeVars, mainVars, cnVars
<1>11. CASE Announce
  <2>1. seal' \in [Devices -> {"select", "entry", "starting", "sealing",
                               "copying", "stopping", "gone"}]
    BY <1>11, TakeWorkShape DEF Announce, TypeOK
  <2> QED BY <1>11, <2>1 DEF Announce, TypeOK, modeVars, cnVars
<1>12. CASE StopRequested \/ StopCheckNewWork \/ StopReport
  BY <1>12 DEF StopRequested, StopCheckNewWork, StopReport, TypeOK, modeVars,
               cnVars, devVars
<1>13. CASE StopFarmMine
  BY <1>13 DEF StopFarmMine, TypeOK, modeVars, cnVars
<1>14. CASE StopWait \/ DagOk \/ DagFails
  BY <1>14 DEF StopWait, DagOk, DagFails, TypeOK, modeVars, cnVars, devVars
<1>15. CASE DagWait
  <2>1. dag' \in {w.epoch : w \in Works} BY <1>15 DEF DagWait, TypeOK, Packages
  <2> QED BY <1>15, <2>1 DEF DagWait, TypeOK, modeVars, cnVars, devVars
<1>16. CASE UNCHANGED vars
  BY <1>16 DEF vars, TypeOK, modeVars, mainVars, cnVars, devVars
<1> QED BY <1>1, <1>2, <1>3, <1>4, <1>5, <1>6, <1>7, <1>8, <1>9, <1>10,
           <1>11, <1>12, <1>13, <1>14, <1>15, <1>16
        DEF Next, CheckNewWorkStep, MainStep

\* Who ended stays ended, and the main loop waits for all before it rebuilds.
LEMMA DoneStep ==
  ASSUME MiningInv, [Next]_vars
  PROVE  DoneIsGone' /\ (AllDone => AllDone')
<1> USE DEF MiningInv
<1>1. CASE CheckNewWorkStep \/ ReportHashRate \/ ReportReturns
  <2>1. /\ farm' = farm
        /\ \A e \in Devices : seal[e] = "gone" => seal'[e] = "gone"
    <3>1. CASE WorkChanged
      <4>1. farm' = farm /\ TakeWork(i) /\ i \in Devices
        BY <3>1 DEF WorkChanged, TypeOK
      <4> QED BY <4>1, Told
    <3> QED BY <1>1, <3>1
            DEF CheckNewWorkStep, NotifyWork, PollWork, NewExtraNonce,
                NewTarget, NewHeader, ChangeDAG, SetWork, devVars,
                ReportHashRate, ReportReturns
  <2>2. main' = main \/ main' = "dagStop"
    BY <1>1 DEF CheckNewWorkStep, NotifyWork, PollWork, NewExtraNonce,
         NewTarget, NewHeader, ChangeDAG, SetWork, WorkChanged, mainVars,
         ReportHashRate, ReportReturns
  <2> QED BY <2>1, <2>2 DEF DoneIsGone, AllDone
<1>2. ASSUME NEW d \in Devices, DeviceStep(d)
      PROVE  DoneIsGone' /\ (AllDone => AllDone')
  <2>1. main' = main
    BY <1>2 DEF DeviceStep, SealTimer, SealCopy, SealLoop, FarmStop, StopSeal,
                SealReturns, CopyWork, StopSealFunc, mainVars
  <2>2. \A e \in Devices : farm[e] = "done" => farm'[e] = "done"
    BY <1>2 DEF DeviceStep, SealTimer, SealCopy, SealLoop, FarmStop, StopSeal,
                SealReturns, CopyWork, StopSealFunc, TypeOK
  <2>3. \A e \in Devices : farm'[e] = "done" => seal'[e] = "gone"
    BY <1>2 DEF DeviceStep, SealTimer, SealCopy, SealLoop, FarmStop, StopSeal,
                SealReturns, CopyWork, StopSealFunc, TypeOK, DoneIsGone
  <2> QED BY <2>1, <2>2, <2>3 DEF DoneIsGone, AllDone
<1>3. CASE MainStep
  <2>1. /\ farm' = farm
        /\ \A e \in Devices : seal[e] = "gone" => seal'[e] = "gone"
    <3>1. CASE Announce
      <4>1. farm' = farm /\ TakeWork(k) /\ k \in Devices
        BY <3>1 DEF Announce, TypeOK
      <4> QED BY <4>1, Told
    <3> QED BY <1>3, <3>1
            DEF MainStep, StopRequested, StopCheckNewWork, StopReport,
                StopFarmMine, StopWait, DagWait, DagOk, DagFails, devVars
  <2>2. main' \in {"dagGen", "done", "restart"} => AllDone
    BY <1>3 DEF MainStep, Announce, StopRequested, StopCheckNewWork,
         StopReport, StopFarmMine, StopWait, DagWait, DagOk, DagFails,
         DoneIsGone
  <2> QED BY <2>1, <2>2 DEF DoneIsGone, AllDone
<1>4. CASE UNCHANGED vars
  BY <1>4 DEF vars, devVars, mainVars, DoneIsGone, AllDone
<1> QED BY <1>1, <1>2, <1>3, <1>4 DEF Next

\* Every step of checkNewWork tells the devices in order, and a device that
\* enters Seal copies the work of that moment.
LEMMA ToldStep == ASSUME MiningInv, [Next]_vars PROVE ToldBelow'
<1> USE DEF MiningInv
<1>1. CASE NotifyWork \/ PollWork \/ NewExtraNonce \/ NewTarget \/ NewHeader
  <2>1. cn' \notin {"recv"} /\ (cn' \in {"changeDAG", "setWork"} => i' = 1)
    BY <1>1 DEF NotifyWork, PollWork, NewExtraNonce, NewTarget, NewHeader
  <2>2. cn' = "send" => i' = 1
    BY <1>1 DEF NotifyWork, PollWork, NewExtraNonce, NewTarget, NewHeader
  <2> QED BY <2>1, <2>2 DEF ToldBelow, Devices
<1>2. CASE ChangeDAG \/ SetWork
  <2>1. i' = 1 /\ cn' \in {"setWork", "send"}
    BY <1>2 DEF ChangeDAG, SetWork, ToldBelow
  <2> QED BY <2>1 DEF ToldBelow, Devices
<1>3. CASE WorkChanged
  <2>1. /\ cn = "send" /\ UNCHANGED <<local, work>>
        /\ \/ i = N /\ cn' = "recv" /\ i' = 1
           \/ i # N /\ cn' = "send" /\ i' = i + 1
    BY <1>3 DEF WorkChanged
  <2>2. seal'[i] = "copying" /\ \A e \in Devices \ {i} : seal'[e] = seal[e]
    BY <1>3, TakeWorkShape DEF WorkChanged, TypeOK
  <2>3. ASSUME NEW d \in Devices, seal'[d] \in Running \ {"copying"},
               cn' = "recv" \/ (cn' = "send" /\ d < i')
        PROVE  local'[d] = work'
    <3>1. d = i \/ d < i BY <2>1, <2>3 DEF Devices, TypeOK
    <3>2. d # i BY <2>2, <2>3
    <3>3. CASE d < i /\ d # i BY <2>1, <2>2, <2>3, <3>3 DEF ToldBelow
    <3> QED BY <3>1, <3>2, <3>3
  <2> QED BY <2>1, <2>3 DEF ToldBelow
<1>4. ASSUME NEW d \in Devices, DeviceStep(d) PROVE ToldBelow'
  <2>1. UNCHANGED <<cn, i, work>>
    BY <1>4 DEF DeviceStep, SealTimer, SealCopy, SealLoop, FarmStop, StopSeal,
                SealReturns, CopyWork, StopSealFunc, cnVars
  <2>2. \A e \in Devices : seal'[e] \in Running \ {"copying"} =>
          \/ seal[e] \in Running \ {"copying"} /\ local'[e] = local[e]
          \/ local'[e] = work
    BY <1>4 DEF DeviceStep, SealTimer, SealCopy, SealLoop, FarmStop, StopSeal,
                SealReturns, CopyWork, StopSealFunc, TypeOK, Running
  <2> QED BY <2>1, <2>2 DEF ToldBelow
<1>5. CASE Announce
  <2>1. UNCHANGED <<cn, i, local, work>> BY <1>5 DEF Announce, cnVars
  <2>2. TakeWork(k) /\ k \in Devices BY <1>5 DEF Announce, TypeOK
  <2>3. \A e \in Devices : seal'[e] \in Running \ {"copying"} =>
          seal[e] \in Running \ {"copying"}
    BY <2>2, Told DEF Running
  <2> QED BY <2>1, <2>3 DEF ToldBelow
<1>6. CASE StopCheckNewWork
  BY <1>6 DEF StopCheckNewWork, ToldBelow
<1>7. CASE \/ ReportHashRate \/ ReportReturns \/ StopRequested \/ StopReport
           \/ StopFarmMine \/ StopWait \/ DagWait \/ DagOk \/ DagFails
           \/ UNCHANGED vars
  <2>1. UNCHANGED <<cn, i, seal, local, work>>
    BY <1>7 DEF ReportHashRate, ReportReturns, StopRequested, StopReport,
         StopFarmMine, StopWait, DagWait, DagOk, DagFails, vars, cnVars,
         devVars
  <2> QED BY <2>1 DEF ToldBelow
<1> QED BY <1>1, <1>2, <1>3, <1>4, <1>5, <1>6, <1>7
        DEF Next, CheckNewWorkStep, MainStep

\* A header of another epoch becomes miner.Work only after the main loop has
\* begun the DAG change, which it leaves when all device goroutines ended.
LEMMA EpochStep == ASSUME MiningInv, [Next]_vars PROVE EpochKept'
<1> USE DEF MiningInv
<1> SUFFICES ASSUME mode' = "stratum", main' \notin {"dagStop", "dagWait"},
                    ~AllDone'
             PROVE  /\ work'.epoch = dag'
                    /\ cn' = "setWork" => wt'.epoch = dag'
                    /\ \A d \in Devices :
                         seal'[d] \in Running => local'[d].epoch = dag'
  BY DEF EpochKept
<1>1. ~AllDone BY DoneStep
<1>2. mode = "stratum"
  BY DEF Next, CheckNewWorkStep, MainStep, NotifyWork, PollWork,
         NewExtraNonce, NewTarget, NewHeader, ChangeDAG, SetWork, WorkChanged,
         ReportHashRate, ReportReturns, Announce, StopRequested,
         StopCheckNewWork, StopReport, StopFarmMine, StopWait, DagWait, DagOk,
         DagFails, DeviceStep, SealTimer, SealCopy, SealLoop, FarmStop,
         StopSeal, SealReturns, CopyWork, StopSealFunc, vars, modeVars
<1>3. CASE NotifyWork \/ ReportHashRate \/ ReportReturns
  <2>1. /\ UNCHANGED <<main, work, dag, seal, local>>
        /\ cn' = "setWork" => cn = "setWork" /\ wt' = wt
    BY <1>3 DEF NotifyWork, ReportHashRate, ReportReturns, mainVars, devVars,
                cnVars
  <2> QED BY <1>1, <1>2, <2>1 DEF EpochKept
<1>4. CASE NewExtraNonce \/ NewTarget
  <2>1. work'.epoch = work.epoch
    <3>1. work \in Packages /\ wt \in Works BY DEF TypeOK
    <3>2. \/ work' = [work EXCEPT !.extra = wt.extra]
          \/ work' = [work EXCEPT !.target = wt.target]
      BY <1>4 DEF NewExtraNonce, NewTarget
    <3> QED BY <3>1, <3>2, UpdatedInPlace
  <2>2. UNCHANGED <<main, dag, seal, local>> /\ cn' # "setWork"
    BY <1>4 DEF NewExtraNonce, NewTarget, mainVars, devVars
  <2> QED BY <1>1, <1>2, <2>1, <2>2 DEF EpochKept
<1>5. CASE NewHeader
  <2>1. UNCHANGED <<main, work, dag, seal, local, wt>>
    BY <1>5 DEF NewHeader, mainVars, devVars
  <2>2. cn' = "setWork" => wt.epoch = dag
    BY <1>5 DEF NewHeader, CmpDagSize
  <2> QED BY <1>1, <1>2, <2>1, <2>2 DEF EpochKept
<1>6. CASE ChangeDAG
  BY <1>6 DEF ChangeDAG
<1>7. CASE SetWork
  <2>1. /\ work' = wt /\ cn = "setWork" /\ cn' = "send"
        /\ UNCHANGED <<main, dag, seal, local>>
    BY <1>7 DEF SetWork, mainVars, devVars
  <2> QED BY <1>1, <1>2, <2>1 DEF EpochKept
<1>8. CASE WorkChanged \/ Announce
  <2>1. /\ UNCHANGED <<work, dag, local, wt>> /\ (cn' = "setWork" => cn = cn')
        /\ main \notin {"dagStop", "dagWait"}
    BY <1>8 DEF WorkChanged, Announce, mainVars, cnVars
  <2>2. \A e \in Devices : seal'[e] \in Running => seal[e] \in Running
    <3>1. PICK d \in Devices : TakeWork(d)
      BY <1>8 DEF WorkChanged, Announce, TypeOK
    <3> QED BY <3>1, Told DEF Running
  <2> QED BY <1>1, <1>2, <2>1, <2>2 DEF EpochKept
<1>9. ASSUME NEW d \in Devices, DeviceStep(d)
      PROVE  /\ work'.epoch = dag'
             /\ cn' = "setWork" => wt'.epoch = dag'
             /\ \A e \in Devices :
                  seal'[e] \in Running => local'[e].epoch = dag'
  <2>1. UNCHANGED <<main, cn, wt, work, dag>>
    BY <1>9 DEF DeviceStep, SealTimer, SealCopy, SealLoop, FarmStop, StopSeal,
                SealReturns, CopyWork, StopSealFunc, mainVars, cnVars
  <2>2. \A e \in Devices : seal'[e] \in Running =>
          \/ seal[e] \in Running /\ local'[e] = local[e]
          \/ local'[e] = work
    BY <1>9 DEF DeviceStep, SealTimer, SealCopy, SealLoop, FarmStop, StopSeal,
                SealReturns, CopyWork, StopSealFunc, TypeOK, Running
  <2> QED BY <1>1, <1>2, <2>1, <2>2 DEF EpochKept
<1>10. CASE \/ StopRequested \/ StopCheckNewWork \/ StopReport
            \/ StopFarmMine \/ StopWait \/ UNCHANGED vars
  <2>1. /\ UNCHANGED <<work, dag, seal, local, wt>>
        /\ cn' = "setWork" => cn = "setWork"
        /\ main \notin {"dagStop", "dagWait"}
    BY <1>10 DEF StopRequested, StopCheckNewWork, StopReport, StopFarmMine,
                 StopWait, vars, cnVars, devVars, mainVars
  <2> QED BY <1>1, <1>2, <2>1 DEF EpochKept
<1>11. CASE DagWait \/ DagOk \/ DagFails
  BY <1>1, <1>11 DEF DagWait, DagOk, DagFails, DoneIsGone
<1>12. CASE PollWork
  BY <1>2, <1>12 DEF PollWork
<1> QED BY <1>3, <1>4, <1>5, <1>6, <1>7, <1>8, <1>9, <1>10, <1>11, <1>12
        DEF Next, CheckNewWorkStep, MainStep

\* The inductive invariant holds in every reachable state.
THEOREM MiningInvariance == Spec => []MiningInv
<1>1. Init => MiningInv BY InitInv
<1>2. MiningInv /\ [Next]_vars => MiningInv'
  BY TypeStep, DoneStep, ToldStep, EpochStep DEF MiningInv
<1> QED BY <1>1, <1>2, PTL DEF Spec

\* The state stays in its types for any number of devices and packages.
THEOREM MiningTypeCorrect == Spec => []TypeOK
<1>1. MiningInv => TypeOK BY DEF MiningInv
<1> QED BY <1>1, MiningInvariance, PTL

\* Nobody is in Seal while the DAG is rebuilt or after Destroy: the tokens on
\* stopFarmMine, the stop of Seal and the wait group together see to it.
THEOREM RebuildAloneHolds == Spec => []RebuildAlone
<1>1. MiningInv => RebuildAlone
  BY DEF MiningInv, DoneIsGone, AllDone, RebuildAlone
<1> QED BY <1>1, MiningInvariance, PTL

\* No update of the work misses a device, however the update, the timers of
\* the seal goroutines and the entry of Seal interleave.
THEOREM WorkIsCurrentHolds == Spec => []WorkIsCurrent
<1>1. MiningInv => WorkIsCurrent
  BY DEF MiningInv, ToldBelow, WorkIsCurrent, Running
<1> QED BY <1>1, MiningInvariance, PTL

\* In Stratum mode a device that searches does so on the DAG of its header.
THEOREM DagMatchesWorkHolds == Spec => []DagMatchesWork
<1>1. MiningInv => DagMatchesWork
  BY DEF MiningInv, DoneIsGone, AllDone, EpochKept, DagMatchesWork, Running
<1> QED BY <1>1, MiningInvariance, PTL

\* The farm goroutines that have taken a token.
Woken == {d \in Devices : farm[d] # "wait"}

\* The tokens the main loop has sent, in the stop or the DAG change it is at.
TokensSent ==
  IF main \in {"announce", "loop", "stopCN", "stopReport"} THEN 0
  ELSE IF main \in {"stopFarm", "dagStop"} THEN k - 1 ELSE N

\* Until all device goroutines have ended, a token is in the channel or woke
\* one of them.
TokensKept == AllDone \/ tokens + Cardinality(Woken) = TokensSent

\* A farm goroutine and its seal goroutine meet twice: for the stop of Seal and
\* once it has returned.
MetTwice ==
  \A d \in Devices :
    /\ farm[d] = "stopSealFunc" => seal[d] \in {"select", "stopping"}
    /\ seal[d] = "stopping" => stop /\ farm[d] = "stopSealFunc"
    /\ seal[d] = "gone" => farm[d] = "done"

\* The invariant with what the main loop's waits rest on.
MiningWaits == MiningInv /\ TokensKept /\ MetTwice

\* The farm goroutines that took a token are some of N.
LEMMA WokenFits ==
  /\ IsFiniteSet(Woken) /\ Cardinality(Woken) \in 0..N
  /\ (\E d \in Devices : farm[d] = "wait") => Cardinality(Woken) < N
<1>1. N \in Nat BY DevicesAssumption
<1>2. IsFiniteSet(Devices) /\ Cardinality(Devices) = N
  BY <1>1, FS_Interval DEF Devices
<1>3. Woken \in SUBSET Devices BY DEF Woken
<1>4. /\ IsFiniteSet(Woken) /\ Cardinality(Woken) <= N
      /\ N = Cardinality(Woken) => Devices = Woken
  BY <1>2, <1>3, FS_Subset
<1>5. Cardinality(Woken) \in Nat BY <1>4, FS_CardinalityType
<1>6. (\E d \in Devices : farm[d] = "wait") => Devices # Woken BY DEF Woken
<1> QED BY <1>1, <1>4, <1>5, <1>6

\* A device's step keeps the tokens and the meetings.
LEMMA WaitsDevice ==
  ASSUME MiningWaits, NEW d \in Devices, DeviceStep(d)
  PROVE  TokensKept' /\ MetTwice'
<1>1. MiningInv /\ TypeOK BY DEF MiningWaits, MiningInv
<1>3. UNCHANGED <<main, k>>
  BY DEF DeviceStep, SealTimer, SealCopy, SealLoop, FarmStop, StopSeal,
         SealReturns, CopyWork, StopSealFunc, mainVars
<1>4. /\ \A e \in Devices \ {d} : farm'[e] = farm[e] /\ seal'[e] = seal[e]
      /\ stop' = stop \/ stop' = TRUE
  BY <1>1 DEF DeviceStep, SealTimer, SealCopy, SealLoop, FarmStop, StopSeal,
              SealReturns, CopyWork, StopSealFunc, TypeOK
<1>5. TokensKept'
  <2>1. CASE AllDone
    <3>1. AllDone'
      BY <1>1, <2>1 DEF DeviceStep, SealTimer, SealCopy, SealLoop, FarmStop,
                        StopSeal, SealReturns, CopyWork, StopSealFunc,
                         AllDone, TypeOK
    <3> QED BY <3>1 DEF TokensKept
  <2>2. CASE ~AllDone
    <3>1. tokens + Cardinality(Woken) = TokensSent
      BY <2>2 DEF MiningWaits, TokensKept
    <3>2. TokensSent' = TokensSent BY <1>3 DEF TokensSent
    <3>3. IsFiniteSet(Woken) /\ Cardinality(Woken) \in 0..N BY WokenFits
    <3>4. CASE FarmStop(d)
      <4>1. farm[d] = "wait" /\ tokens' = tokens - 1
            /\ farm' = [farm EXCEPT ![d] = "stopSeal"]
        BY <3>4 DEF FarmStop
      <4>2. farm'[d] = "stopSeal" /\ DOMAIN farm' = Devices
        BY <1>1, <4>1 DEF TypeOK
      <4>3. Woken' = Woken \union {d} BY <1>4, <4>1, <4>2 DEF Woken
      <4>4. d \notin Woken BY <4>1 DEF Woken
      <4>5. Cardinality(Woken \union {d}) = Cardinality(Woken) + 1
        BY <3>3, <4>4, FS_AddElement
      <4>6. tokens \in Int /\ N \in Nat BY <1>1, DevicesAssumption DEF TypeOK
      <4>7. tokens' + Cardinality(Woken)' = TokensSent'
        BY <3>1, <3>2, <3>3, <4>1, <4>3, <4>5, <4>6
      <4> QED BY <4>7 DEF TokensKept
    <3>5. CASE ~FarmStop(d)
      <4>1. tokens' = tokens
        BY <3>5 DEF DeviceStep, SealTimer, SealCopy, SealLoop, StopSeal,
                    SealReturns, CopyWork, StopSealFunc
      <4>2. farm'[d] # "wait" <=> farm[d] # "wait"
        BY <1>1, <3>5 DEF DeviceStep, SealTimer, SealCopy, SealLoop, StopSeal,
                          SealReturns, CopyWork, StopSealFunc, TypeOK
      <4>3. Woken' = Woken BY <1>4, <4>2 DEF Woken
      <4> QED BY <3>1, <3>2, <4>1, <4>3 DEF TokensKept
    <3> QED BY <3>4, <3>5
  <2> QED BY <2>1, <2>2
<1>6. /\ farm'[d] = "stopSealFunc" => seal'[d] \in {"select", "stopping"}
      /\ seal'[d] = "stopping" => stop' /\ farm'[d] = "stopSealFunc"
      /\ seal'[d] = "gone" => farm'[d] = "done"
  BY <1>1 DEF DeviceStep, SealTimer, SealCopy, SealLoop, FarmStop, StopSeal,
              SealReturns, CopyWork, StopSealFunc, TypeOK, MiningWaits, MetTwice
<1>7. \A e \in Devices \ {d} :
        /\ farm'[e] = "stopSealFunc" => seal'[e] \in {"select", "stopping"}
        /\ seal'[e] = "stopping" => stop' /\ farm'[e] = "stopSealFunc"
        /\ seal'[e] = "gone" => farm'[e] = "done"
  BY <1>4 DEF MiningWaits, MetTwice
<1>8. MetTwice' BY <1>6, <1>7 DEF MetTwice
<1> QED BY <1>5, <1>8

\* Every step keeps the invariant.
LEMMA WaitsStep == ASSUME MiningWaits, [Next]_vars PROVE MiningWaits'
<1>1. MiningInv /\ TypeOK BY DEF MiningWaits, MiningInv
<1>2. MiningInv'
  BY <1>1, TypeStep, DoneStep, ToldStep, EpochStep DEF MiningInv
<1>3. ASSUME UNCHANGED <<tokens, farm, seal>>, stop' = stop,
             TokensSent' = TokensSent
      PROVE  TokensKept' /\ MetTwice'
  BY <1>3 DEF MiningWaits, TokensKept, MetTwice, AllDone, Woken
<1>11. ASSUME UNCHANGED <<tokens, farm>>, stop' = stop,
              TokensSent' = TokensSent, NEW d \in Devices, TakeWork(d)
       PROVE  TokensKept' /\ MetTwice'
  <2>1. TokensKept'
    BY <1>11 DEF MiningWaits, TokensKept, AllDone, Woken
  <2>2. MetTwice' BY <1>1, <1>11, Told DEF MiningWaits, MetTwice
  <2> QED BY <2>1, <2>2
<1>4. CASE CheckNewWorkStep \/ ReportHashRate \/ ReportReturns
  <2>1. /\ UNCHANGED <<tokens, farm, stop>>
        /\ seal' = seal \/ \E d \in Devices : TakeWork(d)
    BY <1>1, <1>4 DEF CheckNewWorkStep, NotifyWork, PollWork, NewExtraNonce,
         NewTarget, NewHeader, ChangeDAG, SetWork, WorkChanged, devVars,
         ReportHashRate, ReportReturns, TypeOK
  <2>2. \/ UNCHANGED <<main, k>>
        \/ main = "loop" /\ main' = "dagStop" /\ k' = 1
    BY <1>4 DEF CheckNewWorkStep, NotifyWork, PollWork, NewExtraNonce,
         NewTarget, NewHeader, ChangeDAG, SetWork, WorkChanged, mainVars,
         ReportHashRate, ReportReturns
  <2>3. TokensSent' = TokensSent BY <2>2 DEF TokensSent
  <2> QED BY <1>2, <1>3, <1>11, <2>1, <2>3 DEF MiningWaits
<1>5. CASE Announce \/ StopRequested \/ StopCheckNewWork \/ StopReport
           \/ StopWait
  <2>1. /\ UNCHANGED <<tokens, farm, stop>>
        /\ seal' = seal \/ \E d \in Devices : TakeWork(d)
    BY <1>1, <1>5 DEF Announce, StopRequested, StopCheckNewWork, StopReport,
                      StopWait, devVars, TypeOK
  <2>2. TokensSent' = TokensSent
    BY <1>5 DEF Announce, StopRequested, StopCheckNewWork, StopReport,
                StopWait, TokensSent
  <2> QED BY <1>2, <1>3, <1>11, <2>1, <2>2 DEF MiningWaits
<1>6. CASE StopFarmMine
  <2>1. /\ tokens' = tokens + 1 /\ UNCHANGED <<farm, seal, stop>>
        /\ main \in {"stopFarm", "dagStop"}
        /\ \/ k = N /\ main' \in {"stopWait", "dagWait"}
           \/ k # N /\ main' = main /\ k' = k + 1
    BY <1>6 DEF StopFarmMine
  <2>2. TokensSent = k - 1 /\ TokensSent' = k
    BY <1>1, <2>1, DevicesAssumption DEF TokensSent, TypeOK, Devices
  <2>3. Woken' = Woken /\ AllDone' = AllDone BY <2>1 DEF Woken, AllDone
  <2>4. Cardinality(Woken) \in Int BY WokenFits
  <2>5. tokens \in Int /\ k \in Int BY <1>1 DEF TypeOK, Devices
  <2>6. AllDone \/ tokens + Cardinality(Woken) = TokensSent
    BY DEF MiningWaits, TokensKept
  <2>7. AllDone' \/ tokens' + Cardinality(Woken') = TokensSent'
    BY <2>1, <2>2, <2>3, <2>4, <2>5, <2>6
  <2>8. TokensKept' BY <2>7 DEF TokensKept
  <2>9. MetTwice' BY <2>1 DEF MiningWaits, MetTwice
  <2> QED BY <1>2, <2>8, <2>9 DEF MiningWaits
<1>7. CASE DagWait \/ DagFails
  <2>1. UNCHANGED <<tokens, farm, seal, stop>>
        /\ main' \in {"dagGen", "restart"}
    BY <1>7 DEF DagWait, DagFails, devVars
  <2>2. AllDone' BY <1>2, <2>1 DEF MiningInv, DoneIsGone
  <2>3. TokensKept' BY <2>2 DEF TokensKept
  <2>4. MetTwice' BY <2>1 DEF MiningWaits, MetTwice
  <2> QED BY <1>2, <2>3, <2>4 DEF MiningWaits
<1>8. CASE DagOk
  <2>1. UNCHANGED <<farm, seal>> /\ main = "dagGen" BY <1>8 DEF DagOk
  <2>2. /\ \A d \in Devices : farm[d] = "done" /\ seal[d] = "gone"
    BY <1>1, <2>1 DEF MiningInv, DoneIsGone, AllDone
  <2>3. AllDone' BY <2>1, <2>2 DEF AllDone
  <2>4. TokensKept' BY <2>3 DEF TokensKept
  <2>5. MetTwice' BY <2>1, <2>2 DEF MetTwice
  <2> QED BY <1>2, <2>4, <2>5 DEF MiningWaits
<1>9. CASE UNCHANGED vars
  <2>1. UNCHANGED <<tokens, farm, seal, stop, main, k>>
    BY <1>9 DEF vars, devVars, mainVars
  <2>2. TokensSent' = TokensSent BY <2>1 DEF TokensSent
  <2> QED BY <1>2, <1>3, <2>1, <2>2 DEF MiningWaits
<1>10. ASSUME NEW d \in Devices, DeviceStep(d) PROVE MiningWaits'
  BY <1>2, <1>10, WaitsDevice DEF MiningWaits
<1> QED BY <1>4, <1>5, <1>6, <1>7, <1>8, <1>9, <1>10 DEF Next, MainStep

\* The invariant holds throughout.
THEOREM MiningWaitsHolds == Spec => []MiningWaits
<1>1. ASSUME Init PROVE MiningWaits
  <2>1. MiningInv BY <1>1, InitInv
  <2>2. MetTwice BY <1>1 DEF Init, MetTwice
  <2>3. Woken = {} BY <1>1 DEF Init, Woken
  <2>4. Cardinality(Woken) = 0 BY <2>3, FS_EmptySet
  <2>5. tokens = 0 /\ TokensSent = 0 BY <1>1 DEF Init, TokensSent
  <2>6. TokensKept BY <2>4, <2>5 DEF TokensKept
  <2> QED BY <2>1, <2>2, <2>6 DEF MiningWaits
<1>2. Init => MiningWaits BY <1>1
<1>3. MiningWaits /\ [Next]_vars => MiningWaits' BY WaitsStep
<1> QED BY <1>2, <1>3, PTL DEF Spec

\* While the main loop waits for the device goroutines, those of some device
\* can step: one waits for a token and there is one, or its two goroutines are
\* on their way to meet.
WaitIsServed ==
  main \in {"stopWait", "dagWait"} =>
    \/ AllDone
    \/ \E d \in Devices :
         \/ farm[d] = "wait" /\ tokens > 0
         \/ /\ farm[d] = "stopSeal"
            /\ seal[d] \in {"select", "entry", "starting", "sealing",
                            "copying"}
         \/ /\ farm[d] = "stopSealFunc"
            /\ seal[d] = "select" \/ (seal[d] = "stopping" /\ stop)

\* What the goroutines of a device can still do before they end.
FarmLeft(f) == CASE f = "wait" -> 15 [] f = "stopSeal" -> 10
                 [] f = "stopSealFunc" -> 5 [] OTHER -> 0
SealLeft(s) == CASE s = "stopping" -> 4 [] s = "select" -> 3
                 [] s = "entry" -> 2 [] s \in {"starting", "copying"} -> 1
                 [] OTHER -> 0
DeviceLeft(d) == FarmLeft(farm[d]) + SealLeft(seal[d])

\* A step of a device brings its goroutines nearer to their end, and only a
\* message on its workCh takes it a copy further from it.
NearerDone ==
  \A d \in Devices :
    \/ UNCHANGED <<farm[d], seal[d]>>
    \/ DeviceLeft(d)' < DeviceLeft(d)
    \/ farm'[d] = farm[d] /\ TakeWork(d)

\* A device never goes round in circles of its own.
DevicesFinish == [][NearerDone]_vars

\* No wait of the main loop for the device goroutines is one for ever, in the
\* stop of the mode or in a DAG change: every token wakes one goroutine, and
\* the ones that were woken meet their seal goroutines.
THEOREM WaitIsServedHolds == Spec => []WaitIsServed
<1>1. ASSUME MiningWaits, main \in {"stopWait", "dagWait"}, ~AllDone
      PROVE  \E d \in Devices :
               \/ farm[d] = "wait" /\ tokens > 0
               \/ /\ farm[d] = "stopSeal"
                  /\ seal[d] \in {"select", "entry", "starting", "sealing",
                                  "copying"}
               \/ /\ farm[d] = "stopSealFunc"
                  /\ seal[d] = "select" \/ (seal[d] = "stopping" /\ stop)
  <2>1. TypeOK BY <1>1 DEF MiningWaits, MiningInv
  <2>2. tokens + Cardinality(Woken) = N
    BY <1>1 DEF MiningWaits, TokensKept, TokensSent
  <2>3. CASE \E d \in Devices : farm[d] = "wait"
    <3>1. Cardinality(Woken) < N /\ Cardinality(Woken) \in Int
      BY <2>3, WokenFits
    <3>2. tokens > 0 BY <2>1, <2>2, <3>1, DevicesAssumption DEF TypeOK
    <3> QED BY <2>3, <3>2
  <2>4. CASE \A d \in Devices : farm[d] # "wait"
    <3>1. PICK d \in Devices : farm[d] # "done" BY <1>1 DEF AllDone
    <3>2. farm[d] \in {"stopSeal", "stopSealFunc"}
      BY <2>1, <2>4, <3>1 DEF TypeOK
    <3>3. seal[d] # "gone" /\ (seal[d] = "stopping" => stop)
      BY <1>1, <3>1 DEF MiningWaits, MetTwice
    <3>4. farm[d] = "stopSealFunc" <=> farm[d] # "stopSeal" BY <3>2
    <3>5. farm[d] = "stopSeal" => seal[d] # "stopping"
      BY <1>1 DEF MiningWaits, MetTwice
    <3>6. farm[d] = "stopSealFunc" => seal[d] \in {"select", "stopping"}
      BY <1>1 DEF MiningWaits, MetTwice
    <3>7. farm[d] = "stopSeal" =>
            seal[d] \in {"select", "entry", "starting", "sealing",
                         "copying"}
      BY <2>1, <3>3, <3>5 DEF TypeOK
    <3> QED BY <3>2, <3>3, <3>6, <3>7
  <2> QED BY <2>3, <2>4
<1>2. MiningWaits => WaitIsServed BY <1>1 DEF WaitIsServed
<1> QED BY <1>2, MiningWaitsHolds, PTL

\* Nor do the goroutines of a device keep each other busy.
THEOREM DevicesFinishHolds == Spec => DevicesFinish
<1>1. ASSUME MiningWaits, [Next]_vars, NEW d \in Devices
      PROVE  \/ UNCHANGED <<farm[d], seal[d]>>
             \/ DeviceLeft(d)' < DeviceLeft(d)
             \/ farm'[d] = farm[d] /\ TakeWork(d)
  <2>1. TypeOK BY <1>1 DEF MiningWaits, MiningInv
  <2>2. CASE DeviceStep(d)
    <3>1. \/ UNCHANGED <<farm[d], seal[d]>>
          \/ farm[d] = "wait" /\ farm'[d] = "stopSeal" /\ seal'[d] = seal[d]
          \/ farm[d] = "stopSeal" /\ farm'[d] = "stopSealFunc"
          \/ farm[d] = "stopSealFunc" /\ farm'[d] = "done"
          \/ /\ farm'[d] = farm[d]
             /\ \/ seal[d] = "select" /\ seal'[d] = "entry"
                \/ seal[d] = "entry" /\ seal'[d] = "starting"
                \/ /\ seal[d] \in {"starting", "copying"}
                   /\ seal'[d] = "sealing"
                \/ seal[d] = "stopping" /\ seal'[d] = "select"
      BY <2>1, <2>2 DEF DeviceStep, SealTimer, SealCopy, SealLoop, FarmStop,
                        StopSeal, SealReturns, CopyWork, StopSealFunc, TypeOK
    <3>2. \A s : SealLeft(s) \in 0..4 BY DEF SealLeft
    <3>3. DeviceLeft(d)' = FarmLeft(farm'[d]) + SealLeft(seal'[d])
      BY DEF DeviceLeft
    <3>4. SealLeft(seal[d]) \in 0..4 /\ SealLeft(seal'[d]) \in 0..4 BY <3>2
    <3>5. \/ UNCHANGED <<farm[d], seal[d]>>
          \/ FarmLeft(farm'[d]) = FarmLeft(farm[d]) - 5
          \/ farm'[d] = farm[d] /\ SealLeft(seal'[d]) < SealLeft(seal[d])
      BY <3>1 DEF FarmLeft, SealLeft
    <3>6. FarmLeft(farm[d]) \in Int /\ FarmLeft(farm'[d]) \in Int
      BY DEF FarmLeft
    <3> QED BY <3>3, <3>4, <3>5, <3>6 DEF DeviceLeft
  <2>3. CASE \E e \in Devices \ {d} : DeviceStep(e)
    BY <2>1, <2>3 DEF DeviceStep, SealTimer, SealCopy, SealLoop, FarmStop,
                      StopSeal, SealReturns, CopyWork, StopSealFunc, TypeOK
  <2>4. CASE WorkChanged \/ Announce
    <3>1. farm' = farm BY <2>4 DEF WorkChanged, Announce
    <3>2. PICK e \in Devices : TakeWork(e)
      BY <2>1, <2>4 DEF WorkChanged, Announce, TypeOK
    <3>3. d = e \/ seal'[d] = seal[d] BY <2>1, <3>2, TakeWorkShape
    <3> QED BY <3>1, <3>2, <3>3
  <2>5. CASE \/ CheckNewWorkStep /\ ~WorkChanged
             \/ ReportHashRate
             \/ ReportReturns
             \/ MainStep /\ ~Announce
             \/ UNCHANGED vars
    <3>1. UNCHANGED <<farm, seal>>
      BY <2>5 DEF CheckNewWorkStep, NotifyWork, PollWork, NewExtraNonce,
           NewTarget, NewHeader, ChangeDAG, SetWork, devVars,
           ReportHashRate, ReportReturns, MainStep, StopRequested,
           StopCheckNewWork, StopReport, StopFarmMine, StopWait, DagWait,
           DagOk, DagFails, vars
    <3> QED BY <3>1
  <2> QED BY <1>1, <2>2, <2>3, <2>4, <2>5 DEF Next
<1>2. MiningWaits /\ [Next]_vars => NearerDone BY <1>1 DEF NearerDone
<1> QED BY <1>2, MiningWaitsHolds, PTL DEF Spec, DevicesFinish

\* A device whose workCh WorkChanged sends on is not stopping: it takes the work
\* in its control loop, or is on the way there, as DevicesFinish tells.
SendIsServed ==
  cn = "send" /\ farm[i] = "wait" =>
    seal[i] \in {"select", "entry", "starting", "sealing",
                 "copying"}

\* Only a device that is being stopped for a DAG change can keep checkNewWork
\* from announcing its work.
THEOREM SendIsServedHolds == Spec => []SendIsServed
<1>1. MiningWaits => SendIsServed
  <2> SUFFICES ASSUME MiningWaits, farm[i] = "wait"
               PROVE  seal[i] \in {"select", "entry", "starting", "sealing",
                                   "copying"}
    BY DEF SendIsServed
  <2>1. TypeOK BY DEF MiningWaits, MiningInv
  <2>2. i \in Devices /\ seal[i] \in {"select", "entry", "starting", "sealing",
                                      "copying", "stopping", "gone"}
    BY <2>1 DEF TypeOK
  <2> QED BY <2>2 DEF MiningWaits, MetTwice
<1> QED BY <1>1, MiningWaitsHolds, PTL
=============================================================================
