---------------------------- MODULE MiningMode ----------------------------
(***************************************************************************)
(* The goroutines of Stratum() (stratum.go) and Farm() (farm.go) and the   *)
(* channels between them: the mode's main loop, checkNewWork, and for each *)
(* device farmMineByDevice, its seal goroutine and the control loop of     *)
(* OpenCLMiner.Seal with the workCh it serves.                             *)
(*                                                                         *)
(* All channels but stopFarmMine are unbuffered: a send and its receive    *)
(* are one step, enabled when both goroutines are there.  What the GPU     *)
(* workers of Seal search is not in this module.                           *)
(***************************************************************************)
EXTENDS Integers, FiniteSets

CONSTANTS
  N,         \* number of devices, which WorkChanged visits in order
  Works,     \* work packages of the pool: [header, epoch, target, extra]
  FirstWorks \* the ones getWork may return before the loop starts

Devices == 1..N

ASSUME DevicesAssumption == N \in Nat \ {0}
ASSUME WorksAssumption ==
  /\ FirstWorks \subseteq Works
  /\ \A v, w \in Works : v.header = w.header => v.epoch = w.epoch

\* miner.Work is updated field by field, so it mixes fields of packages.
Packages == [header : {w.header : w \in Works}, epoch : {w.epoch : w \in Works},
             target : {w.target : w \in Works}, extra : {w.extra : w \in Works}]

ASSUME PackagesAssumption == Works \subseteq Packages

VARIABLES
  mode,    \* "stratum" or "farm", chosen by main() from the flags
  main,    \* the goroutine of Stratum() or Farm()
  k,       \* the device or token its current loop is at
  cn,      \* checkNewWork
  wt,      \* the work package checkNewWork is handling
  i,       \* the device its WorkChanged call is at
  report,  \* reportHashRate
  tokens,  \* what the buffered channel stopFarmMine holds
  farm,    \* farmMineByDevice of each device
  seal,    \* the seal goroutine of each device
  stop,    \* c.stop, which the workers of every device poll
  work,    \* miner.Work
  local,   \* what each Seal call copied from miner.Work
  dag      \* the epoch whose DAG is on the devices

mainVars == <<main, k>>
cnVars   == <<cn, wt, i>>
modeVars == <<mode, report>>
devVars  == <<tokens, farm, seal, stop, local>>
vars     == <<modeVars, mainVars, cnVars, devVars, work, dag>>

TypeOK ==
  /\ mode \in {"stratum", "farm"}
  /\ main \in {"announce", "loop", "stopCN", "stopReport", "stopFarm",
               "stopWait", "done", "dagStop", "dagWait", "dagGen", "restart"}
  /\ k \in Devices /\ i \in Devices
  /\ cn \in {"recv", "extra", "target", "header", "changeDAG", "setWork",
             "send", "stopped"}
  /\ wt \in Works
  /\ report \in {"timer", "request", "stuck", "stopped"}
  /\ tokens \in 0..N
  /\ farm \in [Devices -> {"wait", "stopSeal", "stopSealFunc", "done"}]
  /\ seal \in [Devices -> {"select", "entry", "starting", "sealing", "copying",
                           "stopping", "gone"}]
  /\ stop \in BOOLEAN
  /\ work \in Packages /\ local \in [Devices -> Packages]
  /\ dag \in {w.epoch : w \in Works}

\* InitCL has built the DAG of the first work; the goroutines are started.
Init ==
  /\ mode \in {"stratum", "farm"}
  /\ main = "announce" /\ k = 1
  /\ work \in FirstWorks
  /\ dag = work.epoch
  /\ cn = "recv" /\ wt = work /\ i = 1
  /\ report = "timer"
  /\ tokens = 0
  /\ farm = [d \in Devices |-> "wait"]
  /\ seal = [d \in Devices |-> "select"]
  /\ stop = FALSE
  /\ local = [d \in Devices |-> work]
-----------------------------------------------------------------------------
(* Seal: the control loop's receive on workCh.                             *)

\* The message is empty: its sender goes on, and the device has yet to lock
\* and copy miner.Work (CopyWork).
TakeWork(d) ==
  /\ seal[d] = "sealing"
  /\ seal' = [seal EXCEPT ![d] = "copying"]
-----------------------------------------------------------------------------
(* checkNewWork.                                                           *)

\* Stratum: a package arrives on the notify_Work channel.
NotifyWork ==
  /\ mode = "stratum"
  /\ cn = "recv"
  /\ wt' \in Works
  /\ cn' = "extra"
  /\ UNCHANGED <<modeVars, mainVars, i, devVars, work, dag>>

\* Farm: getWork is polled; only a new header replaces miner.Work.
PollWork ==
  /\ mode = "farm"
  /\ cn = "recv"
  /\ \E w \in Works :
       /\ w.header # work.header
       /\ wt' = w
       /\ work' = w
  /\ cn' = "send" /\ i' = 1
  /\ UNCHANGED <<modeVars, mainVars, devVars, dag>>

\* ExtraNonce and Target256 are updated in place, each under the lock.
NewExtraNonce ==
  /\ cn = "extra"
  /\ work' = [work EXCEPT !.extra = wt.extra]
  /\ cn' = "target"
  /\ UNCHANGED <<modeVars, mainVars, wt, i, devVars, dag>>

NewTarget ==
  /\ cn = "target"
  /\ work' = [work EXCEPT !.target = wt.target]
  /\ cn' = "header"
  /\ UNCHANGED <<modeVars, mainVars, wt, i, devVars, dag>>

\* Mutant of NewHeader: CmpDagSize is not consulted.
NewHeaderNoCmp ==
  /\ cn = "header"
  /\ cn' = IF wt.header = work.header THEN "send" ELSE "setWork"
  /\ i' = 1
  /\ UNCHANGED <<modeVars, mainVars, wt, devVars, work, dag>>

\* The DAG of an epoch has a size of its own (SizeTellsEpoch of
\* EthashAlgorithm).
CmpDagSize(w) == w.epoch # dag

\* A new header whose DAG size differs from the device's goes to the main
\* loop first.
NewHeader ==
  /\ cn = "header"
  /\ cn' = IF wt.header = work.header THEN "send"
           ELSE IF CmpDagSize(wt) THEN "changeDAG" ELSE "setWork"
  /\ i' = 1
  /\ UNCHANGED <<modeVars, mainVars, wt, devVars, work, dag>>

\* The main loop receives from changeDAG.
ChangeDAG ==
  /\ cn = "changeDAG"
  /\ main = "loop"
  /\ cn' = "setWork"
  /\ main' = "dagStop" /\ k' = 1
  /\ UNCHANGED <<modeVars, wt, i, devVars, work, dag>>

SetWork ==
  /\ cn = "setWork"
  /\ work' = wt
  /\ cn' = "send"
  /\ UNCHANGED <<modeVars, mainVars, wt, i, devVars, dag>>

\* Mutant of WorkChanged: the same device is told again and again.
WorkChangedNoAdvance ==
  /\ cn = "send"
  /\ TakeWork(i)
  /\ UNCHANGED <<modeVars, mainVars, cnVars, tokens, farm, stop, local,
                 work, dag>>

\* miner.WorkChanged(): one device after the other, each blocking.
WorkChanged ==
  /\ cn = "send"
  /\ TakeWork(i)
  /\ IF i = N THEN cn' = "recv" /\ i' = 1 ELSE i' = i + 1 /\ UNCHANGED cn
  /\ UNCHANGED <<modeVars, mainVars, wt, tokens, farm, stop, local, work, dag>>
-----------------------------------------------------------------------------
(* reportHashRate: a timer, then a request of the Stratum client.          *)

ReportHashRate ==
  /\ mode = "stratum"
  /\ report = "timer"
  /\ report' = "request"
  /\ UNCHANGED <<mode, mainVars, cnVars, devVars, work, dag>>

\* The request returns, or never does (RequestReturns of StratumClient says
\* when).
ReportReturns ==
  /\ report = "request"
  /\ report' \in {"timer", "stuck"}
  /\ UNCHANGED <<mode, mainVars, cnVars, devVars, work, dag>>
-----------------------------------------------------------------------------
(* farmMineByDevice, its seal goroutine and Seal, for device d.            *)

\* The seal goroutine's one second timer.  A farm goroutine that can already
\* send on stopSealFunc does so within that second.
SealTimer(d) ==
  /\ seal[d] = "select"
  /\ farm[d] # "stopSealFunc"
  /\ seal' = [seal EXCEPT ![d] = "entry"]
  /\ UNCHANGED <<modeVars, mainVars, cnVars, tokens, farm, stop, local,
                 work, dag>>

\* No stop is pending at the entry of Seal: miner.Work is copied.
SealCopy(d) ==
  /\ seal[d] = "entry"
  /\ farm[d] # "stopSeal"
  /\ seal' = [seal EXCEPT ![d] = "starting"]
  /\ local' = [local EXCEPT ![d] = work]
  /\ UNCHANGED <<modeVars, mainVars, cnVars, tokens, farm, stop, work, dag>>

\* The workers are started and the control loop is reached.
SealLoop(d) ==
  /\ seal[d] = "starting"
  /\ seal' = [seal EXCEPT ![d] = "sealing"]
  /\ UNCHANGED <<modeVars, mainVars, cnVars, tokens, farm, stop, local,
                 work, dag>>

\* Mutant of CopyWork: only a new header is looked at.
CopyHeaderOnly(d) ==
  /\ seal[d] = "copying"
  /\ seal' = [seal EXCEPT ![d] = "sealing"]
  /\ local' = [local EXCEPT ![d] = IF @.header = work.header THEN @ ELSE work]
  /\ UNCHANGED <<modeVars, mainVars, cnVars, tokens, farm, stop, work, dag>>

\* After a receive on workCh: what differs from miner.Work is replaced, under
\* its lock, and the control loop is back in its select.
CopyWork(d) ==
  /\ seal[d] = "copying"
  /\ seal' = [seal EXCEPT ![d] = "sealing"]
  /\ local' = [local EXCEPT ![d] = work]
  /\ UNCHANGED <<modeVars, mainVars, cnVars, tokens, farm, stop, work, dag>>

\* Mutant of FarmStop: the stop is not waited for.
FarmStopUnasked(d) ==
  /\ farm[d] = "wait"
  /\ tokens' = tokens - 1
  /\ farm' = [farm EXCEPT ![d] = "stopSeal"]
  /\ UNCHANGED <<modeVars, mainVars, cnVars, seal, stop, local, work, dag>>

\* <-stopChan
FarmStop(d) ==
  /\ farm[d] = "wait"
  /\ tokens > 0
  /\ tokens' = tokens - 1
  /\ farm' = [farm EXCEPT ![d] = "stopSeal"]
  /\ UNCHANGED <<modeVars, mainVars, cnVars, seal, stop, local, work, dag>>

\* stopSeal is received at the entry of Seal or by its control loop.
StopSeal(d) ==
  /\ farm[d] = "stopSeal"
  /\ \/ /\ seal[d] = "entry"
        /\ seal' = [seal EXCEPT ![d] = "select"]
        /\ UNCHANGED stop
     \/ /\ seal[d] = "sealing"
        /\ seal' = [seal EXCEPT ![d] = "stopping"]
        /\ stop' = TRUE
  /\ farm' = [farm EXCEPT ![d] = "stopSealFunc"]
  /\ UNCHANGED <<modeVars, mainVars, cnVars, tokens, local, work, dag>>

\* searchGroup.Wait() returns: every worker has seen c.stop.
SealReturns(d) ==
  /\ seal[d] = "stopping"
  /\ stop
  /\ seal' = [seal EXCEPT ![d] = "select"]
  /\ UNCHANGED <<modeVars, mainVars, cnVars, tokens, farm, stop, local,
                 work, dag>>

\* Mutant of StopSealFunc: the farm goroutine does not wait for Seal.
StopSealFuncEarly(d) ==
  /\ farm[d] = "stopSealFunc"
  /\ farm' = [farm EXCEPT ![d] = "done"]
  /\ UNCHANGED <<modeVars, mainVars, cnVars, tokens, seal, stop, local,
                 work, dag>>

StopSealFunc(d) ==
  /\ farm[d] = "stopSealFunc"
  /\ seal[d] = "select"
  /\ seal' = [seal EXCEPT ![d] = "gone"]
  /\ farm' = [farm EXCEPT ![d] = "done"]
  /\ UNCHANGED <<modeVars, mainVars, cnVars, tokens, stop, local, work, dag>>
-----------------------------------------------------------------------------
(* The main loop.                                                          *)

\* miner.WorkChanged() before the loop.
Announce ==
  /\ main = "announce"
  /\ TakeWork(k)
  /\ IF k = N THEN main' = "loop" /\ k' = 1 ELSE k' = k + 1 /\ UNCHANGED main
  /\ UNCHANGED <<modeVars, cnVars, tokens, farm, stop, local, work, dag>>

\* main() was interrupted and sends on stopChan.
StopRequested ==
  /\ main = "loop"
  /\ main' = "stopCN"
  /\ UNCHANGED <<modeVars, k, cnVars, devVars, work, dag>>

\* stopCheckNewWork is received in checkNewWork's select.
StopCheckNewWork ==
  /\ main = "stopCN"
  /\ cn = "recv"
  /\ cn' = "stopped"
  /\ main' = "stopReport"
  /\ UNCHANGED <<modeVars, k, wt, i, devVars, work, dag>>

\* shareInfo, which only waits for a timer, and reportHashRate are stopped.
StopReport ==
  /\ main = "stopReport"
  /\ report = "timer"
  /\ report' = "stopped"
  /\ main' = "stopFarm" /\ k' = 1
  /\ UNCHANGED <<mode, cnVars, devVars, work, dag>>

\* Mutant of StopFarmMine: one token too few.
StopFarmMineShort ==
  /\ main \in {"stopFarm", "dagStop"}
  /\ k' = 1
  /\ main' = IF main = "stopFarm" THEN "stopWait" ELSE "dagWait"
  /\ tokens' = N - 1
  /\ UNCHANGED <<modeVars, cnVars, farm, seal, stop, local, work, dag>>

\* One send per device on the buffered channel stopFarmMine.
StopFarmMine ==
  /\ main \in {"stopFarm", "dagStop"}
  /\ tokens < N
  /\ tokens' = tokens + 1
  /\ IF k = N
     THEN /\ main' = IF main = "stopFarm" THEN "stopWait" ELSE "dagWait"
          /\ k' = 1
     ELSE k' = k + 1 /\ UNCHANGED main
  /\ UNCHANGED <<modeVars, cnVars, farm, seal, stop, local, work, dag>>

AllDone == \A d \in Devices : farm[d] = "done"

\* wg.Wait(), Destroy and Close.
StopWait ==
  /\ main = "stopWait"
  /\ AllDone
  /\ main' = "done"
  /\ UNCHANGED <<modeVars, k, cnVars, devVars, work, dag>>

\* wg.Wait(), and ChangeDAGOnAllDevices takes its size from miner.Work, which
\* checkNewWork may or may not have replaced by now.
DagWait ==
  /\ main = "dagWait"
  /\ AllDone
  /\ main' = "dagGen"
  /\ dag' = work.epoch
  /\ UNCHANGED <<modeVars, k, cnVars, devVars, work>>

\* Resume().  The goroutines started after it call nothing (the call of
\* farmMineByDevice is commented out), so farm and seal stay as they are.
DagOk ==
  /\ main = "dagGen"
  /\ stop' = FALSE
  /\ main' = "loop"
  /\ UNCHANGED <<modeVars, k, cnVars, tokens, farm, seal, local, work, dag>>

\* Destroy, Close(true) and a new Stratum(), which is another instance; or
\* log.Crit, which ends the process, when the new instance cannot be built.
DagFails ==
  /\ main = "dagGen"
  /\ main' = "restart"
  /\ UNCHANGED <<modeVars, k, cnVars, devVars, work, dag>>
-----------------------------------------------------------------------------
CheckNewWorkStep ==
  \/ NotifyWork \/ PollWork \/ NewExtraNonce \/ NewTarget \/ NewHeader
  \/ ChangeDAG \/ SetWork \/ WorkChanged

DeviceStep(d) ==
  \/ SealTimer(d) \/ SealCopy(d) \/ SealLoop(d) \/ CopyWork(d) \/ FarmStop(d)
  \/ StopSeal(d) \/ SealReturns(d) \/ StopSealFunc(d)

MainStep ==
  \/ Announce \/ StopRequested \/ StopCheckNewWork \/ StopReport \/ StopFarmMine
  \/ StopWait \/ DagWait \/ DagOk \/ DagFails

Next ==
  \/ CheckNewWorkStep \/ ReportHashRate \/ ReportReturns \/ MainStep
  \/ \E d \in Devices : DeviceStep(d)

Spec == Init /\ [][Next]_vars

\* Goroutines run and timers fire; new work and an interrupt may never come.
\* Each goroutine is at one place at a time, so one conjunct covers its steps.
\* A select with several ready cases picks one at random: a stop is strongly
\* fair where the receiver may choose something else again and again.
Fairness ==
  /\ WF_vars(\/ NewExtraNonce \/ NewTarget \/ NewHeader \/ ChangeDAG
             \/ SetWork \/ WorkChanged)
  /\ WF_vars(\/ Announce \/ StopFarmMine \/ StopWait \/ DagWait \/ DagOk
             \/ DagFails)
  /\ SF_vars(StopCheckNewWork) /\ SF_vars(StopReport)
  /\ WF_vars(ReportReturns)
  /\ \A d \in Devices :
       /\ WF_vars(\/ SealTimer(d) \/ SealCopy(d) \/ SealLoop(d)
                  \/ CopyWork(d) \/ SealReturns(d))
       /\ WF_vars(FarmStop(d) \/ StopSealFunc(d))
       /\ SF_vars(StopSeal(d))

FairSpec == Spec /\ Fairness
-----------------------------------------------------------------------------
(* Properties.                                                             *)

\* While the DAG buffers of the devices are released and rebuilt, and after
\* Destroy, no goroutine is in Seal on any device.
RebuildAlone ==
  main \in {"dagGen", "done", "restart"} =>
    \A d \in Devices : seal[d] = "gone"

\* Whenever checkNewWork waits for the next package, every running Seal has
\* the header, target and extranonce of miner.Work, or was told and has yet to
\* copy them ("copying"): no update is missed by a device that was copying an
\* earlier work, starting its workers or entering its loop meanwhile.
WorkIsCurrent ==
  cn = "recv" =>
    \A d \in Devices : seal[d] \in {"starting", "sealing"} => local[d] = work

\* In Stratum mode no device searches a header of another epoch than its DAG,
\* but between the stop tokens of a DAG change and the end of Seal.
DagMatchesWork ==
  mode = "stratum" /\ main \notin {"dagStop", "dagWait"} =>
    \A d \in Devices :
      seal[d] \in {"starting", "sealing", "copying"} => local[d].epoch = dag

\* A stop ends, unless checkNewWork waits to announce a DAG change, the device
\* goroutines ended with one, or the report of the hash rate never returns.
StopCompletes ==
  main = "stopCN" ~>
    (\/ main = "done" \/ cn = "changeDAG" \/ report = "stuck"
     \/ \A d \in Devices : farm[d] = "done")

\* A changed work package reaches every device and checkNewWork returns to
\* its select, unless the device goroutines are being stopped for a DAG change.
WorkDelivered ==
  cn = "send" ~> (cn = "recv" \/ \E d \in Devices : farm[d] # "wait")

\* "Resume mining": after a DAG change some device searches again, unless the
\* change failed or an interrupt came.
MiningResumes ==
  main = "dagGen" ~> (\/ main \in {"restart", "stopCN"}
                      \/ \E d \in Devices : seal[d] = "sealing")
=============================================================================
