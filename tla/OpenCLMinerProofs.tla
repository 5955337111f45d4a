--------------------------- MODULE OpenCLMinerProofs --------------------------
(***************************************************************************)
(* Theorems about the two models of OpenCLMiner.                           *)
(* SealDevice, for any pool, number of workers and width of the nonces:    *)
(* the workers follow the control loop, a share names what was searched,   *)
(* and no two workers of the device search the same nonces.                *)
(* DeviceDag, for any rig, sizes of the DAG and of the chunks: the chunks  *)
(* tile the DAG, and InitCL returns with devices that have all of it.      *)
(***************************************************************************)
EXTENDS SealDevice, DeviceDag, FiniteSetTheorems, WellFoundedInduction, TLAPS

\* Where a worker is in its loop.
InLoop == {"check", "lock", "flight"}

\* The variables of a worker, and the fields of the closure of Seal.
WorkerShape ==
  /\ wpc \in [Workers -> {"off", "args", "check", "lock", "flight", "gone"}]
  /\ changed \in [Workers -> BOOLEAN]
  /\ DOMAIN shdr = Workers /\ DOMAIN start = Workers /\ DOMAIN used = Workers
  /\ DOMAIN ubits = Workers
  /\ DOMAIN job = {"header", "t256", "t64", "extra"}

\* A worker that has seen the last change has its header on the device; its
\* range is of the extra nonce, but between its assignment and the news of it.
Follows ==
  \A b \in Workers :
    wpc[b] \in InLoop /\ ~changed[b] =>
      /\ headerBuf = job.header
      /\ ctl # "mark" => used[b] = job.extra

\* The workers start when Seal has copied the work.
StartsLate == ctl = "entry" => \A b \in Workers : wpc[b] = "off"

\* Results wait for verification with the header and nonce they are for.
FoundWereSearched ==
  \A f \in found : \E t \in searched : t.header = f.header /\ t.nonce = f.nonce

\* The inductive invariant.
SealInv ==
  /\ WorkerShape /\ Follows /\ StartsLate
  /\ FoundWereSearched /\ SharesWereSearched

\* The initial states satisfy the invariant.
LEMMA SealInitInv == ASSUME SealInit PROVE SealInv
<1>1. WorkerShape BY DEF SealInit, WorkerShape, Copied
<1>2. Follows BY DEF SealInit, Follows, InLoop
<1>3. StartsLate BY DEF SealInit, StartsLate
<1>4. FoundWereSearched /\ SharesWereSearched
  BY DEF SealInit, FoundWereSearched, SharesWereSearched
<1> QED BY <1>1, <1>2, <1>3, <1>4 DEF SealInv

\* The steps of the mode and of the control loop.
Control ==
  \/ SetJob \/ Enter \/ EnterStopped \/ TakeMsg \/ TakeExtra \/ MarkExtra
  \/ TakeTarget \/ TakeHeader \/ OtherDeviceStops \/ StopSealing \/ Abort
  \/ Return \/ UNCHANGED sealVars

\* The control loop keeps the invariant.
LEMMA ControlKeeps == ASSUME SealInv, Control PROVE SealInv'
<1> USE DEF SealInv
<1>1. FoundWereSearched' /\ SharesWereSearched'
  <2>1. UNCHANGED <<found, shares, searched>>
    BY DEF Control, SetJob, Enter, EnterStopped, TakeMsg, TakeExtra, MarkExtra,
           TakeTarget, TakeHeader, OtherDeviceStops, StopSealing, Abort,
           Return, sealVars
  <2> QED BY <2>1 DEF FoundWereSearched, SharesWereSearched
<1>2. CASE SetJob \/ OtherDeviceStops
  <2>1. UNCHANGED <<gpuVars, job, ctl>>
    BY <1>2 DEF SetJob, OtherDeviceStops
  <2> QED BY <1>1, <2>1 DEF gpuVars, WorkerShape, Follows, StartsLate
<1>3. CASE EnterStopped \/ TakeMsg \/ StopSealing \/ Abort \/ Return
  <2>1. /\ UNCHANGED <<gpuVars, job>>
        /\ ctl' \notin {"entry", "mark"} /\ ctl # "mark"
    BY <1>3 DEF EnterStopped, TakeMsg, StopSealing, Abort, Return
  <2> QED BY <1>1, <2>1 DEF gpuVars, WorkerShape, Follows, StartsLate
<1>4. CASE Enter
  <2>1. /\ wpc' = [b \in Workers |-> "args"] /\ ctl' = "select"
        /\ DOMAIN job' = {"header", "t256", "t64", "extra"}
        /\ UNCHANGED <<changed, shdr, start, used, ubits>>
    BY <1>4 DEF Enter, Copied
  <2>2. WorkerShape' BY <2>1 DEF WorkerShape
  <2>3. Follows' BY <2>1 DEF Follows, InLoop
  <2> QED BY <1>1, <2>1, <2>2, <2>3 DEF StartsLate
<1>5. CASE TakeExtra
  <2>1. /\ UNCHANGED gpuVars /\ ctl' = "mark"
        /\ job' = [job EXCEPT !.extra = jobs[cwork].extra]
    BY <1>5 DEF TakeExtra
  <2>2. job'.header = job.header /\ DOMAIN job' = DOMAIN job
    BY <2>1 DEF WorkerShape
  <2> QED BY <1>1, <2>1, <2>2 DEF gpuVars, WorkerShape, Follows, StartsLate
<1>6. CASE MarkExtra
  <2>1. /\ changed' = [b \in Workers |-> TRUE] /\ ctl' = "target"
        /\ UNCHANGED <<job, wpc, shdr, start, used, ubits>>
    BY <1>6 DEF MarkExtra
  <2>2. WorkerShape' BY <2>1 DEF WorkerShape
  <2>3. Follows' BY <2>1 DEF Follows
  <2> QED BY <1>1, <2>1, <2>2, <2>3 DEF StartsLate
<1>7. CASE TakeTarget
  <2>1. /\ UNCHANGED gpuVars /\ ctl = "target" /\ ctl' = "header"
        /\ job' = [job EXCEPT !.t256 = jobs[cwork].target,
                              !.t64 = jobs[cwork].target]
    BY <1>7 DEF TakeTarget
  <2>2. /\ job'.header = job.header /\ job'.extra = job.extra
        /\ DOMAIN job' = DOMAIN job
    BY <2>1 DEF WorkerShape
  <2> QED BY <1>1, <2>1, <2>2 DEF gpuVars, WorkerShape, Follows, StartsLate
<1>8. CASE TakeHeader
  <2>1. /\ ctl = "header" /\ ctl' = "select"
        /\ job' = [job EXCEPT !.header = jobs[cwork].header]
        /\ changed' = [b \in Workers |->
                         changed[b] \/ job.header # jobs[cwork].header]
        /\ UNCHANGED <<wpc, shdr, start, used, ubits, headerBuf>>
    BY <1>8 DEF TakeHeader
  <2>2. /\ job'.header = jobs[cwork].header /\ job'.extra = job.extra
        /\ DOMAIN job' = DOMAIN job
    BY <2>1 DEF WorkerShape
  <2>3. WorkerShape' BY <2>1, <2>2 DEF WorkerShape
  <2>4. \A b \in Workers :
          ~changed'[b] => ~changed[b] /\ job.header = jobs[cwork].header
    BY <2>1
  <2>5. Follows' BY <2>1, <2>2, <2>4 DEF Follows
  <2> QED BY <1>1, <2>1, <2>3, <2>5 DEF StartsLate
<1>9. CASE UNCHANGED sealVars
  BY <1>1, <1>9 DEF sealVars, ctlVars, gpuVars, WorkerShape, Follows,
                    StartsLate
<1> QED BY <1>2, <1>3, <1>4, <1>5, <1>6, <1>7, <1>8, <1>9 DEF Control

\* A worker that takes the new work in has seen all changes so far.
LEMMA LaunchKeeps ==
  ASSUME SealInv, NEW b \in Workers, Launch(b) \/ LaunchFails(b)
  PROVE  SealInv'
<1> USE DEF SealInv
<1>1. /\ UNCHANGED <<ctl, job, found, shares, searched>>
      /\ wpc[b] = "lock"
      /\ wpc' = [wpc EXCEPT ![b] = wpc'[b]] /\ wpc'[b] \in InLoop
      /\ shdr' = [shdr EXCEPT ![b] = job.header]
  BY DEF Launch, LaunchFails, ctlVars, InLoop, WorkerShape
<1>2. \/ UNCHANGED <<changed, headerBuf, start, used, ubits>>
      \/ changed[b] /\ headerBuf' = job.header /\ UNCHANGED <<changed, start, used, ubits>>
      \/ changed[b] /\ TakeWorkIn(b)
  BY DEF Launch, LaunchFails
<1>3. \A a \in Workers : wpc'[a] \in InLoop => wpc[a] \in InLoop
  BY <1>1 DEF WorkerShape, InLoop
<1>4. ctl # "entry" BY <1>1 DEF StartsLate
<1>5. FoundWereSearched' /\ SharesWereSearched'
  BY <1>1 DEF FoundWereSearched, SharesWereSearched
<1>6. wpc' \in [Workers -> {"off", "args", "check", "lock", "flight", "gone"}]
      /\ DOMAIN shdr' = Workers
  BY <1>1 DEF WorkerShape, InLoop
<1>7. CASE UNCHANGED <<changed, headerBuf, start, used, ubits>>
  BY <1>1, <1>3, <1>4, <1>5, <1>6, <1>7 DEF WorkerShape, Follows, StartsLate
<1>8. CASE changed[b] /\ headerBuf' = job.header /\ UNCHANGED <<changed, start, used, ubits>>
  BY <1>1, <1>3, <1>4, <1>5, <1>6, <1>8 DEF WorkerShape, Follows, StartsLate
<1>9. CASE changed[b] /\ TakeWorkIn(b)
  <2>1. /\ headerBuf' = job.header
        /\ changed' = [changed EXCEPT ![b] = FALSE]
        /\ used' = [used EXCEPT ![b] = job.extra]
        /\ ubits' = [ubits EXCEPT ![b] = cbits]
        /\ DOMAIN start' = Workers
    BY <1>9 DEF TakeWorkIn, WorkerShape
  <2>2. WorkerShape' BY <1>1, <1>6, <2>1 DEF WorkerShape
  <2>3. \A a \in Workers \ {b} : changed'[a] = changed[a] /\ used'[a] = used[a]
    BY <2>1 DEF WorkerShape
  <2>4. used'[b] = job.extra BY <2>1 DEF WorkerShape
  <2>5. Follows' BY <1>1, <1>3, <2>1, <2>3, <2>4 DEF Follows
  <2> QED BY <1>1, <1>4, <1>5, <2>2, <2>5 DEF StartsLate
<1> QED BY <1>2, <1>7, <1>8, <1>9

\* A result carries the header and nonce of the range it was found in.
LEMMA CollectKeeps ==
  ASSUME SealInv, NEW b \in Workers, Collect(b) \/ CollectFails(b)
  PROVE  SealInv'
<1> USE DEF SealInv
<1>1. /\ UNCHANGED <<ctl, job, changed, shdr, used, ubits, headerBuf,
                   shares>>
      /\ wpc[b] = "flight" /\ wpc' = [wpc EXCEPT ![b] = "check"]
      /\ DOMAIN start' = Workers
  BY DEF Collect, CollectFails, ctlVars, WorkerShape
<1>2. \A a \in Workers : wpc'[a] \in InLoop => wpc[a] \in InLoop
  BY <1>1 DEF WorkerShape, InLoop
<1>3. WorkerShape' BY <1>1 DEF WorkerShape
<1>4. Follows' BY <1>1, <1>2 DEF Follows
<1>5. StartsLate' BY <1>1 DEF StartsLate
<1>6. FoundWereSearched' /\ SharesWereSearched'
  <2>1. CASE CollectFails(b)
    BY <2>1 DEF CollectFails, FoundWereSearched, SharesWereSearched
  <2>2. CASE Collect(b)
    <3>1. /\ searched' = searched \union {Searched(b)}
          /\ \/ found' = found
             \/ \E q \in Qualities : found' = found \union {Result(b, q)}
          /\ shares' = shares
      BY <2>2 DEF Collect
    <3>2. \A q : /\ Searched(b).header = Result(b, q).header
                 /\ Searched(b).nonce = Result(b, q).nonce
      BY DEF Searched, Result
    <3> QED BY <3>1, <3>2 DEF FoundWereSearched, SharesWereSearched
  <2> QED BY <2>1, <2>2
<1> QED BY <1>3, <1>4, <1>5, <1>6

\* The other steps of a worker, and the verification of a result.
LEMMA WorkerKeeps ==
  ASSUME SealInv,
         (\E b \in Workers : SetDagArgs(b) \/ Check(b)) \/ \E f \in found : Verify(f)
  PROVE  SealInv'
<1> USE DEF SealInv
<1>1. ASSUME NEW b \in Workers, SetDagArgs(b) \/ Check(b) PROVE SealInv'
  <2>1. /\ UNCHANGED <<ctl, job, shdr, start, used, ubits, headerBuf, found,
                       shares, searched>>
        /\ wpc' = [wpc EXCEPT ![b] = wpc'[b]]
        /\ wpc'[b] \in {"check", "lock", "gone"} /\ wpc[b] # "off"
        /\ \/ changed' = changed /\ (wpc'[b] = "gone" \/ wpc[b] \in InLoop)
           \/ changed' = [changed EXCEPT ![b] = TRUE]
    BY <1>1 DEF SetDagArgs, Check, ctlVars, WorkerShape, InLoop
  <2>2. WorkerShape' BY <2>1 DEF WorkerShape
  <2>3. \A a \in Workers : wpc'[a] \in InLoop /\ ~changed'[a]
                             => wpc[a] \in InLoop /\ ~changed[a]
    BY <2>1 DEF WorkerShape, InLoop
  <2>4. Follows' BY <2>1, <2>3 DEF Follows
  <2>5. StartsLate' BY <2>1 DEF StartsLate
  <2> QED BY <2>1, <2>2, <2>4, <2>5 DEF FoundWereSearched, SharesWereSearched
<1>2. ASSUME NEW f \in found, Verify(f) PROVE SealInv'
  <2>1. /\ UNCHANGED <<ctlVars, gpuVars, searched>> /\ found' \subseteq found
        /\ \/ shares' = shares
           \/ shares' = shares \union {[header |-> f.header, nonce |-> f.nonce]}
    BY <1>2 DEF Verify
  <2>2. FoundWereSearched' BY <2>1 DEF FoundWereSearched
  <2>3. SharesWereSearched'
    BY <2>1 DEF FoundWereSearched, SharesWereSearched
  <2> QED BY <2>1, <2>2, <2>3
          DEF ctlVars, gpuVars, WorkerShape, Follows, StartsLate
<1> QED BY <1>1, <1>2

\* Every step keeps the invariant.
LEMMA SealStep == SealInv /\ [SealNext]_sealVars => SealInv'
BY ControlKeeps, LaunchKeeps, CollectKeeps, WorkerKeeps DEF SealNext, Control

\* The inductive invariant holds in every reachable state.
THEOREM SealInvariance == SealSpec => []SealInv
<1>1. SealInit => SealInv BY SealInitInv
<1>2. SealInv /\ [SealNext]_sealVars => SealInv' BY SealStep
<1> QED BY <1>1, <1>2, PTL DEF SealSpec

\* The control loop has the header and the extra nonce of c.Work.
SameWork ==
  job.extra = jobs[cwork].extra /\ job.header = jobs[cwork].header

\* The control loop is a package behind only while that waits to be announced
\* or is being taken in, and a worker that was told of nothing has a length of
\* the extra nonce that is behind only while the control loop is.
LengthsFollow ==
  /\ ctl = "select" => told \/ SameWork
  /\ ctl \in {"mark", "target", "header"} => job.extra = jobs[cwork].extra
  /\ ctl \in {"select", "extra", "target", "header"} =>
       \A b \in Workers :
         wpc[b] \in InLoop /\ ~changed[b] => ubits[b] = cbits \/ ~SameWork

\* The control loop takes the news in before it serves the next.
LEMMA LengthsControl ==
  ASSUME SealInv, LengthsFollow, Control PROVE LengthsFollow'
<1> USE DEF SealInv
<1>0. DOMAIN job = {"header", "t256", "t64", "extra"} BY DEF WorkerShape
<1>1. CASE SetJob
  <2>1. /\ UNCHANGED <<gpuVars, job, ctl, jobs>> /\ ~told /\ told'
        /\ ctl \notin {"extra", "mark", "target", "header"}
        /\ \/ cbits' = cbits
           \/ jobs[cwork'].extra # jobs[cwork].extra
           \/ jobs[cwork'].header # jobs[cwork].header
    BY <1>1 DEF SetJob
  <2>2. ctl = "select" => SameWork BY <2>1 DEF LengthsFollow
  <2>3. ctl = "select" => cbits' = cbits \/ ~SameWork'
    BY <2>1, <2>2 DEF SameWork
  <2> QED BY <2>1, <2>2, <2>3 DEF LengthsFollow, gpuVars
<1>2. CASE Enter
  <2>1. /\ wpc' = [b \in Workers |-> "args"] /\ ctl' = "select"
        /\ job'.extra = jobs[cwork].extra /\ job'.header = jobs[cwork].header
        /\ UNCHANGED <<jobs, cwork>>
    BY <1>2 DEF Enter, Copied
  <2> QED BY <2>1 DEF LengthsFollow, SameWork, InLoop
<1>3. CASE EnterStopped \/ StopSealing \/ Abort \/ Return
  <2>1. ctl' \in {"returned", "abort", "wait"}
    BY <1>3 DEF EnterStopped, StopSealing, Abort, Return
  <2> QED BY <2>1 DEF LengthsFollow
<1>4. CASE TakeMsg
  <2>1. /\ UNCHANGED <<gpuVars, job, jobs, cwork, cbits>> /\ ctl = "select"
        /\ \/ ctl' = "extra" /\ jobs[cwork].extra # job.extra
           \/ ctl' = "target" /\ jobs[cwork].extra = job.extra
    BY <1>4 DEF TakeMsg
  <2> QED BY <2>1 DEF LengthsFollow, SameWork, gpuVars
<1>5. CASE TakeExtra
  <2>1. /\ ctl' = "mark" /\ UNCHANGED <<jobs, cwork>>
        /\ job'.extra = jobs[cwork].extra
    BY <1>0, <1>5 DEF TakeExtra
  <2> QED BY <2>1 DEF LengthsFollow
<1>6. CASE MarkExtra
  <2>1. /\ ctl = "mark" /\ ctl' = "target" /\ UNCHANGED <<jobs, cwork, job>>
        /\ changed' = [b \in Workers |-> TRUE]
    BY <1>6 DEF MarkExtra
  <2> QED BY <2>1 DEF LengthsFollow
<1>7. CASE TakeTarget
  <2>1. /\ ctl = "target" /\ ctl' = "header"
        /\ UNCHANGED <<jobs, cwork, cbits, gpuVars>>
        /\ job'.extra = job.extra /\ job'.header = job.header
    BY <1>0, <1>7 DEF TakeTarget
  <2> QED BY <2>1 DEF LengthsFollow, SameWork, gpuVars
<1>8. CASE TakeHeader
  <2>1. /\ ctl = "header" /\ ctl' = "select"
        /\ UNCHANGED <<jobs, cwork, cbits, wpc, ubits>>
        /\ job'.extra = job.extra /\ job'.header = jobs[cwork].header
        /\ changed' = [b \in Workers |->
                         changed[b] \/ job.header # jobs[cwork].header]
    BY <1>0, <1>8 DEF TakeHeader
  <2>2. SameWork' BY <2>1 DEF LengthsFollow, SameWork
  <2>3. \A b \in Workers : ~changed'[b] => ~changed[b] /\ SameWork
    BY <2>1 DEF LengthsFollow, SameWork
  <2> QED BY <2>1, <2>2, <2>3 DEF LengthsFollow
<1>9. CASE OtherDeviceStops \/ UNCHANGED sealVars
  <2>1. UNCHANGED <<gpuVars, job, ctl, jobs, cwork, cbits, told>>
    BY <1>9 DEF OtherDeviceStops, sealVars, ctlVars
  <2> QED BY <2>1 DEF LengthsFollow, SameWork, gpuVars
<1> QED BY <1>1, <1>2, <1>3, <1>4, <1>5, <1>6, <1>7, <1>8, <1>9 DEF Control

\* A worker that takes new work in reads the length of the moment.
LEMMA LengthsStep ==
  ASSUME SealInv, LengthsFollow, [SealNext]_sealVars PROVE LengthsFollow'
<1> USE DEF SealInv
<1>1. ASSUME UNCHANGED ctlVars,
             \A b \in Workers :
               wpc'[b] \in InLoop /\ ~changed'[b] =>
                 \/ wpc[b] \in InLoop /\ ~changed[b] /\ ubits'[b] = ubits[b]
                 \/ ubits'[b] = cbits
      PROVE  LengthsFollow'
  BY <1>1 DEF LengthsFollow, SameWork, ctlVars
<1>2. ASSUME NEW b \in Workers,
             SetDagArgs(b) \/ Check(b) \/ Collect(b) \/ CollectFails(b)
      PROVE  LengthsFollow'
  <2>1. /\ UNCHANGED <<ctlVars, ubits>>
        /\ \A a \in Workers :
             wpc'[a] \in InLoop /\ ~changed'[a] =>
               wpc[a] \in InLoop /\ ~changed[a]
    BY <1>2 DEF SetDagArgs, Check, Collect, CollectFails, WorkerShape, InLoop
  <2> QED BY <1>1, <2>1
<1>3. ASSUME NEW b \in Workers, Launch(b) \/ LaunchFails(b)
      PROVE  LengthsFollow'
  <2>1. /\ UNCHANGED ctlVars
        /\ \A a \in Workers : wpc'[a] \in InLoop => wpc[a] \in InLoop
    BY <1>3 DEF Launch, LaunchFails, WorkerShape, InLoop
  <2>2. \/ UNCHANGED <<changed, ubits>>
        \/ changed' = [changed EXCEPT ![b] = FALSE]
           /\ ubits' = [ubits EXCEPT ![b] = cbits]
    BY <1>3 DEF Launch, LaunchFails, TakeWorkIn
  <2>3. \A a \in Workers :
          \/ changed'[a] = changed[a] /\ ubits'[a] = ubits[a]
          \/ ubits'[a] = cbits
    BY <2>2 DEF WorkerShape
  <2> QED BY <1>1, <2>1, <2>3
<1>4. ASSUME NEW f \in found, Verify(f) PROVE LengthsFollow'
  <2>1. UNCHANGED <<ctlVars, gpuVars>> BY <1>4 DEF Verify
  <2> QED BY <1>1, <2>1 DEF gpuVars
<1> QED BY <1>2, <1>3, <1>4, LengthsControl DEF SealNext, Control

\* The workers start with the length of the first package.
LEMMA LengthsInit == ASSUME SealInit PROVE LengthsFollow
BY DEF SealInit, LengthsFollow

\* A worker that was told of every change searches the header and the extra
\* nonce of the control loop, and with the length of it unless the next package
\* is about to be announced, however their steps interleave.
THEOREM KernelFollowsWorkHolds == SealSpec => []KernelFollowsWork
<1>1. SealInv /\ LengthsFollow => KernelFollowsWork
  BY DEF SealInv, Follows, LengthsFollow, KernelFollowsWork, InLoop
<1>2. SealInit => SealInv /\ LengthsFollow BY SealInitInv, LengthsInit
<1>3. SealInv /\ LengthsFollow /\ [SealNext]_sealVars
        => SealInv' /\ LengthsFollow'
  BY SealStep, LengthsStep
<1> QED BY <1>1, <1>2, <1>3, PTL DEF SealSpec

\* What is handed to onSolutionFound was searched, header and nonce together.
THEOREM SharesWereSearchedHolds == SealSpec => []SharesWereSearched
<1>1. SealInv => SharesWereSearched BY DEF SealInv
<1> QED BY <1>1, SealInvariance, PTL

------------------------------------------------------------------------------
(***************************************************************************)
(* The nonces of the workers. A worker searches from its start on, which   *)
(* encodes the extra nonce, the device and the worker in disjoint groups   *)
(* of bits, and one launch stays within the nonces of that start. What     *)
(* remains of a start modulo the length of a segment tells the workers     *)
(* apart, so their segments never meet, whatever extra nonces of one       *)
(* length they have drawn.                                                 *)
(***************************************************************************)

\* What holds of 0 and is handed on holds up to n.
LEMMA UpTo ==
  ASSUME NEW n \in Nat, NEW good, good[0],
         \A i \in 1..n : good[i - 1] => good[i]
  PROVE  \A i \in 0..n : good[i]
<1> DEFINE R == OpToRel(<, Nat)
           T == {i \in 0..n : ~good[i]}
<1> SUFFICES ASSUME T # {} PROVE FALSE OBVIOUS
<1>1. IsWellFoundedOn(R, Nat) BY NatLessThanWellFounded, Zenon
<1>2. \A x, y \in Nat : x < y => <<x, y>> \in R BY DEF OpToRel
<1>3. T \subseteq Nat /\ T \subseteq 0..n OBVIOUS
<1>4. \A i \in 0..n : i \notin T => good[i] OBVIOUS
<1>5. \A i \in T : ~good[i] OBVIOUS
<1> HIDE DEF R, T
<1>6. PICK m \in T : TRUE OBVIOUS
<1>7. PICK i \in T : \A y \in T : ~(<<y, i>> \in R)
  BY <1>1, <1>3, <1>6, WFMin
<1>8. i \in 0..n /\ i # 0 BY <1>3, <1>5, <1>7
<1>9. i - 1 \in Nat /\ i \in Nat /\ i - 1 < i /\ i - 1 \in 0..n /\ i \in 1..n
  BY <1>8
<1>10. i - 1 \notin T BY <1>2, <1>7, <1>9
<1>11. good[i - 1] BY <1>4, <1>9, <1>10
<1> QED BY <1>5, <1>7, <1>9, <1>11

\* The lengths of an extra nonce that leave room for a stream.
Widths == {z \in Nat : z + StreamBits < NonceBits}

\* The constants are numbers, and the groups of bits fit a nonce.
LEMMA WidthsAre ==
  /\ NonceBits \in Nat \ {0} /\ StreamBits \in Nat
  /\ Bufs \in Nat \ {0} /\ DeviceCount \in Nat \ {0}
  /\ DeviceIdx \in 0..(DeviceCount - 1) /\ Rounds \in Nat \ {0}
BY SealAssumption

\* The powers of two up to the width of a nonce are positive.
LEMMA PowerPositive == \A i \in 0..NonceBits : 2^i \in Nat \ {0}
<1> DEFINE good == [i \in 0..NonceBits |-> 2^i \in Nat \ {0}]
<1>1. \A i \in 0..NonceBits : good[i] <=> 2^i \in Nat \ {0} OBVIOUS
<1> HIDE DEF good
<1>2. good[0]
  <2>1. 2^0 = 1 BY NoncePowers, Zenon
  <2>2. 1 \in Nat \ {0} OBVIOUS
  <2>3. 2^0 \in Nat \ {0} BY <2>1, <2>2, Zenon
  <2>4. 0 \in 0..NonceBits BY WidthsAre
  <2> QED BY <1>1, <2>3, <2>4, Zenon
<1>3. ASSUME NEW i \in 1..NonceBits, good[i - 1] PROVE good[i]
  <2>1. i \in 0..NonceBits /\ i - 1 \in 0..NonceBits BY WidthsAre
  <2>2. 2^i = 2 * 2^(i - 1) BY NoncePowers
  <2>3. 2^(i - 1) \in Nat \ {0} BY <1>1, <1>3, <2>1
  <2> QED BY <1>1, <2>1, <2>2, <2>3
<1> QED BY <1>1, <1>2, <1>3, UpTo, WidthsAre

\* Powers add, up to the width of a nonce.
LEMMA PowerSum ==
  ASSUME NEW a \in Nat, NEW b \in Nat, a + b <= NonceBits
  PROVE  2^(a + b) = 2^a * 2^b
<1> DEFINE good == [i \in 0..b |-> 2^(a + i) = 2^a * 2^i]
<1>1. \A i \in 0..b : good[i] <=> 2^(a + i) = 2^a * 2^i OBVIOUS
<1> HIDE DEF good
<1>2. good[0]
  <2>1. 2^0 = 1 BY NoncePowers, Zenon
  <2>2. a + 0 = a /\ 0 \in 0..b /\ a \in 0..NonceBits BY WidthsAre
  <2>3. 2^a \in Nat BY <2>2, PowerPositive
  <2>4. 2^a * 1 = 2^a BY <2>3
  <2>5. 2^(a + 0) = 2^a * 2^0 BY <2>1, <2>2, <2>4, Zenon
  <2> QED BY <1>1, <2>2, <2>5, Zenon
<1>3. ASSUME NEW i \in 1..b, good[i - 1] PROVE good[i]
  <2>1. i \in 0..b /\ i - 1 \in 0..b /\ i \in 1..NonceBits
        /\ a + i \in 1..NonceBits
    BY WidthsAre
  <2>2. a \in 0..NonceBits /\ i - 1 \in 0..NonceBits /\ i \in 0..NonceBits
        /\ (a + i) - 1 \in 0..NonceBits /\ (a + i) - 1 = a + (i - 1)
    BY <2>1, WidthsAre
  <2>3. 2^i = 2 * 2^(i - 1) /\ 2^(a + i) = 2 * 2^((a + i) - 1)
    BY <2>1, NoncePowers
  <2>4. 2^a \in Nat /\ 2^(i - 1) \in Nat BY <2>2, PowerPositive
  <2>5. 2^(a + (i - 1)) = 2^a * 2^(i - 1) BY <1>1, <1>3, <2>1
  <2>6. 2 * (2^a * 2^(i - 1)) = 2^a * (2 * 2^(i - 1)) BY <2>4
  <2>7. 2^(a + i) = 2^a * 2^i BY <2>2, <2>3, <2>5, <2>6, Zenon
  <2> QED BY <1>1, <2>1, <2>7
<1>4. \A i \in 0..b : good[i] BY <1>2, <1>3, UpTo
<1>5. b \in 0..b OBVIOUS
<1> QED BY <1>1, <1>4, <1>5
-----------------------------------------------------------------------------
(* Arithmetic of the ranges.                                               *)

\* Nothing between -m and m is a multiple of m but 0.
LEMMA NoMultiple ==
  ASSUME NEW m \in Nat \ {0}, NEW z \in Int, NEW x \in Int, x = m * z,
         -m < x, x < m
  PROVE  x = 0
<1>1. CASE z >= 1
  <2>1. m * z >= m BY <1>1
  <2> QED BY <2>1
<1>2. CASE z <= -1
  <2>1. m * z <= -m BY <1>2
  <2> QED BY <2>1
<1>3. CASE z = 0 BY <1>3
<1> QED BY <1>1, <1>2, <1>3

\* A remainder is what it is shown to be.
LEMMA RemainderIs ==
  ASSUME NEW x \in Nat, NEW d \in Nat \ {0}, NEW q \in Nat, NEW r \in 0..(d - 1),
         x = d * q + r
  PROVE  x % d = r
<1> DEFINE p == x \div d
           s == x % d
<1>1. p \in Nat /\ s \in 0..(d - 1) /\ x = d * p + s OBVIOUS
<1> HIDE DEF p, s
<1>2. r - s = d * (p - q) BY <1>1
<1> DEFINE y == r - s
           z == p - q
<1>3. y \in Int /\ z \in Int /\ -d < y /\ y < d BY <1>1
<1>4. y = d * z BY <1>2
<1> HIDE DEF y, z
<1>5. y = 0 BY <1>3, <1>4, NoMultiple
<1> QED BY <1>1, <1>5 DEF y, s

\* A quotient is a natural number that does not exceed the dividend.
LEMMA QuotientIs ==
  ASSUME NEW x \in Nat, NEW n \in Nat \ {0}
  PROVE  x \div n \in Nat /\ (x \div n) * n <= x
<1> DEFINE q == x \div n
           r == x % n
<1>1. q \in Nat /\ r \in 0..(n - 1) /\ x = n * q + r OBVIOUS
<1> HIDE DEF q, r
<1>2. n * q = q * n /\ q * n \in Nat BY <1>1
<1>3. q * n <= x BY <1>1, <1>2
<1> QED BY <1>1, <1>3 DEF q

\* A common factor of number and modulus comes out.
LEMMA ScaledRemainder ==
  ASSUME NEW a \in Nat, NEW m \in Nat \ {0}, NEW k \in Nat \ {0}
  PROVE  (a * k) % (m * k) = (a % m) * k
<1> DEFINE q == a \div m
           r == a % m
<1>1. q \in Nat /\ r \in 0..(m - 1) /\ a = m * q + r OBVIOUS
<1> HIDE DEF q, r
<1>2. a * k = (m * k) * q + r * k
  <2>1. (m * q + r) * k = (m * q) * k + r * k BY <1>1
  <2>2. (m * q) * k = (m * k) * q BY <1>1
  <2> QED BY <1>1, <2>1, <2>2
<1> DEFINE d == m * k
           x == a * k
           s == r * k
<1>3. d \in Nat \ {0} /\ x \in Nat /\ s \in Nat
  BY <1>1
<1>4. s < d
  <2>1. r + 1 <= m /\ r \in Nat BY <1>1
  <2>2. (r + 1) * k <= m * k BY <2>1
  <2>3. (r + 1) * k = r * k + k BY <2>1
  <2> QED BY <2>1, <2>2, <2>3
<1>5. x = d * q + s BY <1>2
<1> HIDE DEF d, x, s
<1>6. s \in 0..(d - 1) BY <1>3, <1>4
<1>7. x % d = s BY <1>1, <1>3, <1>5, <1>6, RemainderIs
<1> QED BY <1>7 DEF x, d, s, r

\* Ranges of length k that start at multiples of k and meet are one.
LEMMA RangesMeet ==
  ASSUME NEW k \in Nat \ {0}, NEW r \in Int, NEW s \in Int, NEW n \in Int,
         r * k <= n, n < r * k + k, s * k <= n, n < s * k + k
  PROVE  r = s
<1> DEFINE x == r * k
           y == s * k
           z == r - s
           w == x - y
<1>1. x \in Int /\ y \in Int /\ x <= n /\ n < x + k /\ y <= n /\ n < y + k
  OBVIOUS
<1>2. w = k * z OBVIOUS
<1> HIDE DEF x, y
<1>3. w \in Int /\ -k < w /\ w < k BY <1>1
<1>4. z \in Int OBVIOUS
<1> HIDE DEF z, w
<1>5. w = 0 BY <1>2, <1>3, <1>4, NoMultiple
<1>6. z = 0 BY <1>2, <1>4, <1>5
<1> QED BY <1>6 DEF z
-----------------------------------------------------------------------------
(* The ranges of the workers of a device are apart.                        *)

\* The extra nonces of a length.
Extras(z) == {e * 2^(NonceBits - z) : e \in 0..(2^z - 1)}

\* The nonces of a stream.
Length(z) == 2^(NonceBits - StreamBits - z)

\* The stream of a worker, counted in lengths of a stream, before it wraps.
Stream(b, e) == e * 2^StreamBits + (DeviceIdx * Bufs + b)

\* The nonces are the streams of every extra nonce.
LEMMA LengthsAre ==
  ASSUME NEW z \in Widths
  PROVE
  /\ Length(z) \in Nat \ {0} /\ 2^z \in Nat \ {0} /\ 2^StreamBits \in Nat \ {0}
  /\ 2^NonceBits \in Nat \ {0}
  /\ 2^(NonceBits - z) = 2^StreamBits * Length(z)
  /\ 2^NonceBits = (2^z * 2^StreamBits) * Length(z)
<1> DEFINE c == NonceBits - StreamBits - z
<1>1. /\ c \in Nat /\ c \in 0..NonceBits /\ z \in 0..NonceBits
      /\ StreamBits \in 0..NonceBits /\ NonceBits \in 0..NonceBits
      /\ z \in Nat /\ StreamBits \in Nat
      /\ StreamBits + c = NonceBits - z /\ StreamBits + c <= NonceBits
      /\ z + (StreamBits + c) = NonceBits /\ StreamBits + c \in Nat
      /\ z + (StreamBits + c) <= NonceBits
  BY WidthsAre DEF Widths
<1>2. Length(z) = 2^c BY DEF Length
<1> HIDE DEF c
<1>3. 2^(StreamBits + c) = 2^StreamBits * 2^c BY <1>1, PowerSum
<1>4. 2^(z + (StreamBits + c)) = 2^z * 2^(StreamBits + c)
  BY <1>1, PowerSum
<1>5. 2^c \in Nat \ {0} /\ 2^z \in Nat \ {0}
      /\ 2^StreamBits \in Nat \ {0} /\ 2^NonceBits \in Nat \ {0}
  BY <1>1, PowerPositive
<1>6. 2^z * (2^StreamBits * 2^c) = (2^z * 2^StreamBits) * 2^c
  BY <1>5
<1>7. 2^(NonceBits - z) = 2^StreamBits * 2^c BY <1>1, <1>3, Zenon
<1>8. 2^NonceBits = (2^z * 2^StreamBits) * 2^c
  BY <1>1, <1>3, <1>4, <1>6, Zenon
<1> QED BY <1>2, <1>5, <1>7, <1>8, Zenon

\* A stream starts at a multiple of its length.
LEMMA StartIs ==
  ASSUME NEW b \in Workers, NEW z \in Widths, NEW e \in 0..(2^z - 1)
  PROVE  /\ Stream(b, e) \in Nat
         /\ StreamStart(b, e * 2^(NonceBits - z), z)
              = (Stream(b, e) % (2^z * 2^StreamBits)) * Length(z)
<1> DEFINE E == 2^z
           M == 2^StreamBits
           L == Length(z)
           idx == DeviceIdx * Bufs + b
<1>1. E \in Nat \ {0} /\ M \in Nat \ {0} /\ L \in Nat \ {0} BY LengthsAre
<1>2. idx \in Nat /\ e \in Nat
  <2>1. b \in Nat /\ DeviceIdx \in Nat /\ Bufs \in Nat BY WidthsAre DEF Workers
  <2>2. e \in Nat BY <1>1
  <2> QED BY <2>1, <2>2
<1>3. StreamStart(b, e * 2^(NonceBits - z), z)
        = (e * (M * L) + idx * L) % ((E * M) * L)
  BY LengthsAre, Zenon DEF StreamStart, Length
<1>4. Stream(b, e) = e * M + idx BY DEF Stream
<1> HIDE DEF E, M, L, idx
<1>5. e * (M * L) + idx * L = (e * M + idx) * L BY <1>1, <1>2
<1>6. e * M + idx \in Nat /\ E * M \in Nat \ {0} BY <1>1, <1>2
<1> DEFINE a == e * M + idx
           m == E * M
<1>7. a \in Nat /\ m \in Nat \ {0} BY <1>6
<1> HIDE DEF a, m
<1>8. (a * L) % (m * L) = (a % m) * L BY <1>1, <1>7, ScaledRemainder
<1> QED BY <1>3, <1>4, <1>5, <1>7, <1>8, Zenon DEF a, m, E, M, L

\* A stream starts at a natural number.
LEMMA StreamStartIs ==
  ASSUME NEW b \in Workers, NEW z \in Widths, NEW e \in 0..(2^z - 1)
  PROVE  StreamStart(b, e * 2^(NonceBits - z), z) \in Nat
<1> DEFINE m == 2^z * 2^StreamBits
           L == Length(z)
           a == Stream(b, e)
<1>1. m \in Nat \ {0} /\ L \in Nat BY LengthsAre
<1>2. a \in Nat /\ StreamStart(b, e * 2^(NonceBits - z), z) = (a % m) * L
  BY StartIs
<1> HIDE DEF m, L, a
<1>3. a % m \in Nat BY <1>1, <1>2
<1>4. (a % m) * L \in Nat BY <1>1, <1>3
<1> QED BY <1>2, <1>4

\* Two workers of a device share no nonce, whatever their extra nonces of one
\* length.
LEMMA StreamsApart ==
  ASSUME NEW b \in Workers, NEW c \in Workers, NEW z \in Widths,
         NEW e \in 0..(2^z - 1), NEW f \in 0..(2^z - 1),
         NEW p \in Nat, p = StreamStart(b, e * 2^(NonceBits - z), z),
         NEW q \in Nat, q = StreamStart(c, f * 2^(NonceBits - z), z),
         NEW n \in p..(p + Length(z) - 1), n \in q..(q + Length(z) - 1)
  PROVE  b = c
<1> DEFINE E == 2^z
           M == 2^StreamBits
           m == E * M
           x == Stream(b, e)
           y == Stream(c, f)
           r == x % m
           s == y % m
<1>1. /\ E \in Nat \ {0} /\ M \in Nat \ {0} /\ Length(z) \in Nat \ {0}
  BY LengthsAre
<1>2. m \in Nat \ {0} BY <1>1
<1>3. x \in Nat /\ y \in Nat BY StartIs
<1>4. p = r * Length(z) /\ q = s * Length(z)
  BY StartIs
<1>5. e \in Nat /\ f \in Nat BY <1>1
<1>6. b \in Nat /\ c \in Nat /\ b < Bufs /\ c < Bufs /\ Bufs \in Nat /\ Bufs <= M
  BY WidthsAre, SealAssumption DEF Workers
<1> DEFINE k == DeviceIdx * Bufs
<1>7. k \in Nat BY WidthsAre
<1>8. x = e * M + (k + b) /\ y = f * M + (k + c) BY DEF Stream
<1> HIDE DEF E, M, m, k, x, y
<1>9. r \in Nat /\ s \in Nat BY <1>2, <1>3
<1>10. x = m * (x \div m) + r /\ y = m * (y \div m) + s
       /\ x \div m \in Nat /\ y \div m \in Nat
  BY <1>2, <1>3
<1> HIDE DEF r, s
<1>11. r = s
  <2>1. r * Length(z) \in Int /\ s * Length(z) \in Int BY <1>1, <1>9
  <2>2. n \in Int /\ r * Length(z) <= n /\ n < r * Length(z) + Length(z)
        /\ s * Length(z) <= n /\ n < s * Length(z) + Length(z)
    BY <1>1, <1>4, <2>1
  <2> QED BY <1>1, <1>9, <2>2, RangesMeet
<1> DEFINE u == x \div m
           v == y \div m
           g == E * u - E * v - e + f
<1>12. u \in Nat /\ v \in Nat /\ x = m * u + r /\ y = m * v + r
  BY <1>10, <1>11
<1> HIDE DEF u, v
<1>13. b - c = M * g
  <2>1. m * u = M * (E * u) /\ m * v = M * (E * v) BY <1>1, <1>12 DEF m
  <2>2. x - y = M * (E * u) - M * (E * v) BY <1>1, <1>9, <1>12, <2>1
  <2>3. x - y = e * M + b - (f * M + c) BY <1>1, <1>5, <1>6, <1>7, <1>8
  <2>4. b - c = M * (E * u) - M * (E * v) - e * M + f * M
    BY <1>1, <1>5, <1>6, <1>12, <2>2, <2>3
  <2> QED BY <1>1, <1>5, <1>12, <2>4
<1>14. g \in Int BY <1>1, <1>5, <1>12
<1> HIDE DEF g
<1> DEFINE w == b - c
<1>15. w \in Int /\ -M < w /\ w < M BY <1>1, <1>6
<1>16. w = M * g BY <1>13
<1> HIDE DEF w
<1>17. w = 0 BY <1>1, <1>14, <1>15, <1>16, NoMultiple
<1> QED BY <1>6, <1>17 DEF w

\* Nor do the segments of two workers.
LEMMA SegmentsApart ==
  ASSUME NEW b \in Workers, NEW c \in Workers, NEW n \in Segment(b), n \in Segment(c)
  PROVE  b = c
<1> DEFINE d == (2^(NonceBits - 1) - 1) \div DeviceCount
           k == d \div Bufs
<1>1. d \in Int /\ k \in Int
  <2>1. NonceBits - 1 \in 0..NonceBits BY WidthsAre
  <2>2. 2^(NonceBits - 1) \in Nat \ {0} BY <2>1, PowerPositive
  <2> QED BY <2>2, WidthsAre
<1>2. /\ n \in (d * DeviceIdx + k * b)..(d * DeviceIdx + k * b + k - 1)
      /\ n \in (d * DeviceIdx + k * c)..(d * DeviceIdx + k * c + k - 1)
  BY DEF Segment
<1> HIDE DEF k, d
<1>3. b \in Int /\ c \in Int /\ DeviceIdx \in Int BY WidthsAre DEF Workers
<1> DEFINE a == d * DeviceIdx
           m == n - a
           x == b * k
           y == c * k
<1>4. a \in Int /\ x \in Int /\ y \in Int /\ x = k * b /\ y = k * c BY <1>1, <1>3
<1>5. n \in Int /\ a + x <= n /\ n < a + x + k /\ a + y <= n /\ n < a + y + k
  BY <1>1, <1>2, <1>4
<1> HIDE DEF a, x, y
<1>6. m \in Int /\ x <= m /\ m < x + k /\ y <= m /\ m < y + k /\ k \in Nat \ {0}
  BY <1>1, <1>4, <1>5
<1> HIDE DEF m
<1> QED BY <1>3, <1>6, RangesMeet DEF x, y
-----------------------------------------------------------------------------
(* The types, and the range every search was of.                           *)

\* A worker that is about to search has been told of new work or has a range
\* left.
RoundsLeft ==
  \A b \in Workers :
    /\ wpc[b] = "lock" => changed[b] \/ round[b] < Rounds
    /\ wpc[b] = "flight" => round[b] < Rounds

\* The types, and the rounds a worker may still launch.
SealTyped == SealTypeOK /\ RoundsLeft

\* A nonce of a segment, or of a stream of an extra nonce of the length.
InRange(b, z, n) ==
  \/ z = 0 /\ n \in Segment(b)
  \/ /\ z \in Widths \ {0}
     /\ \E e \in 0..(2^z - 1) :
          n \in StreamStart(b, e * 2^(NonceBits - z), z)
                  ..(StreamStart(b, e * 2^(NonceBits - z), z) + Length(z) - 1)

\* A nonce that was searched and is the worker's own is in such a range.
Ranged ==
  \A s \in searched :
    s.buf \in Workers /\ (s.own => InRange(s.buf, s.bits, s.nonce))

\* An extra nonce is a nonce.
LEMMA ExtraIsNonce ==
  ASSUME NEW z \in Widths, NEW x \in Extras(z) PROVE x \in Nonces
<1> DEFINE E == 2^z
           k == 2^(NonceBits - z)
           N == 2^NonceBits
<1>1. /\ z \in Nat /\ NonceBits - z \in Nat /\ z \in 0..NonceBits
      /\ NonceBits - z \in 0..NonceBits /\ z + (NonceBits - z) = NonceBits
      /\ z + (NonceBits - z) <= NonceBits
  BY WidthsAre DEF Widths
<1>2. E \in Nat \ {0} /\ k \in Nat \ {0} BY <1>1, PowerPositive
<1>3. 2^(z + (NonceBits - z)) = E * k BY <1>1, PowerSum
<1>4. N = E * k BY <1>1, <1>3, Zenon
<1>5. PICK e \in 0..(E - 1) : x = e * k BY DEF Extras
<1>6. Nonces = 0..(N - 1) BY DEF Nonces
<1> HIDE DEF E, k, N
<1>7. e \in Nat /\ e + 1 <= E BY <1>2
<1>8. (e + 1) * k <= E * k BY <1>2, <1>7
<1>9. (e + 1) * k = e * k + k /\ e * k \in Nat BY <1>2, <1>7
<1> QED BY <1>2, <1>4, <1>5, <1>6, <1>8, <1>9

\* What a pool may send.
LEMMA PackageIs ==
  ASSUME NEW p \in Pools, NEW j \in 1..Len(p)
  PROVE  /\ p[j].header \in Headers /\ p[j].target \in Targets
         /\ p[j].bits \in Sizes /\ p[j].bits \in Widths
         /\ p[j].extra \in Extras(p[j].bits) /\ p[j].extra \in Nonces
         /\ Len(p) \in Nat \ {0}
<1>1. p[j] \in Packages BY DEF Packages
<1>2. /\ p[j].header \in Headers /\ p[j].target \in Targets
      /\ p[j].bits \in Sizes
  BY <1>1 DEF Headers, Targets, Sizes
<1>3. /\ Len(p) \in Nat \ {0} /\ p[j].bits \in Widths
      /\ p[j].extra \in Extras(p[j].bits)
  BY SealAssumption DEF Widths, Extras
<1> QED BY <1>2, <1>3, ExtraIsNonce

\* The lengths leave room for a stream.
LEMMA SizesFit == Sizes \subseteq Widths
<1> SUFFICES ASSUME NEW z \in Sizes PROVE z \in Widths OBVIOUS
<1>1. PICK w \in Packages : z = w.bits BY DEF Sizes
<1>2. PICK p \in Pools : \E j \in 1..Len(p) : w = p[j] BY DEF Packages
<1> QED BY <1>1, <1>2, PackageIs

\* A worker starts at a nonce.
LEMMA StartsAre ==
  ASSUME NEW b \in Workers, NEW e \in Nonces, NEW z \in Sizes
  PROVE  Starts(b, e, z) \subseteq Nonces
<1> DEFINE N == 2^NonceBits
<1>0. z \in Widths BY SizesFit
<1>1. N \in Nat \ {0} BY <1>0, LengthsAre
<1>2. CASE e > 0
  <2> DEFINE x == e + (DeviceIdx * Bufs + b) * 2^(NonceBits - StreamBits - z)
  <2>1. StreamStart(b, e, z) = x % N BY DEF StreamStart
  <2>2. x \in Int
    <3>1. /\ e \in Int /\ DeviceIdx \in Int /\ Bufs \in Int /\ b \in Int
          /\ 2^(NonceBits - StreamBits - z) \in Int
      BY <1>0, <1>1, LengthsAre, WidthsAre DEF Nonces, Workers, Length
    <3> QED BY <3>1
  <2> HIDE DEF x, N
  <2>3. x % N \in 0..(N - 1) BY <1>1, <2>2
  <2> QED BY <1>2, <2>1, <2>3 DEF Starts, Nonces, N
<1>3. CASE ~(e > 0)
  <2> DEFINE h == 2^(NonceBits - 1)
             d == (h - 1) \div DeviceCount
             k == d \div Bufs
             a == d * DeviceIdx
             x == k * b
  <2>1. h \in Nat \ {0} /\ N = 2 * h
    <3>1. NonceBits - 1 \in 0..NonceBits /\ NonceBits \in 1..NonceBits BY WidthsAre
    <3> QED BY <3>1, PowerPositive, NoncePowers
  <2>2. Starts(b, e, z) = (a + x)..(a + x + k - 1) BY <1>3 DEF Starts, Segment
  <2> HIDE DEF h, N
  <2>3. d \in Nat /\ d * DeviceCount <= h - 1
    <3>1. h - 1 \in Nat /\ DeviceCount \in Nat \ {0} BY <2>1, WidthsAre
    <3> QED BY <3>1, QuotientIs
  <2> HIDE DEF d
  <2>4. k \in Nat /\ k * Bufs <= d
    <3>1. Bufs \in Nat \ {0} BY WidthsAre
    <3> QED BY <2>3, <3>1, QuotientIs
  <2> HIDE DEF k
  <2>5. x \in Nat /\ x + k <= k * Bufs
    <3>1. b \in Nat /\ b + 1 <= Bufs /\ Bufs \in Nat BY WidthsAre DEF Workers
    <3>2. k * (b + 1) <= k * Bufs BY <2>4, <3>1
    <3>3. k * (b + 1) = k * b + k /\ k * b \in Nat BY <2>4, <3>1
    <3> QED BY <3>2, <3>3
  <2>6. a \in Nat /\ a + d <= d * DeviceCount
    <3>1. DeviceIdx \in Nat /\ DeviceIdx + 1 <= DeviceCount /\ DeviceCount \in Nat
      BY WidthsAre
    <3>2. d * (DeviceIdx + 1) <= d * DeviceCount BY <2>3, <3>1
    <3>3. d * (DeviceIdx + 1) = d * DeviceIdx + d /\ d * DeviceIdx \in Nat
      BY <2>3, <3>1
    <3> QED BY <3>2, <3>3
  <2> HIDE DEF a, x
  <2> DEFINE kB == k * Bufs
             dD == d * DeviceCount
  <2>7. kB \in Nat /\ dD \in Nat BY <2>3, <2>4, WidthsAre
  <2>8. kB <= d /\ dD <= h - 1 /\ x + k <= kB /\ a + d <= dD
    BY <2>3, <2>4, <2>5, <2>6
  <2> HIDE DEF kB, dD
  <2>9. a + x + k <= h - 1
    BY <2>1, <2>3, <2>4, <2>5, <2>6, <2>7, <2>8
  <2> QED BY <2>1, <2>2, <2>4, <2>5, <2>6, <2>9 DEF Nonces, N
<1> QED BY <1>2, <1>3

\* The initial states are of their types.
LEMMA SealTypedInit == ASSUME SealInit PROVE SealTyped
<1>1. jobs \in Pools /\ cwork = 1 BY DEF SealInit
<1>2. Len(jobs) \in Nat \ {0} BY <1>1, SealAssumption
<1>3. 1 \in 1..Len(jobs) BY <1>2
<1>4. /\ jobs[1].header \in Headers /\ jobs[1].target \in Targets
      /\ jobs[1].extra \in Nonces /\ jobs[1].bits \in Sizes
      /\ jobs[1].bits \in Widths
  BY <1>1, <1>3, PackageIs
<1>5. 0 \in Nonces /\ 0 \in 0..Rounds
  <2>1. 2^NonceBits \in Nat \ {0} BY <1>4, LengthsAre
  <2> QED BY <2>1, WidthsAre DEF Nonces
<1>6. /\ job \in [header : Headers, t256 : Targets, t64 : Targets, extra : Nonces]
      /\ used \in [Workers -> Nonces] /\ round \in [Workers -> 0..Rounds]
      /\ start \in [Workers -> Nonces] /\ arg6 \in [Workers -> Targets]
      /\ shdr \in [Workers -> Headers] /\ headerBuf \in Headers
      /\ ubits \in [Workers -> Sizes] /\ cbits \in Sizes
  BY <1>4, <1>5 DEF SealInit, Copied
<1>7. SealTypeOK BY <1>1, <1>3, <1>6 DEF SealInit, SealTypeOK
<1>8. RoundsLeft BY DEF SealInit, RoundsLeft
<1> QED BY <1>7, <1>8 DEF SealTyped

\* What a job of the device is.
Jobs == [header : Headers, t256 : Targets, t64 : Targets, extra : Nonces]

\* A step of the control loop that leaves the workers alone.
LEMMA ControlTyped ==
  ASSUME SealTyped, UNCHANGED <<jobs, gpuVars, found>>,
         cwork' \in 1..Len(jobs), cbits' \in Sizes, told' \in BOOLEAN,
         cstop' \in BOOLEAN,
         ctl' \in {"entry", "select", "extra", "mark", "target", "header",
                   "abort", "wait", "returned"},
         job' \in Jobs
  PROVE  SealTyped'
BY DEF SealTyped, gpuVars, SealTypeOK, RoundsLeft, Jobs

\* The control loop.
LEMMA SealTypedControl ==
  ASSUME SealTyped,
         \/ SetJob \/ Enter \/ EnterStopped \/ TakeMsg \/ TakeExtra \/ MarkExtra
         \/ TakeTarget \/ TakeHeader \/ OtherDeviceStops \/ StopSealing
         \/ Abort \/ Return \/ UNCHANGED sealVars
  PROVE  SealTyped'
<1> USE DEF SealTyped
<1>1. /\ jobs \in Pools /\ cwork \in 1..Len(jobs) /\ job \in Jobs
      /\ Len(jobs) \in Nat /\ told \in BOOLEAN /\ cstop \in BOOLEAN
      /\ cbits \in Sizes
      /\ ctl \in {"entry", "select", "extra", "mark", "target", "header",
                  "abort", "wait", "returned"}
  BY SealAssumption DEF SealTypeOK, Jobs
<1>2. /\ jobs[cwork].header \in Headers /\ jobs[cwork].target \in Targets
      /\ jobs[cwork].extra \in Nonces
  BY <1>1, PackageIs
<1>3. CASE SetJob
  <2>1. cwork' \in 1..Len(jobs) BY <1>1, <1>3 DEF SetJob
  <2>2. cbits' \in Sizes
    <3>1. jobs[cwork'].bits \in Sizes BY <1>1, <2>1, PackageIs
    <3> QED BY <1>1, <1>3, <3>1 DEF SetJob
  <2> QED BY <1>1, <1>3, <2>1, <2>2, ControlTyped DEF SetJob
<1>4. CASE Enter
  <2>1. job' \in Jobs BY <1>2, <1>4 DEF Enter, Copied, Jobs
  <2>2. wpc' \in [Workers -> {"off", "args", "check", "lock", "flight", "gone"}]
        /\ \A b \in Workers : wpc'[b] = "args"
    BY <1>4 DEF Enter
  <2> QED BY <1>4, <2>1, <2>2 DEF Enter, SealTypeOK, RoundsLeft, Jobs
<1>5. CASE EnterStopped BY <1>1, <1>5, ControlTyped DEF EnterStopped
<1>6. CASE TakeMsg BY <1>1, <1>6, ControlTyped DEF TakeMsg
<1>7. CASE StopSealing BY <1>1, <1>7, ControlTyped DEF StopSealing
<1>8. CASE Abort \/ Return BY <1>1, <1>8, ControlTyped DEF Abort, Return
<1>9. CASE OtherDeviceStops BY <1>1, <1>9, ControlTyped DEF OtherDeviceStops
<1>10. CASE TakeExtra
  <2>1. job' \in Jobs BY <1>1, <1>2, <1>10 DEF TakeExtra, Jobs
  <2> QED BY <1>1, <1>10, <2>1, ControlTyped DEF TakeExtra
<1>11. CASE MarkExtra
  <2>1. changed' \in [Workers -> BOOLEAN] /\ \A b \in Workers : changed'[b]
    BY <1>11 DEF MarkExtra
  <2> QED BY <1>11, <2>1 DEF MarkExtra, SealTypeOK, RoundsLeft
<1>12. CASE TakeTarget
  <2>1. job' \in Jobs BY <1>1, <1>2, <1>12 DEF TakeTarget, Jobs
  <2> QED BY <1>1, <1>12, <2>1, ControlTyped DEF TakeTarget
<1>13. CASE TakeHeader
  <2>1. job' \in Jobs BY <1>1, <1>2, <1>13 DEF TakeHeader, Jobs
  <2>2. changed' \in [Workers -> BOOLEAN]
        /\ \A b \in Workers : changed[b] => changed'[b]
    BY <1>13 DEF TakeHeader, SealTypeOK
  <2> QED BY <1>13, <2>1, <2>2 DEF TakeHeader, SealTypeOK, RoundsLeft, Jobs
<1>14. CASE UNCHANGED sealVars
  BY <1>14 DEF sealVars, ctlVars, gpuVars, SealTypeOK, RoundsLeft
<1> QED BY <1>3, <1>4, <1>5, <1>6, <1>7, <1>8, <1>9, <1>10, <1>11, <1>12, <1>13,
           <1>14

\* New work that a worker takes in is typed.
LEMMA TakeWorkTyped ==
  ASSUME SealTyped, NEW b \in Workers, TakeWorkIn(b)
  PROVE  /\ headerBuf' \in Headers /\ changed' \in [Workers -> BOOLEAN]
         /\ arg6' \in [Workers -> Targets] /\ start' \in [Workers -> Nonces]
         /\ used' \in [Workers -> Nonces] /\ ubits' \in [Workers -> Sizes]
         /\ round' \in [Workers -> 0..Rounds] /\ round'[b] = 0
         /\ \A a \in Workers \ {b} : /\ changed'[a] = changed[a]
                                     /\ round'[a] = round[a]
<1> USE DEF SealTyped
<1>1. /\ job.header \in Headers /\ job.t64 \in Targets /\ job.extra \in Nonces
      /\ cbits \in Sizes
  BY DEF SealTypeOK
<1>2. PICK n \in Starts(b, job.extra, cbits) : start' = [start EXCEPT ![b] = n]
  BY DEF TakeWorkIn
<1>3. n \in Nonces BY <1>1, <1>2, StartsAre
<1>4. start' \in [Workers -> Nonces] BY <1>2, <1>3 DEF SealTypeOK
<1>5. 0 \in 0..Rounds BY WidthsAre
<1> QED BY <1>1, <1>4, <1>5 DEF TakeWorkIn, SealTypeOK

\* The workers and the verification.
LEMMA SealTypedWorker ==
  ASSUME SealTyped, NEW b \in Workers,
         SetDagArgs(b) \/ Check(b) \/ Launch(b) \/ LaunchFails(b) \/ Collect(b)
           \/ CollectFails(b)
  PROVE  SealTyped'
<1> USE DEF SealTyped
<1> DEFINE Pcs == {"off", "args", "check", "lock", "flight", "gone"}
<1>0. /\ wpc \in [Workers -> Pcs] /\ changed \in [Workers -> BOOLEAN]
      /\ shdr \in [Workers -> Headers] /\ job.header \in Headers
      /\ start \in [Workers -> Nonces] /\ round \in [Workers -> 0..Rounds]
      /\ arg6 \in [Workers -> Targets] /\ used \in [Workers -> Nonces]
      /\ headerBuf \in Headers /\ ubits \in [Workers -> Sizes]
      /\ \A f \in found : f.header \in Headers /\ f.nonce \in Nonces
  BY DEF SealTypeOK
<1>1. CASE SetDagArgs(b)
  <2>1. /\ wpc' \in [Workers -> Pcs] /\ changed' \in [Workers -> BOOLEAN]
        /\ \A a \in Workers : changed[a] => changed'[a]
        /\ \A a \in Workers : wpc'[a] \in {"lock", "flight"} => wpc'[a] = wpc[a]
    BY <1>0, <1>1 DEF SetDagArgs
  <2>2. UNCHANGED <<ctlVars, shdr, start, used, ubits, round, headerBuf, arg6,
                    found>>
    BY <1>1 DEF SetDagArgs
  <2> QED BY <2>1, <2>2 DEF ctlVars, SealTypeOK, RoundsLeft
<1>2. CASE Check(b)
  <2>1. /\ wpc' \in [Workers -> Pcs]
        /\ wpc'[b] \in {"gone", "lock"}
        /\ wpc'[b] = "lock" => changed[b] \/ round[b] < Rounds
        /\ \A a \in Workers \ {b} : wpc'[a] = wpc[a]
    BY <1>0, <1>2 DEF Check
  <2>2. UNCHANGED <<ctlVars, changed, shdr, start, used, ubits, round, headerBuf,
                    arg6, found>>
    BY <1>2 DEF Check
  <2> QED BY <2>1, <2>2 DEF ctlVars, SealTypeOK, RoundsLeft
<1>3. CASE Launch(b)
  <2>1. /\ wpc' \in [Workers -> Pcs] /\ wpc'[b] = "flight" /\ wpc[b] = "lock"
        /\ \A a \in Workers \ {b} : wpc'[a] = wpc[a]
        /\ shdr' \in [Workers -> Headers]
    BY <1>0, <1>3 DEF Launch
  <2>2. UNCHANGED <<ctlVars, found>> BY <1>3 DEF Launch
  <2>3. CASE changed[b]
    <3>1. TakeWorkIn(b) BY <1>3, <2>3 DEF Launch
    <3>2. /\ headerBuf' \in Headers /\ changed' \in [Workers -> BOOLEAN]
          /\ arg6' \in [Workers -> Targets] /\ start' \in [Workers -> Nonces]
          /\ used' \in [Workers -> Nonces] /\ round' \in [Workers -> 0..Rounds]
          /\ ubits' \in [Workers -> Sizes]
          /\ round'[b] = 0
          /\ \A a \in Workers \ {b} : changed'[a] = changed[a] /\ round'[a] = round[a]
      BY <3>1, TakeWorkTyped
    <3>3. SealTypeOK' BY <2>1, <2>2, <3>2 DEF ctlVars, SealTypeOK
    <3>4. RoundsLeft' BY <2>1, <3>2, WidthsAre DEF RoundsLeft
    <3> QED BY <3>3, <3>4
  <2>4. CASE ~changed[b]
    <3>1. UNCHANGED <<changed, headerBuf, arg6, start, used, ubits, round>>
      BY <1>3, <2>4 DEF Launch
    <3>2. round[b] < Rounds BY <2>1, <2>4 DEF RoundsLeft
    <3> QED BY <2>1, <2>2, <3>1, <3>2 DEF ctlVars, SealTypeOK, RoundsLeft
  <2> QED BY <2>3, <2>4
<1>4. CASE LaunchFails(b)
  <2>1. /\ wpc' \in [Workers -> Pcs] /\ wpc'[b] = "check"
        /\ \A a \in Workers \ {b} : wpc'[a] = wpc[a]
        /\ shdr' \in [Workers -> Headers]
    BY <1>0, <1>4 DEF LaunchFails
  <2>2. UNCHANGED <<ctlVars, found>> BY <1>4 DEF LaunchFails
  <2>3. CASE TakeWorkIn(b)
    <3>2. /\ headerBuf' \in Headers /\ changed' \in [Workers -> BOOLEAN]
          /\ arg6' \in [Workers -> Targets] /\ start' \in [Workers -> Nonces]
          /\ used' \in [Workers -> Nonces] /\ round' \in [Workers -> 0..Rounds]
          /\ ubits' \in [Workers -> Sizes]
          /\ round'[b] = 0
          /\ \A a \in Workers \ {b} : changed'[a] = changed[a] /\ round'[a] = round[a]
      BY <2>3, TakeWorkTyped
    <3>3. SealTypeOK' BY <2>1, <2>2, <3>2 DEF ctlVars, SealTypeOK
    <3>4. RoundsLeft' BY <2>1, <3>2 DEF RoundsLeft
    <3> QED BY <3>3, <3>4
  <2>4. CASE /\ headerBuf' \in Headers
             /\ UNCHANGED <<changed, arg6, start, used, ubits, round>>
    BY <2>1, <2>2, <2>4 DEF ctlVars, SealTypeOK, RoundsLeft
  <2> QED BY <1>0, <1>4, <2>3, <2>4 DEF LaunchFails
<1>5. CASE Collect(b)
  <2>1. /\ wpc' \in [Workers -> Pcs] /\ wpc'[b] = "check" /\ wpc[b] = "flight"
        /\ \A a \in Workers \ {b} : wpc'[a] = wpc[a]
    BY <1>0, <1>5 DEF Collect
  <2>2. UNCHANGED <<ctlVars, changed, shdr, used, ubits, headerBuf, arg6>>
    BY <1>5 DEF Collect
  <2>3. start' \in [Workers -> Nonces]
    <3>1. (start[b] + 1) % 2^NonceBits \in Nonces
      <4>0. NonceBits \in 0..NonceBits BY WidthsAre
      <4>1. 2^NonceBits \in Nat \ {0} BY <4>0, PowerPositive
      <4>2. start[b] + 1 \in Int BY <1>0, <4>1 DEF Nonces
      <4> QED BY <4>1, <4>2 DEF Nonces
    <3> QED BY <1>0, <1>5, <3>1 DEF Collect
  <2>4. /\ round' \in [Workers -> 0..Rounds]
        /\ \A a \in Workers \ {b} : round'[a] = round[a]
    <3>1. round[b] < Rounds BY <2>1 DEF RoundsLeft
    <3>2. round[b] + 1 \in 0..Rounds BY <1>0, <3>1, WidthsAre
    <3> QED BY <1>0, <1>5, <3>2 DEF Collect
  <2>5. \A f \in found' : f.header \in Headers /\ f.nonce \in Nonces
    <3>1. found' = found \/ \E q : found' = found \union {Result(b, q)}
      BY <1>5 DEF Collect
    <3>2. \A q : Result(b, q).header \in Headers /\ Result(b, q).nonce \in Nonces
      BY <1>0 DEF Result
    <3> QED BY <1>0, <3>1, <3>2
  <2> QED BY <2>1, <2>2, <2>3, <2>4, <2>5 DEF ctlVars, SealTypeOK, RoundsLeft
<1>6. CASE CollectFails(b)
  <2>1. /\ wpc' \in [Workers -> Pcs] /\ wpc'[b] = "check"
        /\ \A a \in Workers \ {b} : wpc'[a] = wpc[a]
    BY <1>0, <1>6 DEF CollectFails
  <2>2. UNCHANGED <<ctlVars, changed, shdr, start, used, ubits, round, headerBuf,
                    arg6, found>>
    BY <1>6 DEF CollectFails
  <2> QED BY <2>1, <2>2 DEF ctlVars, SealTypeOK, RoundsLeft
<1> QED BY <1>1, <1>2, <1>3, <1>4, <1>5, <1>6

\* A solution that is verified leaves the workers alone.
LEMMA SealTypedVerify ==
  ASSUME SealTyped, NEW f \in found, Verify(f) PROVE SealTyped'
<1>1. UNCHANGED <<ctlVars, gpuVars>> /\ found' \subseteq found BY DEF Verify
<1> QED BY <1>1 DEF ctlVars, gpuVars, SealTyped, SealTypeOK, RoundsLeft

\* One step.
LEMMA SealTypedStep == SealTyped /\ [SealNext]_sealVars => SealTyped'
<1> SUFFICES ASSUME SealTyped, [SealNext]_sealVars PROVE SealTyped'
  OBVIOUS
<1>1. CASE \E b \in Workers :
             \/ SetDagArgs(b) \/ Check(b) \/ Launch(b) \/ LaunchFails(b)
             \/ Collect(b) \/ CollectFails(b)
  BY <1>1, SealTypedWorker
<1>2. CASE \E f \in found : Verify(f) BY <1>2, SealTypedVerify
<1> QED BY <1>1, <1>2, SealTypedControl DEF SealNext

\* Nothing is searched in the initial states.
LEMMA RangedInit == ASSUME SealInit PROVE Ranged
BY DEF SealInit, Ranged

\* What a worker records as its own is in the range of its start.
LEMMA OwnIsInRange ==
  ASSUME SealTyped, NEW b \in Workers, Searched(b).own
  PROVE  InRange(b, Searched(b).bits, Searched(b).nonce)
<1>1. /\ jobs \in Pools /\ used[b] \in Nonces
  BY DEF SealTyped, SealTypeOK
<1>2. /\ Searched(b).nonce = start[b]
      /\ Searched(b).bits = IF used[b] > 0 THEN ubits[b] ELSE 0
      /\ Matched(b) /\ start[b] \in OwnRange(b, used[b], ubits[b])
  BY DEF Searched
<1>3. CASE used[b] > 0
  <2>1. PICK j \in 1..Len(jobs) :
          jobs[j].extra = used[b] /\ jobs[j].bits = ubits[b]
    BY <1>2, <1>3 DEF Matched
  <2>2. ubits[b] \in Widths /\ used[b] \in Extras(ubits[b])
    BY <1>1, <2>1, PackageIs
  <2>3. ubits[b] # 0
    <3>1. SUFFICES ASSUME ubits[b] = 0 PROVE FALSE OBVIOUS
    <3>2. PICK e \in 0..(2^0 - 1) : used[b] = e * 2^(NonceBits - 0)
      BY <2>2, <3>1 DEF Extras
    <3>3. 2^0 = 1 BY NoncePowers, Zenon
    <3>4. NonceBits - 0 \in 0..NonceBits BY WidthsAre
    <3>5. 2^(NonceBits - 0) \in Nat \ {0} BY <3>4, PowerPositive
    <3>6. e = 0 BY <3>2, <3>3
    <3> DEFINE k == 2^(NonceBits - 0)
    <3>7. used[b] = e * k BY <3>2
    <3>8. k \in Nat BY <3>5
    <3> HIDE DEF k
    <3>9. used[b] = 0 BY <3>6, <3>7, <3>8
    <3> QED BY <1>3, <3>9
  <2>4. PICK e \in 0..(2^ubits[b] - 1) :
          used[b] = e * 2^(NonceBits - ubits[b])
    BY <2>2 DEF Extras
  <2>5. start[b] \in StreamStart(b, used[b], ubits[b])
                      ..(StreamStart(b, used[b], ubits[b]) + Length(ubits[b]) - 1)
    BY <1>2, <1>3 DEF OwnRange, Length
  <2> QED BY <1>2, <1>3, <2>2, <2>3, <2>4, <2>5 DEF InRange
<1>4. CASE ~(used[b] > 0)
  BY <1>2, <1>4 DEF OwnRange, InRange
<1> QED BY <1>3, <1>4

\* Only the end of a kernel adds to what was searched.
LEMMA RangedStep ==
  ASSUME SealTyped, Ranged, [SealNext]_sealVars PROVE Ranged'
<1>1. ASSUME NEW b \in Workers, Collect(b) PROVE Ranged'
  <2>1. searched' = searched \union {Searched(b)} BY <1>1 DEF Collect
  <2>2. Searched(b).buf = b BY DEF Searched
  <2>3. Searched(b).own => InRange(b, Searched(b).bits, Searched(b).nonce)
    BY OwnIsInRange
  <2> QED BY <2>1, <2>2, <2>3 DEF Ranged
<1>2. CASE searched' = searched BY <1>2 DEF Ranged
<1>3. (\E b \in Workers : Collect(b)) \/ searched' = searched
  BY DEF SealNext, SetJob, Enter, EnterStopped, TakeMsg, TakeExtra, MarkExtra,
         TakeTarget, TakeHeader, OtherDeviceStops, StopSealing, Abort, Return,
         SetDagArgs, Check, Launch, LaunchFails, CollectFails, Verify, sealVars
<1> QED BY <1>1, <1>2, <1>3

\* Two workers of a device never search the same nonce, each in its own range.
LEMMA RangedApart == Ranged => StreamsDisjoint
<1> SUFFICES ASSUME Ranged, NEW s \in searched, NEW t \in searched,
                    s.nonce = t.nonce, s.bits = t.bits, s.own, t.own
             PROVE  s.buf = t.buf
  BY DEF StreamsDisjoint
<1> DEFINE b == s.buf
           c == t.buf
           n == s.nonce
           z == s.bits
<1>1. b \in Workers /\ c \in Workers /\ InRange(b, z, n) /\ InRange(c, z, n)
  BY DEF Ranged
<1> HIDE DEF b, c, n, z
<1>2. CASE z \in Widths \ {0}
  <2>1. PICK e \in 0..(2^z - 1) :
          n \in StreamStart(b, e * 2^(NonceBits - z), z)
                  ..(StreamStart(b, e * 2^(NonceBits - z), z) + Length(z) - 1)
    BY <1>1, <1>2 DEF InRange
  <2>2. PICK f \in 0..(2^z - 1) :
          n \in StreamStart(c, f * 2^(NonceBits - z), z)
                  ..(StreamStart(c, f * 2^(NonceBits - z), z) + Length(z) - 1)
    BY <1>1, <1>2 DEF InRange
  <2> DEFINE p == StreamStart(b, e * 2^(NonceBits - z), z)
             q == StreamStart(c, f * 2^(NonceBits - z), z)
  <2>3. p \in Nat /\ q \in Nat BY <1>1, <1>2, StreamStartIs
  <2>4. n \in p..(p + Length(z) - 1) /\ n \in q..(q + Length(z) - 1)
    BY <2>1, <2>2
  <2>5. p = StreamStart(b, e * 2^(NonceBits - z), z)
        /\ q = StreamStart(c, f * 2^(NonceBits - z), z)
    OBVIOUS
  <2> HIDE DEF p, q
  <2>6. b = c BY <1>1, <1>2, <2>3, <2>4, <2>5, StreamsApart
  <2> QED BY <2>6 DEF b, c
<1>3. CASE ~(z \in Widths \ {0})
  <2>1. n \in Segment(b) /\ n \in Segment(c) BY <1>1, <1>3 DEF InRange
  <2>2. b = c BY <1>1, <2>1, SegmentsApart
  <2> QED BY <2>2 DEF b, c
<1> QED BY <1>2, <1>3

\* Whatever the pool sends and however the workers interleave.
THEOREM StreamsDisjointHolds == SealSpec => []StreamsDisjoint
<1>1. SealInit => SealTyped /\ Ranged BY SealTypedInit, RangedInit
<1>2. SealTyped /\ Ranged /\ [SealNext]_sealVars => SealTyped' /\ Ranged'
  BY SealTypedStep, RangedStep
<1> QED BY <1>1, <1>2, RangedApart, PTL DEF SealSpec

\* The control loop, the workers and their buffers keep their types.
THEOREM SealTypeCorrect == SealSpec => []SealTypeOK
<1>1. SealInit => SealTyped BY SealTypedInit
<1>2. SealTyped /\ [SealNext]_sealVars => SealTyped' BY SealTypedStep
<1>3. SealTyped => SealTypeOK BY DEF SealTyped
<1> QED BY <1>1, <1>2, <1>3, PTL DEF SealSpec

\* Seal has its workers from the time it enters until it returns, and it sets
\* c.stop before it waits for them.
Staffed ==
  /\ ctl = "entry" => \A b \in Workers : wpc[b] = "off"
  /\ ctl \notin {"entry", "returned"} => \A b \in Workers : wpc[b] # "off"
  /\ ctl \in {"abort", "wait"} => cstop
  /\ ctl = "returned" => \A b \in Workers : wpc[b] \in {"off", "gone"}

\* A step of a worker: one that has not begun or has ended makes none.
LEMMA WorkerMoves ==
  ASSUME SealTyped, NEW b \in Workers,
         \/ SetDagArgs(b) \/ Check(b) \/ Launch(b) \/ LaunchFails(b)
         \/ Collect(b) \/ CollectFails(b)
  PROVE  /\ UNCHANGED <<ctl, cstop>>
         /\ \A a \in Workers \ {b} : wpc'[a] = wpc[a]
         /\ \/ wpc[b] = "args" /\ wpc'[b] \in {"check", "gone"}
            \/ wpc[b] = "check" /\ cstop /\ wpc'[b] = "gone"
            \/ wpc[b] = "check" /\ ~cstop /\ wpc'[b] = "lock"
            \/ wpc[b] = "lock" /\ wpc'[b] \in {"flight", "check"}
            \/ wpc[b] = "flight" /\ wpc'[b] = "check"
<1>1. wpc \in [Workers -> {"off", "args", "check", "lock", "flight", "gone"}]
      /\ cstop \in BOOLEAN
  BY DEF SealTyped, SealTypeOK
<1>2. UNCHANGED <<ctl, cstop>>
  BY DEF SetDagArgs, Check, Launch, LaunchFails, Collect, CollectFails, ctlVars
<1>3. CASE SetDagArgs(b) BY <1>1, <1>2, <1>3 DEF SetDagArgs
<1>4. CASE Check(b) BY <1>1, <1>2, <1>4 DEF Check
<1>5. CASE Launch(b) \/ LaunchFails(b)
  BY <1>1, <1>2, <1>5 DEF Launch, LaunchFails
<1>6. CASE Collect(b) \/ CollectFails(b)
  BY <1>1, <1>2, <1>6 DEF Collect, CollectFails
<1> QED BY <1>3, <1>4, <1>5, <1>6

\* Every step keeps the staff.
LEMMA StaffedStep ==
  ASSUME SealTyped, Staffed, [SealNext]_sealVars PROVE Staffed'
<1>1. ASSUME NEW b \in Workers,
             \/ SetDagArgs(b) \/ Check(b) \/ Launch(b) \/ LaunchFails(b)
             \/ Collect(b) \/ CollectFails(b)
      PROVE  Staffed'
  BY <1>1, WorkerMoves DEF Staffed
<1>2. CASE Enter BY <1>2 DEF Enter, Staffed
<1>3. CASE EnterStopped BY <1>3 DEF EnterStopped, Staffed, gpuVars
<1>4. CASE \/ SetJob \/ TakeMsg \/ TakeExtra \/ MarkExtra \/ TakeTarget
           \/ TakeHeader \/ OtherDeviceStops
  <2>1. /\ wpc' = wpc
        /\ \/ ctl' = ctl /\ (cstop' = cstop \/ cstop' = TRUE)
           \/ /\ ctl \notin {"entry", "returned"}
              /\ ctl' \notin {"entry", "returned", "abort", "wait"}
    BY <1>4 DEF SetJob, TakeMsg, TakeExtra, MarkExtra, TakeTarget, TakeHeader,
                OtherDeviceStops, gpuVars
  <2> QED BY <2>1 DEF Staffed
<1>5. CASE StopSealing BY <1>5 DEF StopSealing, Staffed, gpuVars
<1>6. CASE Abort BY <1>6 DEF Abort, Staffed, gpuVars
<1>7. CASE Return BY <1>7 DEF Return, Staffed, gpuVars
<1>8. CASE (\E f \in found : Verify(f)) \/ UNCHANGED sealVars
  <2>1. UNCHANGED <<ctl, cstop, wpc>>
    BY <1>8 DEF Verify, sealVars, ctlVars, gpuVars
  <2> QED BY <2>1 DEF Staffed
<1> QED BY <1>1, <1>2, <1>3, <1>4, <1>5, <1>6, <1>7, <1>8 DEF SealNext

\* What a worker has left to do once it is told to stop: a kernel to wait for,
\* a look at c.stop.
StepsLeft(where) == CASE where = "lock" -> 3
                      [] where \in {"args", "flight"} -> 2
                      [] where = "check" -> 1
                      [] OTHER -> 0

\* While Seal waits for its workers, or is about to, somebody can step: the
\* control loop, or a worker that is not held up by anything.
StopIsServed ==
  ctl \in {"abort", "wait"} =>
    \/ ctl = "abort" \/ \A b \in Workers : wpc[b] = "gone"
    \/ \E b \in Workers : \/ wpc[b] \in {"args", "lock", "flight"}
                          \/ wpc[b] = "check" /\ cstop

\* A worker's step brings it nearer to its end.
NearerEnd ==
  ctl \in {"abort", "wait"} =>
    \A b \in Workers : \/ wpc'[b] = wpc[b]
                       \/ StepsLeft(wpc'[b]) < StepsLeft(wpc[b])

\* None starts over while Seal waits for it.
StopComesNearer == [][NearerEnd]_sealVars

\* No worker goes on searching on a device whose Seal has returned.
NoWorkerLeft ==
  ctl = "returned" => \A b \in Workers : wpc[b] \in {"off", "gone"}

\* The invariant holds throughout.
THEOREM StaffedHolds == SealSpec => [](SealTyped /\ Staffed)
<1>1. SealInit => SealTyped /\ Staffed
  BY SealTypedInit DEF SealInit, Staffed
<1>2. SealTyped /\ Staffed /\ [SealNext]_sealVars => (SealTyped /\ Staffed)'
  BY SealTypedStep, StaffedStep
<1> QED BY <1>1, <1>2, PTL DEF SealSpec

\* Whatever fails and whoever else stops the miner, a Seal that returns has
\* seen its workers end.
THEOREM NoWorkerLeftHolds == SealSpec => []NoWorkerLeft
<1>1. Staffed => NoWorkerLeft BY DEF Staffed, NoWorkerLeft
<1> QED BY <1>1, StaffedHolds, PTL

\* A Seal that is told to stop never waits for a worker that waits too.
THEOREM StopIsServedHolds == SealSpec => []StopIsServed
<1>1. SealTyped /\ Staffed => StopIsServed
  BY DEF SealTyped, SealTypeOK, Staffed, StopIsServed
<1> QED BY <1>1, StaffedHolds, PTL

\* While Seal waits, the step of a worker that is told to stop is its next to
\* the end, and no other step starts one.
LEMMA NearerStep == SealTyped /\ Staffed /\ [SealNext]_sealVars => NearerEnd
<1>1. ASSUME SealTyped, Staffed, [SealNext]_sealVars,
             ctl \in {"abort", "wait"}, NEW b \in Workers
      PROVE  \/ wpc'[b] = wpc[b]
             \/ StepsLeft(wpc'[b]) < StepsLeft(wpc[b])
  <2>1. cstop BY <1>1 DEF Staffed
  <2>2. CASE \E a \in Workers :
               \/ SetDagArgs(a) \/ Check(a) \/ Launch(a) \/ LaunchFails(a)
               \/ Collect(a) \/ CollectFails(a)
    <3>1. PICK a \in Workers :
            /\ \A c \in Workers \ {a} : wpc'[c] = wpc[c]
            /\ \/ wpc[a] = "args" /\ wpc'[a] \in {"check", "gone"}
               \/ wpc[a] = "check" /\ wpc'[a] = "gone"
               \/ wpc[a] = "lock" /\ wpc'[a] \in {"flight", "check"}
               \/ wpc[a] = "flight" /\ wpc'[a] = "check"
      BY <1>1, <2>1, <2>2, WorkerMoves
    <3> QED BY <3>1 DEF StepsLeft
  <2>3. CASE UNCHANGED wpc BY <2>3
  <2>4. ~Enter BY <1>1 DEF Enter
  <2> QED BY <1>1, <2>2, <2>3, <2>4
          DEF SealNext, SetJob, EnterStopped, TakeMsg, TakeExtra, MarkExtra,
              TakeTarget, TakeHeader, OtherDeviceStops, StopSealing, Abort,
              Return, Verify, sealVars, gpuVars
<1> QED BY <1>1 DEF NearerEnd

\* Nor for one that searches on and on.
THEOREM StopComesNearerHolds == SealSpec => StopComesNearer
BY NearerStep, StaffedHolds, PTL DEF SealSpec, StopComesNearer

------------------------------------------------------------------------------
\* Where the goroutine of a device is.
GpuStates == {"off", "setup", "program", "binary", "alloc", "chunks", "rest",
              "append", "report", "done"}

\* The shape of the state.
DagShape ==
  /\ miner \in {"init", "wait", "ready", "change", "changeWait", "destroy",
                "exit", "gone", "panic"}
  /\ epoch \in 1..LastEpoch /\ nth \in Nat \ {0}
  /\ devices \in Seq(Gpus)
  /\ gpu \in [Gpus -> GpuStates] /\ obj \in [Gpus -> Device]
  /\ DOMAIN pos = Gpus /\ DOMAIN made = Gpus

\* The DAG of epoch e with the items below p made once.
Begun(e, p) == [n \in 0..(Items[e] - 1) |-> IF n < p THEN 1 ELSE 0]

\* Between its chunks a device has the items below pos, each made once, and
\* afterwards all of them.
Tiled ==
  \A g \in Gpus :
    /\ gpu[g] \in {"chunks", "rest"} =>
         /\ pos[g] \in 0..Items[epoch]
         /\ made[g] = Begun(epoch, pos[g])
    /\ gpu[g] \in {"append", "report"} => Whole(g)

\* A new epoch begins when no goroutine of the last one is left.
Quiet == miner = "ready" => \A g \in Gpus : gpu[g] \in {"off", "done"}

\* A device whose DAG is whole and whose buffers live.
Ready(g) == Whole(g) /\ obj[g].dag1 = "live" /\ obj[g].dag2 = "live"

\* In the first epoch only a device whose goroutine succeeded is listed, and
\* nothing touches it any more; in InitCL the loop has not reached the next.
Listed ==
  /\ miner \in {"init", "wait"} => epoch = 1
  /\ miner = "init" => \A g \in Gpus : g >= nth => gpu[g] = "off"
  /\ miner \in {"change", "changeWait"} => epoch > 1
  /\ miner = "ready" /\ epoch = 1 => devices # <<>>
  /\ miner \in {"init", "wait", "ready"} /\ epoch = 1 =>
       /\ \A g \in Gpus : gpu[g] \in {"chunks", "rest", "append", "report"} =>
            obj[g].dag1 = "live" /\ obj[g].dag2 = "live"
       /\ \A n \in 1..Len(devices) :
            gpu[devices[n]] \in {"report", "done"} /\ Ready(devices[n])

\* The inductive invariant.
DagInv == DagShape /\ Tiled /\ Quiet /\ Listed

\* The initial states satisfy the invariant.
LEMMA DagInitInv == ASSUME DagInit PROVE DagInv
<1> USE DagAssumption
<1>1. None \in Device BY DEF None, Device, Handle
<1>2. DagShape BY <1>1 DEF DagInit, DagShape, GpuStates
<1>3. Tiled /\ Quiet BY DEF DagInit, Tiled, Quiet
<1>4. Listed BY DEF DagInit, Listed
<1> QED BY <1>2, <1>3, <1>4 DEF DagInv

\* The number of DAG items a device counts is that of the epoch.
LEMMA ItemCount ==
  ASSUME DagInv, NEW g \in Gpus, gpu[g] \in {"chunks", "rest"}
  PROVE  /\ DOMAIN made[g] = 0..(Items[epoch] - 1)
         /\ Cardinality(DOMAIN made[g]) = Items[epoch]
         /\ Items[epoch] \in Nat /\ ChunkSize \in 1..Items[epoch]
         /\ Items[epoch] + ChunkSize < 2^Width /\ 2^Width \in Nat
<1>1. /\ Items[epoch] \in Nat /\ ChunkSize \in 1..Items[epoch]
      /\ Items[epoch] + ChunkSize < 2^Width /\ 2^Width \in Nat
  BY DagAssumption DEF DagInv, DagShape
<1>2. DOMAIN made[g] = 0..(Items[epoch] - 1) BY DEF DagInv, Tiled, Begun
<1>3. Cardinality(0..(Items[epoch] - 1)) = Items[epoch]
  <2>1. Items[epoch] - 1 \in Int BY <1>1
  <2>2. Cardinality(0..(Items[epoch] - 1)) =
          IF 0 > Items[epoch] - 1 THEN 0 ELSE Items[epoch] - 1 - 0 + 1
    BY <2>1, FS_Interval
  <2> QED BY <1>1, <2>2
<1> QED BY <1>1, <1>2, <1>3

\* A start index that does not exceed the items needs no wrapping.
LEMMA NoWrap ==
  ASSUME NEW n \in Nat, 2^Width \in Nat, n < 2^Width PROVE Wrap(n) = n
<1> DEFINE w == 2^Width
<1>1. w \in Nat /\ n < w OBVIOUS
<1> HIDE DEF w
<1>2. n % w = n BY <1>1
<1> QED BY <1>2 DEF Wrap, w

\* The rest in whole groups is not smaller than the rest.
LEMMA RestCovers ==
  ASSUME NEW left \in Nat PROVE RestSize(left) \in Nat /\ RestSize(left) >= left
<1>1. GroupSize \in Nat \ {0} BY DagAssumption
<1>2. ((left + GroupSize - 1) \div GroupSize) * GroupSize >= left BY <1>1
<1>3. (left + GroupSize - 1) \div GroupSize \in Nat BY <1>1
<1>4. ((left + GroupSize - 1) \div GroupSize) * GroupSize \in Nat BY <1>1, <1>3
<1> QED BY <1>2, <1>4 DEF RestSize

\* A goroutine of another device, and a device that keeps its place, keep what
\* the invariant says of them.
LEMMA OneMoves ==
  ASSUME DagInv, NEW g \in Gpus, gpu[g] \notin {"off", "done"},
         UNCHANGED <<miner, nth, epoch>>,
         gpu' \in [Gpus -> GpuStates], obj' \in [Gpus -> Device],
         DOMAIN pos' = Gpus, DOMAIN made' = Gpus,
         \A h \in Gpus \ {g} : /\ gpu'[h] = gpu[h] /\ obj'[h] = obj[h]
                               /\ pos'[h] = pos[h] /\ made'[h] = made[h],
         gpu'[g] # "off",
         gpu'[g] \in {"chunks", "rest"} =>
           /\ pos'[g] \in 0..Items[epoch]
           /\ made'[g] = Begun(epoch, pos'[g]),
         gpu'[g] \in {"append", "report"} =>
           made'[g] # <<>> /\ \A n \in DOMAIN made'[g] : made'[g][n] = 1,
         miner \in {"init", "wait"} =>
           /\ gpu'[g] \in {"chunks", "rest", "append", "report"} =>
                obj'[g].dag1 = "live" /\ obj'[g].dag2 = "live"
           /\ gpu[g] = "report" =>
                /\ gpu'[g] = "done" /\ obj'[g] = obj[g] /\ made'[g] = made[g],
         \/ devices' = devices
         \/ /\ devices' = Append(devices, g) /\ gpu'[g] = "report"
            /\ gpu[g] = "append"
  PROVE  DagInv'
<1>1. miner # "ready" BY DEF DagInv, Quiet
<1>2. /\ devices \in Seq(Gpus) /\ devices' \in Seq(Gpus)
      /\ Len(devices) \in Nat /\ \A n \in 1..Len(devices) : devices[n] \in Gpus
  <2>1. devices \in Seq(Gpus) BY DEF DagInv, DagShape
  <2>2. Append(devices, g) \in Seq(Gpus) BY <2>1
  <2> QED BY <2>1, <2>2
<1>3. DagShape' BY <1>2 DEF DagInv, DagShape
<1>4. Tiled'
  <2>1. ASSUME NEW h \in Gpus
        PROVE  /\ gpu'[h] \in {"chunks", "rest"} =>
                    /\ pos'[h] \in 0..Items[epoch]
                    /\ made'[h] = Begun(epoch, pos'[h])
               /\ gpu'[h] \in {"append", "report"} =>
                    made'[h] # <<>> /\ \A n \in DOMAIN made'[h] : made'[h][n] = 1
    <3>1. CASE h = g BY <3>1
    <3>2. CASE h # g BY <3>2 DEF DagInv, Tiled, Whole
    <3> QED BY <3>1, <3>2
  <2> QED BY <2>1 DEF Tiled, Whole, Begun
<1>5. Quiet' BY <1>1 DEF Quiet
<1>6. Listed'
  <2>1. miner' \in {"init", "wait"} => epoch' = 1 BY DEF DagInv, Listed
  <2>2. miner' = "init" => \A h \in Gpus : h >= nth' => gpu'[h] = "off"
    BY DEF DagInv, Listed
  <2>3. miner' # "ready" BY <1>1
  <2>4. ASSUME miner' \in {"init", "wait", "ready"}, epoch' = 1
        PROVE  /\ \A h \in Gpus :
                    gpu'[h] \in {"chunks", "rest", "append", "report"} =>
                      obj'[h].dag1 = "live" /\ obj'[h].dag2 = "live"
               /\ \A n \in 1..Len(devices') :
                    /\ gpu'[devices'[n]] \in {"report", "done"}
                    /\ Ready(devices[n])'
    <3>1. miner \in {"init", "wait"} BY <1>1, <2>4
    <3>2. ASSUME NEW h \in Gpus,
                 gpu'[h] \in {"chunks", "rest", "append", "report"}
          PROVE  obj'[h].dag1 = "live" /\ obj'[h].dag2 = "live"
      <4>1. CASE h = g BY <3>1, <3>2, <4>1
      <4>2. CASE h # g BY <2>4, <3>1, <3>2, <4>2 DEF DagInv, Listed
      <4> QED BY <4>1, <4>2
    <3> DEFINE Fine(d) == /\ gpu'[d] \in {"report", "done"}
                          /\ made'[d] # <<>>
                          /\ \A m \in DOMAIN made'[d] : made'[d][m] = 1
                          /\ obj'[d].dag1 = "live" /\ obj'[d].dag2 = "live"
    <3>3. ASSUME NEW n \in 1..Len(devices) PROVE Fine(devices[n])
      <4>1. devices[n] \in Gpus BY <1>2
      <4>2. gpu[devices[n]] \in {"report", "done"} /\ Ready(devices[n])
        BY <2>4, <3>1 DEF DagInv, Listed
      <4>3. CASE devices[n] = g
        <5>1. gpu[g] = "report" BY <4>2, <4>3
        <5> QED BY <3>1, <4>2, <4>3, <5>1 DEF Ready, Whole
      <4>4. CASE devices[n] # g BY <4>1, <4>2, <4>4 DEF Ready, Whole
      <4> QED BY <4>3, <4>4
    <3>4. gpu'[g] = "report" => Fine(g) BY <3>1
    <3> HIDE DEF Fine
    <3>5. ASSUME NEW n \in 1..Len(devices') PROVE Fine(devices'[n])
      <4>1. CASE devices' = devices BY <3>3, <4>1
      <4>2. CASE devices' = Append(devices, g) /\ gpu'[g] = "report"
        <5>1. CASE n \in 1..Len(devices)
          <6>1. devices'[n] = devices[n] BY <1>2, <4>2, <5>1
          <6> QED BY <3>3, <5>1, <6>1
        <5>2. CASE n \notin 1..Len(devices)
          <6>1. devices'[n] = g BY <1>2, <4>2, <5>2
          <6> QED BY <3>4, <4>2, <6>1
        <5> QED BY <5>1, <5>2
      <4> QED BY <4>1, <4>2
    <3> QED BY <3>2, <3>5 DEF Fine, Ready, Whole
  <2>5. miner' \in {"change", "changeWait"} => epoch' > 1
    BY DEF DagInv, Listed
  <2> QED BY <2>1, <2>2, <2>3, <2>4, <2>5 DEF Listed
<1> QED BY <1>3, <1>4, <1>5, <1>6 DEF DagInv

\* What the creation of programs makes of a device's objects.
LEMMA CreatedIs ==
  ASSUME NEW o \in Device
  PROVE  /\ \A p \in Programs(o) :
              p.o \in Device /\ p.o.dag1 = o.dag1 /\ p.o.dag2 = o.dag2
         /\ \A b \in Binaries(o) :
              b.o \in Device /\ b.o.dag1 = o.dag1 /\ b.o.dag2 = o.dag2
<1> DEFINE Kept(n) == n \in Device /\ n.dag1 = o.dag1 /\ n.dag2 = o.dag2
<1>1. {"nil", "live"} \subseteq Handle BY DEF Handle
<1>2. Kept(o) OBVIOUS
<1>3. \A h, k \in Handle : Kept([o EXCEPT !.program = h, !.kernels = k])
  BY DEF Device
<1>4. \A h \in Handle : Kept([o EXCEPT !.program = h])
  BY DEF Device
<1>5. \A h \in Handle : Kept([o EXCEPT !.binaryProgram = h])
  BY DEF Device
<1>6. \A h, k \in Handle : Kept([o EXCEPT !.binaryProgram = h, !.kernels = k])
  BY DEF Device
<1>7. /\ Kept([o EXCEPT !.program = "live", !.kernels = "live"])
      /\ Kept([o EXCEPT !.program = "nil"])
      /\ Kept([o EXCEPT !.program = "live"])
      /\ Kept([o EXCEPT !.program = "live", !.kernels = "nil"])
  BY <1>1, <1>3, <1>4
<1>8. /\ Kept([o EXCEPT !.binaryProgram = "live"])
      /\ Kept([o EXCEPT !.binaryProgram = "nil"])
      /\ Kept([o EXCEPT !.binaryProgram = "live", !.kernels = "nil"])
  BY <1>1, <1>5, <1>6
<1> HIDE DEF Kept
<1>9. \A p \in Programs(o) : Kept(p.o)
  <2>1. \A w, x, y, z :
          \A p \in {[ok |-> TRUE, o |-> w], [ok |-> FALSE, o |-> x],
                    [ok |-> FALSE, o |-> y], [ok |-> FALSE, o |-> z]} :
            p.o \in {w, x, y, z}
    OBVIOUS
  <2>2. \A p \in Programs(o) :
          p.o \in {[o EXCEPT !.program = "live", !.kernels = "live"],
                  [o EXCEPT !.program = "nil"],
                  [o EXCEPT !.program = "live"],
                  [o EXCEPT !.program = "live", !.kernels = "nil"]}
    BY <2>1, Zenon DEF Programs
  <2> QED BY <1>7, <2>2, Zenon
<1>10. \A b \in Binaries(o) : Kept(b.o)
  <2>1. \A v, w, x, y, z :
          \A b \in {[ok |-> TRUE, o |-> v], [ok |-> FALSE, o |-> w],
                    [ok |-> FALSE, o |-> x], [ok |-> FALSE, o |-> y],
                    [ok |-> FALSE, o |-> z]} :
            b.o \in {v, w, x, y, z}
    OBVIOUS
  <2>2. \A b \in Binaries(o) :
          b.o \in {[o EXCEPT !.binaryProgram = "live"], o,
                  [o EXCEPT !.binaryProgram = "nil"],
                  [o EXCEPT !.binaryProgram = "live"],
                  [o EXCEPT !.binaryProgram = "live", !.kernels = "nil"]}
    BY <2>1, Zenon DEF Binaries
  <2> QED BY <1>2, <1>8, <2>2, Zenon
<1> QED BY <1>9, <1>10 DEF Kept

\* The DAG's two halves are created, or one of them fails.
LEMMA AllocatedIs ==
  ASSUME NEW o \in Device
  PROVE  /\ \A h \in Handle : /\ [o EXCEPT !.dag1 = h] \in Device
                              /\ [o EXCEPT !.dag2 = h] \in Device
         /\ \A h, k \in Handle :
              /\ [[o EXCEPT !.dag1 = h] EXCEPT !.dag2 = k] \in Device
              /\ [[o EXCEPT !.dag1 = h] EXCEPT !.dag2 = k].dag1 = h
              /\ [[o EXCEPT !.dag1 = h] EXCEPT !.dag2 = k].dag2 = k
BY DEF Device

\* The steps of a device's goroutine.
LEMMA GpuKeeps ==
  ASSUME DagInv, NEW g \in Gpus,
         \/ Setup(g) \/ CreateProgram(g) \/ CreateBinary(g) \/ Alloc(g)
         \/ Chunk(g) \/ Rest(g) \/ AppendDevice(g) \/ Report(g)
  PROVE  DagInv'
<1>1. /\ devices \in Seq(Gpus) /\ nth \in Nat \ {0}
      /\ gpu \in [Gpus -> GpuStates] /\ obj \in [Gpus -> Device]
      /\ DOMAIN pos = Gpus /\ DOMAIN made = Gpus
      /\ Items[epoch] \in Nat \ {0}
  <2>1. Items[epoch] \in Nat \ {0} BY DagAssumption DEF DagInv, DagShape
  <2> QED BY <2>1 DEF DagInv, DagShape
<1>2. obj[g] \in Device BY <1>1
<1>3. UNCHANGED <<miner, nth, epoch>>
  BY DEF Setup, CreateProgram, CreateBinary, Alloc, Chunk, Rest, AppendDevice,
         Report
<1>4. CASE Setup(g)
  <2>1. /\ gpu[g] = "setup" /\ UNCHANGED <<devices, obj, pos, made>>
        /\ \E s \in {"done", "program"} : gpu' = [gpu EXCEPT ![g] = s]
    BY <1>4 DEF Setup, Fail
  <2> QED BY <1>1, <1>3, <2>1, OneMoves DEF GpuStates
<1>5. CASE CreateProgram(g)
  <2>1. /\ gpu[g] = "program" /\ UNCHANGED <<devices, pos, made>>
        /\ \E s \in {"done", "binary"} : gpu' = [gpu EXCEPT ![g] = s]
        /\ \E p \in Programs(obj[g]) : obj' = [obj EXCEPT ![g] = p.o]
    BY <1>5 DEF CreateProgram, Fail
  <2>2. \A p \in Programs(obj[g]) : p.o \in Device
    BY <1>2, CreatedIs
  <2>3. obj' \in [Gpus -> Device] BY <1>1, <2>1, <2>2
  <2>4. \A h \in Gpus \ {g} : obj'[h] = obj[h] BY <1>1, <2>1
  <2> QED BY <1>1, <1>3, <2>1, <2>3, <2>4, OneMoves DEF GpuStates
<1>6. CASE CreateBinary(g)
  <2>1. /\ gpu[g] = "binary" /\ UNCHANGED <<devices, pos, made>>
        /\ gpu' = [gpu EXCEPT ![g] = "alloc"]
        /\ obj' = obj \/ \E p \in Binaries(obj[g]) : obj' = [obj EXCEPT ![g] = p.o]
    BY <1>6 DEF CreateBinary
  <2>2. \A p \in Binaries(obj[g]) : p.o \in Device
    BY <1>2, CreatedIs
  <2>3. obj' \in [Gpus -> Device] BY <1>1, <2>1, <2>2
  <2>4. \A h \in Gpus \ {g} : obj'[h] = obj[h] BY <1>1, <2>1
  <2> QED BY <1>1, <1>3, <2>1, <2>3, <2>4, OneMoves DEF GpuStates
<1>7. CASE Alloc(g)
  <2>1. /\ gpu[g] = "alloc" /\ UNCHANGED devices
        /\ pos' = [pos EXCEPT ![g] = 0]
        /\ made' = [made EXCEPT ![g] = [n \in 0..(Items[epoch] - 1) |-> 0]]
    BY <1>7 DEF Alloc
  <2>2. /\ obj' \in [Gpus -> Device]
        /\ \A h \in Gpus \ {g} : obj'[h] = obj[h]
        /\ \/ /\ gpu' = [gpu EXCEPT ![g] = "chunks"]
              /\ obj'[g].dag1 = "live" /\ obj'[g].dag2 = "live"
           \/ gpu' = [gpu EXCEPT ![g] = "done"]
    <3> DEFINE o2 == [[obj[g] EXCEPT !.dag1 = "live"] EXCEPT !.dag2 = "live"]
    <3>1. \/ obj' = [obj EXCEPT ![g] = o2] /\ gpu' = [gpu EXCEPT ![g] = "chunks"]
          \/ /\ gpu' = [gpu EXCEPT ![g] = "done"]
             /\ \E f \in {obj[g], [obj[g] EXCEPT !.dag1 = "nil"],
                        [[obj[g] EXCEPT !.dag1 = "live"] EXCEPT !.dag2 = "nil"],
                        o2} : obj' = [obj EXCEPT ![g] = f]
      BY <1>7 DEF Alloc, Fail
    <3>2. {"nil", "live"} \subseteq Handle BY DEF Handle
    <3>3. o2 \in Device /\ o2.dag1 = "live" /\ o2.dag2 = "live"
      BY <1>2, <3>2 DEF Device
    <3>4. [obj[g] EXCEPT !.dag1 = "nil"] \in Device
      BY <1>2, <3>2, AllocatedIs
    <3>5. [[obj[g] EXCEPT !.dag1 = "live"] EXCEPT !.dag2 = "nil"] \in Device
      BY <1>2, <3>2, AllocatedIs
    <3> HIDE DEF o2
    <3>6. \E f \in Device : /\ obj' = [obj EXCEPT ![g] = f]
                            /\ gpu' = [gpu EXCEPT ![g] = "chunks"] =>
                                 f.dag1 = "live" /\ f.dag2 = "live"
      <4>1. CASE obj' = [obj EXCEPT ![g] = o2] BY <3>3, <4>1
      <4>2. CASE ~(obj' = [obj EXCEPT ![g] = o2])
        <5>1. gpu' # [gpu EXCEPT ![g] = "chunks"] BY <1>1, <3>1, <4>2
        <5> QED BY <1>2, <3>1, <3>4, <3>5, <4>2, <5>1
      <4> QED BY <4>1, <4>2
    <3> QED BY <1>1, <3>1, <3>6
  <2>3. /\ pos'[g] = 0 /\ made'[g] = [n \in 0..(Items[epoch] - 1) |-> 0]
        /\ DOMAIN pos' = Gpus /\ DOMAIN made' = Gpus
        /\ \A h \in Gpus \ {g} : pos'[h] = pos[h] /\ made'[h] = made[h]
    BY <1>1, <2>1
  <2>4. made'[g] = Begun(epoch, 0) BY <2>3 DEF Begun
  <2>5. /\ gpu'[g] \in {"chunks", "done"} /\ gpu' \in [Gpus -> GpuStates]
        /\ \A h \in Gpus \ {g} : gpu'[h] = gpu[h]
        /\ gpu'[g] = "chunks" => obj'[g].dag1 = "live" /\ obj'[g].dag2 = "live"
    BY <1>1, <2>2 DEF GpuStates
  <2>6. gpu'[g] = "chunks" => /\ pos'[g] \in 0..Items[epoch]
                              /\ made'[g] = Begun(epoch, pos'[g])
    BY <1>1, <2>3, <2>4
  <2> HIDE DEF GpuStates
  <2>7. gpu[g] \notin {"off", "done", "report"} BY <2>1
  <2>8. gpu'[g] \notin {"off", "rest", "append", "report"} BY <2>5
  <2>9. devices' = devices BY <2>1
  <2> QED BY <1>3, <2>2, <2>3, <2>5, <2>6, <2>7, <2>8, <2>9, OneMoves
<1>8. CASE Chunk(g)
  <2>1. /\ gpu[g] = "chunks" /\ UNCHANGED <<devices, obj>>
    BY <1>8 DEF Chunk
  <2>2. /\ DOMAIN made[g] = 0..(Items[epoch] - 1)
        /\ Cardinality(DOMAIN made[g]) = Items[epoch]
        /\ Items[epoch] \in Nat /\ ChunkSize \in 1..Items[epoch]
        /\ Items[epoch] + ChunkSize < 2^Width /\ 2^Width \in Nat
    BY <2>1, ItemCount
  <2>3. /\ pos[g] \in 0..Items[epoch]
        /\ made[g] = Begun(epoch, pos[g])
    BY <2>1 DEF DagInv, Tiled
  <2>4. miner \in {"init", "wait"} => obj[g].dag1 = "live" /\ obj[g].dag2 = "live"
    BY <2>1 DEF DagInv, Listed
  <2>5. CASE /\ MoreChunks(g)
             /\ Generate(g, pos[g], ChunkSize)
             /\ pos' = [pos EXCEPT ![g] = Wrap(pos[g] + ChunkSize)]
             /\ gpu' = gpu
    <3>1. Items[epoch] - ChunkSize \in Nat /\ Items[epoch] - ChunkSize < 2^Width
      BY <2>2
    <3>2. Wrap(Items[epoch] - ChunkSize) = Items[epoch] - ChunkSize
      BY <2>2, <3>1, NoWrap
    <3>3. pos[g] + ChunkSize <= Items[epoch]
      BY <2>2, <2>3, <2>5, <3>2 DEF MoreChunks
    <3>4. pos[g] + ChunkSize \in Nat /\ pos[g] + ChunkSize < 2^Width
      BY <2>2, <2>3, <3>3
    <3>5. pos'[g] = pos[g] + ChunkSize
      BY <1>1, <2>2, <2>5, <3>4, NoWrap
    <3>6. /\ DOMAIN pos' = Gpus /\ DOMAIN made' = Gpus
          /\ \A h \in Gpus \ {g} : pos'[h] = pos[h]
          /\ \A h \in Gpus \ {g} : made'[h] = made[h]
      BY <1>1, <2>5 DEF Generate
    <3>7. made'[g] = [m \in DOMAIN made[g] |->
               IF m \in pos[g]..(pos[g] + ChunkSize - 1)
               THEN made[g][m] + 1 ELSE made[g][m]]
      BY <1>1, <2>5 DEF Generate
    <3>8. made'[g] = Begun(epoch, pos'[g])
      <4>1. ASSUME NEW n \in 0..(Items[epoch] - 1)
            PROVE  (IF n \in pos[g]..(pos[g] + ChunkSize - 1)
                    THEN made[g][n] + 1 ELSE made[g][n])
                     = IF n < pos'[g] THEN 1 ELSE 0
        <5>1. made[g][n] = IF n < pos[g] THEN 1 ELSE 0 BY <2>3 DEF Begun
        <5> QED BY <2>2, <2>3, <3>3, <3>5, <5>1
      <4> QED BY <2>2, <3>7, <4>1 DEF Begun
    <3>9. pos'[g] \in 0..Items[epoch] BY <2>2, <2>3, <3>3, <3>5
    <3>10. /\ gpu' \in [Gpus -> GpuStates] /\ obj' \in [Gpus -> Device]
           /\ gpu[g] \notin {"off", "done", "report"} /\ gpu'[g] = "chunks"
           /\ \A h \in Gpus \ {g} : gpu'[h] = gpu[h] /\ obj'[h] = obj[h]
      BY <1>1, <2>1, <2>5
    <3>11. miner \in {"init", "wait"} =>
             obj'[g].dag1 = "live" /\ obj'[g].dag2 = "live"
      BY <2>1, <2>4
    <3> HIDE DEF GpuStates
    <3>12. gpu'[g] \notin {"off", "rest", "append", "report"} BY <3>10
    <3>13. devices' = devices BY <2>1
    <3>14. gpu'[g] \in {"chunks", "rest"} =>
             pos'[g] \in 0..Items[epoch] /\ made'[g] = Begun(epoch, pos'[g])
      BY <3>8, <3>9
    <3> QED BY <1>3, <3>10, <3>11, <3>12, <3>13, <3>6, <3>14, OneMoves
  <2>6. CASE /\ UNCHANGED <<pos, made>>
             /\ \E s \in {"done", "rest"} : gpu' = [gpu EXCEPT ![g] = s]
    BY <1>1, <1>3, <2>1, <2>3, <2>4, <2>6, OneMoves DEF GpuStates
  <2> QED BY <1>8, <2>5, <2>6 DEF Chunk, Fail
<1>9. CASE Rest(g)
  <2>1. gpu[g] = "rest" /\ UNCHANGED <<devices, obj, pos>>
    BY <1>9 DEF Rest
  <2>2. /\ DOMAIN made[g] = 0..(Items[epoch] - 1)
        /\ Cardinality(DOMAIN made[g]) = Items[epoch]
        /\ Items[epoch] \in Nat \ {0}
    BY <1>1, <2>1, ItemCount
  <2>3. /\ pos[g] \in 0..Items[epoch]
        /\ made[g] = Begun(epoch, pos[g])
    BY <2>1 DEF DagInv, Tiled
  <2>4. miner \in {"init", "wait"} => obj[g].dag1 = "live" /\ obj[g].dag2 = "live"
    BY <2>1 DEF DagInv, Listed
  <2> DEFINE left == Items[epoch] - pos[g]
  <2>5. left \in Nat BY <2>2, <2>3
  <2>6. RestSize(left) \in Nat /\ RestSize(left) >= left BY <2>5, RestCovers
  <2>7. CASE /\ IF left > 0 THEN Generate(g, pos[g], RestSize(left))
                            ELSE made' = made
             /\ \E s \in {"append", "report"} : gpu' = [gpu EXCEPT ![g] = s]
    <3>1. /\ DOMAIN made' = Gpus /\ \A h \in Gpus \ {g} : made'[h] = made[h]
          /\ left > 0 =>
               made'[g] = [m \in DOMAIN made[g] |->
                             IF m \in pos[g]..(pos[g] + RestSize(left) - 1)
                             THEN made[g][m] + 1 ELSE made[g][m]]
          /\ ~(left > 0) => made'[g] = made[g]
      BY <1>1, <2>7 DEF Generate
    <3>2. /\ DOMAIN made'[g] = 0..(Items[epoch] - 1)
          /\ \A m \in 0..(Items[epoch] - 1) : made'[g][m] = 1
      <4>1. CASE left > 0
        <5>1. made'[g] = [m \in DOMAIN made[g] |->
                            IF m \in pos[g]..(pos[g] + RestSize(left) - 1)
                            THEN made[g][m] + 1 ELSE made[g][m]]
          BY <3>1, <4>1
        <5>2. ASSUME NEW m \in 0..(Items[epoch] - 1) PROVE made'[g][m] = 1
          <6>1. made[g][m] = IF m < pos[g] THEN 1 ELSE 0 BY <2>3 DEF Begun
          <6>2. m \in pos[g]..(pos[g] + RestSize(left) - 1) <=> ~(m < pos[g])
            BY <2>2, <2>3, <2>6
          <6> QED BY <2>2, <5>1, <6>1, <6>2
        <5> QED BY <2>2, <5>1, <5>2
      <4>2. CASE ~(left > 0)
        <5>1. pos[g] = Items[epoch] BY <2>2, <2>3, <4>2
        <5> QED BY <2>2, <2>3, <3>1, <4>2, <5>1 DEF Begun
      <4> QED BY <4>1, <4>2
    <3>3. made'[g] # <<>>
      <4>1. 0 \in DOMAIN made'[g] BY <2>2, <3>2
      <4> QED BY <4>1
    <3>4. /\ gpu' \in [Gpus -> GpuStates] /\ gpu'[g] \in {"append", "report"}
          /\ \A h \in Gpus \ {g} : gpu'[h] = gpu[h]
      BY <1>1, <2>7 DEF GpuStates
    <3> QED BY <1>1, <1>3, <2>1, <2>4, <3>1, <3>2, <3>3, <3>4, OneMoves
  <2>8. CASE made' = made /\ gpu' = [gpu EXCEPT ![g] = "done"]
    BY <1>1, <1>3, <2>1, <2>8, OneMoves DEF GpuStates
  <2> QED BY <1>9, <2>2, <2>7, <2>8 DEF Rest, Fail
<1>10. CASE AppendDevice(g)
  <2>1. /\ gpu[g] = "append" /\ UNCHANGED <<obj, pos, made>>
        /\ devices' = Append(devices, g) /\ gpu' = [gpu EXCEPT ![g] = "report"]
    BY <1>10 DEF AppendDevice
  <2>2. Whole(g) BY <2>1 DEF DagInv, Tiled
  <2>3. miner \in {"init", "wait"} => obj[g].dag1 = "live" /\ obj[g].dag2 = "live"
    BY <2>1 DEF DagInv, Listed
  <2> QED BY <1>1, <1>3, <2>1, <2>2, <2>3, OneMoves DEF GpuStates, Whole
<1>11. CASE Report(g)
  <2>1. /\ gpu[g] = "report" /\ UNCHANGED <<devices, obj, pos, made>>
        /\ gpu' = [gpu EXCEPT ![g] = "done"]
    BY <1>11 DEF Report
  <2> QED BY <1>1, <1>3, <2>1, OneMoves DEF GpuStates
<1> QED BY <1>4, <1>5, <1>6, <1>7, <1>8, <1>9, <1>10, <1>11

\* The loop of InitCL starts the goroutine of the next device.
LEMMA StartKeeps == ASSUME DagInv, StartDevice PROVE DagInv'
<1>1. /\ miner = "init" /\ nth \in Gpus
      /\ UNCHANGED <<err, epoch, devices, binary, obj, pos, made>>
  BY DEF StartDevice
<1>2. CASE gpu' = [gpu EXCEPT ![nth] = "setup"] /\ nth' = nth + 1 /\ miner' = miner
  <2>1. gpu[nth] = "off" BY <1>1 DEF DagInv, Listed, DagShape
  <2>2. /\ gpu' \in [Gpus -> GpuStates] /\ gpu'[nth] = "setup"
        /\ \A h \in Gpus : h # nth => gpu'[h] = gpu[h]
    BY <1>1, <1>2 DEF DagInv, DagShape, GpuStates
  <2>3. DagShape' BY <1>1, <1>2, <2>2 DEF DagInv, DagShape
  <2>4. Tiled' /\ Quiet'
    <3>1. \A h \in Gpus : gpu'[h] \in {"chunks", "rest", "append", "report"} =>
                            gpu'[h] = gpu[h]
      BY <2>2
    <3> QED BY <1>1, <1>2, <3>1 DEF DagInv, Tiled, Whole, Begun, Quiet
  <2>5. Listed'
    <3>1. \A n \in 1..Len(devices) :
            /\ devices[n] \in Gpus /\ gpu[devices[n]] \in {"report", "done"}
            /\ Ready(devices[n])
      BY <1>1 DEF DagInv, DagShape, Listed
    <3>2. \A n \in 1..Len(devices) : gpu'[devices[n]] = gpu[devices[n]]
      BY <2>1, <2>2, <3>1
    <3>3. \A h \in Gpus : h >= nth' => gpu'[h] = "off"
      <4>1. Gpus \subseteq Int
        <5>1. 1..Cardinality(Gpus) \subseteq Int OBVIOUS
        <5> QED BY <5>1, DagAssumption, Zenon
      <4>2. \A h \in Gpus : h >= nth + 1 => h >= nth /\ h # nth
        BY <1>1, <4>1
      <4> QED BY <1>1, <1>2, <2>2, <4>2 DEF DagInv, Listed
    <3>4. \A h \in Gpus : gpu'[h] \in {"chunks", "rest", "append", "report"} =>
                            gpu'[h] = gpu[h]
      BY <2>2
    <3> QED BY <1>1, <1>2, <3>1, <3>2, <3>3, <3>4
            DEF DagInv, Listed, Ready, Whole
  <2> QED BY <2>3, <2>4, <2>5 DEF DagInv
<1>3. CASE miner' = "exit" /\ UNCHANGED <<gpu, nth>>
  BY <1>1, <1>3
  DEF DagInv, DagShape, Tiled, Quiet, Listed, Ready, Whole, Begun
<1> QED BY <1>2, <1>3 DEF StartDevice

\* The steps of the miner's goroutine that leave every device alone.
LEMMA MinerKeeps ==
  ASSUME DagInv,
         \/ StartsDone \/ InitReturns \/ ChangeDAGCall \/ RenewDone
         \/ ChangeReturns \/ StopMiner
  PROVE  DagInv'
<1>1. UNCHANGED <<devices, binary, gpu, obj, pos, made>>
  BY DEF StartsDone, InitReturns, ChangeDAGCall, RenewDone, ChangeReturns,
         StopMiner
<1>2. CASE ChangeDAGCall
  <2>1. \A g \in Gpus : gpu[g] \in {"off", "done"}
    BY <1>2 DEF ChangeDAGCall, DagInv, Quiet
  <2>2. epoch' \in 1..LastEpoch /\ epoch' > 1
    BY <1>2, DagAssumption DEF ChangeDAGCall, DagInv, DagShape
  <2> QED BY <1>1, <1>2, <2>1, <2>2
          DEF ChangeDAGCall, DagInv, DagShape, Tiled, Quiet, Listed
<1>3. CASE UNCHANGED <<nth, epoch>>
  <2>1. DagShape'
    BY <1>1, <1>3 DEF StartsDone, InitReturns, ChangeDAGCall, RenewDone,
         ChangeReturns, StopMiner, DagInv, DagShape
  <2>2. Tiled' BY <1>1, <1>3 DEF DagInv, Tiled, Whole, Begun
  <2>3. Quiet'
    BY <1>1 DEF StartsDone, InitReturns, ChangeDAGCall, RenewDone,
         ChangeReturns, StopMiner, DagInv, Quiet
  <2>4. Listed'
    <3>1. /\ \A h \in Gpus : Ready(h)' <=> Ready(h)
          /\ \A n \in 1..Len(devices) : devices[n] \in Gpus
      BY <1>1 DEF Ready, Whole, DagInv, DagShape
    <3> QED BY <1>1, <1>3, <3>1 DEF StartsDone, InitReturns, ChangeDAGCall,
              RenewDone, ChangeReturns, StopMiner, DagInv, Listed, DagShape
  <2> QED BY <2>1, <2>2, <2>3, <2>4 DEF DagInv
<1> QED BY <1>2, <1>3 DEF StartsDone, InitReturns, RenewDone, ChangeReturns,
                           StopMiner

\* Once the DAG changes, nothing the devices do disturbs InitCL's promises.
LEMMA LateKeeps ==
  ASSUME DagInv, DagShape', Tiled', miner \in {"change", "destroy"},
         miner' \in {"change", "destroy", "gone", "panic"}, epoch' = epoch,
         miner' = "change" => miner = "change"
  PROVE  DagInv'
BY DEF DagInv, Quiet, Listed

\* The release of an object leaves a handle behind.
LEMMA ReleasedIs ==
  ASSUME NEW o \in Device
  PROVE  /\ ReleaseDag(o) \in Device
         /\ \A h, k, m \in Handle :
              /\ [ReleaseDag(o) EXCEPT !.kernels = h, !.program = k,
                                       !.binaryProgram = m] \in Device
         /\ \A h \in Handle : Release(h) \in Handle
<1>1. \A h \in Handle : Release(h) \in Handle BY DEF Release, Handle
<1>2. ReleaseDag(o) \in Device BY <1>1 DEF ReleaseDag, Device
<1>3. \A q \in Device : \A h, k, m \in Handle :
        [q EXCEPT !.kernels = h, !.program = k, !.binaryProgram = m] \in Device
  BY DEF Device
<1> QED BY <1>1, <1>2, <1>3

\* changeDAG of a device releases its buffers and starts its goroutine.
LEMMA RenewKeeps == ASSUME DagInv, Renew PROVE DagInv'
<1> DEFINE g == devices[nth]
<1>1. /\ miner = "change" /\ nth \in Nat /\ g \in Gpus
      /\ UNCHANGED <<epoch, devices, binary, pos, made>>
  <2>1. nth \in 1..Len(devices)
    <3>1. nth >= 1 BY DEF DagInv, DagShape
    <3> QED BY <3>1 DEF Renew, DagInv, DagShape
  <2> QED BY <2>1 DEF Renew, DagInv, DagShape
<1>2. /\ miner' \in {"change", "destroy", "panic"} /\ nth' \in {nth, nth + 1}
      /\ gpu' \in {gpu, [gpu EXCEPT ![g] = "alloc"]}
      /\ obj' = obj \/ \E o \in Device : obj' = [obj EXCEPT ![g] = o]
  <2> DEFINE o == [ReleaseDag(obj[g]) EXCEPT
                     !.kernels = Release(@), !.program = Release(@),
                     !.binaryProgram = IF binary THEN Release(@) ELSE @]
  <2>1. o \in Device
    <3>1. ReleaseDag(obj[g]) \in Device
      BY <1>1, ReleasedIs DEF DagInv, DagShape
    <3>2. \A h \in Handle : Release(h) \in Handle BY DEF Release, Handle
    <3> QED BY <3>1, <3>2 DEF Device
  <2> HIDE DEF o
  <2>2. ASSUME NEW p \in Programs(o), NEW b \in Binaries(p.o)
        PROVE  p.o \in Device /\ b.o \in Device
    BY <2>1, CreatedIs
  <2>3. \A p \in Programs(o) : p.o \in Device BY <2>1, CreatedIs
  <2>4. \/ miner' = "panic" /\ UNCHANGED <<obj, gpu, err, nth>>
        \/ \E p \in Programs(o) :
             \/ /\ obj' = [obj EXCEPT ![g] = p.o]
                /\ err' = TRUE /\ miner' = "destroy"
                /\ UNCHANGED <<gpu, nth>>
             \/ \E b \in Binaries(p.o) :
                  \/ /\ obj' = [obj EXCEPT ![g] = b.o]
                     /\ gpu' = [gpu EXCEPT ![g] = "alloc"]
                     /\ nth' = nth + 1 /\ miner' = miner
                  \/ /\ obj' = [obj EXCEPT ![g] = b.o]
                     /\ miner' = "destroy"
                     /\ UNCHANGED <<gpu, nth>>
             \/ /\ obj' = [obj EXCEPT ![g] = p.o]
                /\ gpu' = [gpu EXCEPT ![g] = "alloc"]
                /\ nth' = nth + 1 /\ miner' = miner
    BY Zenon DEF Renew, o, g
  <2> HIDE DEF g
  <2> QED BY <1>1, <2>2, <2>3, <2>4
<1> HIDE DEF g
<1>3. DagShape'
  <2>1. nth' \in Nat \ {0} BY <1>1, <1>2 DEF DagInv, DagShape
  <2>2. gpu' \in [Gpus -> GpuStates]
    BY <1>1, <1>2 DEF DagInv, DagShape, GpuStates
  <2>3. obj' \in [Gpus -> Device] BY <1>1, <1>2 DEF DagInv, DagShape
  <2> QED BY <1>1, <1>2, <2>1, <2>2, <2>3 DEF DagInv, DagShape
<1>4. Tiled'
  <2>1. \A h \in Gpus : gpu'[h] # "alloc" => gpu'[h] = gpu[h]
    BY <1>1, <1>2 DEF DagInv, DagShape
  <2> QED BY <1>1, <2>1 DEF DagInv, Tiled, Whole, Begun
<1> QED BY <1>1, <1>2, <1>3, <1>4, LateKeeps

\* Destroy releases what the listed devices hold.
LEMMA DestroyKeeps == ASSUME DagInv, Destroy PROVE DagInv'
<1>1. /\ miner = "destroy" /\ miner' \in {"gone", "panic"}
      /\ UNCHANGED <<nth, err, epoch, devices, binary, gpu, pos, made>>
  BY DEF Destroy
<1>2. obj' \in [Gpus -> Device]
  <2> DEFINE listed == {devices[n] : n \in 1..Len(devices)}
             Gone(o) == [ReleaseDag(o) EXCEPT
                           !.kernels = "released", !.program = "released",
                           !.binaryProgram = IF binary THEN "released" ELSE @]
  <2>1. \A o \in Device : Gone(o) \in Device
    <3>1. \A o \in Device : ReleaseDag(o) \in Device BY ReleasedIs
    <3>2. "released" \in Handle BY DEF Handle
    <3> QED BY <3>1, <3>2 DEF Device
  <2>2. \/ obj' = obj
        \/ obj' = [g \in Gpus |-> IF g \notin listed THEN obj[g] ELSE Gone(obj[g])]
    BY Zenon DEF Destroy
  <2> HIDE DEF listed, Gone
  <2> QED BY <2>1, <2>2 DEF DagInv, DagShape
<1>3. DagShape' BY <1>1, <1>2 DEF DagInv, DagShape
<1>4. Tiled' BY <1>1 DEF DagInv, Tiled, Whole, Begun
<1> QED BY <1>1, <1>3, <1>4, LateKeeps

\* A step of nothing keeps the invariant.
LEMMA DagStutters == ASSUME DagInv, UNCHANGED dagVars PROVE DagInv'
BY DEF dagVars, DagInv, DagShape, Tiled, Quiet, Listed, Ready, Whole, Begun

\* Every step keeps the invariant.
LEMMA DagStep == ASSUME DagInv, [DagNext]_dagVars PROVE DagInv'
<1> USE DEF DagNext
<1>1. CASE StartDevice BY <1>1, StartKeeps
<1>2. CASE StartsDone \/ InitReturns \/ ChangeDAGCall \/ RenewDone
           \/ ChangeReturns \/ StopMiner
  BY <1>2, MinerKeeps
<1>3. CASE Renew BY <1>3, RenewKeeps
<1>4. CASE Destroy BY <1>4, DestroyKeeps
<1>5. ASSUME NEW g \in Gpus,
             \/ Setup(g) \/ CreateProgram(g) \/ CreateBinary(g) \/ Alloc(g)
             \/ Chunk(g) \/ Rest(g) \/ AppendDevice(g) \/ Report(g)
      PROVE  DagInv'
  BY <1>5, GpuKeeps
<1>6. CASE UNCHANGED dagVars BY <1>6, DagStutters
<1> QED BY <1>1, <1>2, <1>3, <1>4, <1>5, <1>6

\* The invariant holds in every state of the specification.
THEOREM DagInvariance == DagSpec => []DagInv
<1>1. DagInit => DagInv BY DagInitInv
<1>2. DagInv /\ [DagNext]_dagVars => DagInv' BY DagStep
<1> QED BY <1>1, <1>2, PTL DEF DagSpec

\* A device past the generation has every item of the DAG, made once.
THEOREM DagWholeHolds == DagSpec => []DagWhole
<1>1. DagInv => DagWhole BY DEF DagInv, Tiled, DagWhole
<1> QED BY <1>1, DagInvariance, PTL

\* When InitCL has returned without an error, every listed device is ready.
THEOREM InitReadyHolds == DagSpec => []InitReady
<1>1. DagInv => InitReady BY DEF DagInv, Listed, InitReady, Ready
<1> QED BY <1>1, DagInvariance, PTL

\* A device is listed once: one that is about to be is not listed yet.
ListedOnce ==
  /\ \A i, j \in 1..Len(devices) : devices[i] = devices[j] => i = j
  /\ \A g \in Gpus : gpu[g] = "append" =>
       \A i \in 1..Len(devices) : devices[i] # g

\* What the invariant leaves open: the variables the goroutines share, the
\* loops over the devices and the index of the chunks, which does not wrap.
RigTyped ==
  /\ err \in BOOLEAN /\ binary \in BOOLEAN
  /\ nth \in 1..(Cardinality(Gpus) + 1)
  /\ pos \in [Gpus -> 0..(2^Width - 1)]

\* The invariant with the bounds of a type invariant.
DagTyped == DagInv /\ ListedOnce /\ RigTyped

\* There are no more listed devices than devices.
LEMMA DevicesFit ==
  ASSUME DagShape, ListedOnce
  PROVE  /\ Len(devices) \in Nat /\ Cardinality(Gpus) \in Nat \ {0}
         /\ Len(devices) <= Cardinality(Gpus)
<1>1. devices \in Seq(Gpus) BY DEF DagShape
<1>2. Len(devices) \in Nat /\ devices \in [1..Len(devices) -> Gpus] BY <1>1
<1>3. IsFiniteSet(Gpus) /\ Cardinality(Gpus) \in Nat \ {0}
  <2>1. IsFiniteSet(Gpus) /\ Gpus # {} BY DagAssumption
  <2> QED BY <2>1, FS_CardinalityType, FS_EmptySet
<1>4. IsFiniteSet(1..Len(devices)) /\ Cardinality(1..Len(devices)) = Len(devices)
  BY <1>2, FS_Interval
<1>5. ASSUME Len(devices) > Cardinality(Gpus) PROVE FALSE
  <2>1. Cardinality(Gpus) < Cardinality(1..Len(devices)) BY <1>2, <1>3, <1>4, <1>5
  <2>2. \E i, j \in 1..Len(devices) : i # j /\ devices[i] = devices[j]
    BY <1>2, <1>3, <1>4, <2>1, FS_PigeonHole
  <2> QED BY <2>2 DEF ListedOnce
<1> QED BY <1>2, <1>3, <1>5

\* The initial states are of their types.
LEMMA DagInitTyped == ASSUME DagInit PROVE DagTyped
<1>1. DagInv BY DagInitInv
<1>2. ListedOnce BY DEF DagInit, ListedOnce
<1>3. DagShape BY <1>1 DEF DagInv
<1>4. Cardinality(Gpus) \in Nat \ {0} BY <1>2, <1>3, DevicesFit
<1>5. nth = 1 /\ err = FALSE /\ pos = [g \in Gpus |-> 0] /\ binary \in BOOLEAN
  BY DEF DagInit
<1>6. nth \in 1..(Cardinality(Gpus) + 1) BY <1>4, <1>5
<1>7. 0 \in 0..(2^Width - 1)
  <2> DEFINE w == 2^Width
  <2>1. w \in Nat /\ Items[1] \in Nat /\ ChunkSize \in Nat /\ Items[1] + ChunkSize < w
    BY DagAssumption
  <2> HIDE DEF w
  <2>2. 0 \in 0..(w - 1) BY <2>1
  <2> QED BY <2>2 DEF w
<1>8. pos \in [Gpus -> 0..(2^Width - 1)]
  <2> DEFINE w == 2^Width - 1
  <2>1. 0 \in 0..w BY <1>7
  <2> HIDE DEF w
  <2>2. pos \in [Gpus -> 0..w] BY <1>5, <2>1
  <2> QED BY <2>2 DEF w
<1>9. err \in BOOLEAN BY <1>5
<1> QED BY <1>1, <1>2, <1>5, <1>6, <1>8, <1>9 DEF DagTyped, RigTyped

\* A device is appended when it is not in the list.
LEMMA ListedOnceStep ==
  ASSUME DagInv, ListedOnce, [DagNext]_dagVars PROVE ListedOnce'
<1>1. devices \in Seq(Gpus) /\ gpu \in [Gpus -> GpuStates]
      /\ Len(devices) \in Nat /\ \A i \in 1..Len(devices) : devices[i] \in Gpus
  BY DEF DagInv, DagShape
<1>2. ASSUME NEW g \in Gpus, AppendDevice(g) PROVE ListedOnce'
  <2>1. /\ gpu[g] = "append" /\ devices' = Append(devices, g)
        /\ gpu' = [gpu EXCEPT ![g] = "report"]
    BY <1>2 DEF AppendDevice
  <2>2. /\ Len(devices') = Len(devices) + 1
        /\ \A i \in 1..Len(devices) : devices'[i] = devices[i]
        /\ devices'[Len(devices) + 1] = g
    BY <1>1, <2>1
  <2>3. \A i \in 1..Len(devices) : devices[i] # g BY <2>1 DEF ListedOnce
  <2>4. \A i \in 1..Len(devices') : i \in 1..Len(devices) \/ i = Len(devices) + 1
    BY <1>1, <2>2
  <2>5. \A i, j \in 1..Len(devices') : devices'[i] = devices'[j] => i = j
    BY <2>2, <2>3, <2>4 DEF ListedOnce
  <2>6. ASSUME NEW h \in Gpus, gpu'[h] = "append", NEW i \in 1..Len(devices')
        PROVE  devices'[i] # h
    <3>1. h # g /\ gpu[h] = "append" BY <1>1, <2>1, <2>6
    <3>2. \A k \in 1..Len(devices) : devices[k] # h BY <3>1 DEF ListedOnce
    <3> QED BY <2>2, <2>4, <3>1, <3>2
  <2> QED BY <2>5, <2>6 DEF ListedOnce
<1>3. ASSUME NEW g \in Gpus, Rest(g), InInit PROVE ListedOnce'
  <2>1. /\ gpu[g] = "rest" /\ devices' = devices
        /\ \E s : gpu' = [gpu EXCEPT ![g] = s]
    BY <1>3 DEF Rest, Fail
  <2>2. \A i \in 1..Len(devices) : gpu[devices[i]] \in {"report", "done"}
    BY <1>3 DEF InInit, DagInv, Listed
  <2>3. \A i \in 1..Len(devices) : devices[i] # g BY <2>1, <2>2
  <2>4. \A h \in Gpus : h # g => gpu'[h] = gpu[h] BY <1>1, <2>1
  <2> QED BY <2>1, <2>3, <2>4 DEF ListedOnce
<1>4. ASSUME devices' = devices,
             \A g \in Gpus : gpu'[g] = "append" => gpu[g] = "append"
      PROVE  ListedOnce'
  BY <1>4 DEF ListedOnce
<1>5. ASSUME NEW g \in Gpus,
             \/ Setup(g) \/ CreateProgram(g) \/ CreateBinary(g) \/ Alloc(g)
             \/ Chunk(g) \/ Report(g) \/ (Rest(g) /\ ~InInit)
      PROVE  ListedOnce'
  <2>1. devices' = devices
    BY <1>5 DEF Setup, CreateProgram, CreateBinary, Alloc, Chunk, Report, Rest
  <2>2. \/ gpu' = gpu
        \/ \E s \in GpuStates \ {"append"} : gpu' = [gpu EXCEPT ![g] = s]
    BY <1>5 DEF Setup, CreateProgram, CreateBinary, Alloc, Chunk, Report, Rest,
                Fail, GpuStates
  <2>3. \A h \in Gpus : gpu'[h] = "append" => gpu[h] = "append"
    BY <1>1, <2>2
  <2> QED BY <1>4, <2>1, <2>3
<1>6. CASE \/ StartDevice \/ StartsDone \/ InitReturns \/ ChangeDAGCall \/ Renew
           \/ RenewDone \/ ChangeReturns \/ StopMiner \/ Destroy
           \/ UNCHANGED dagVars
  <2>1. devices' = devices
    BY <1>6 DEF StartDevice, StartsDone, InitReturns, ChangeDAGCall, Renew,
                RenewDone, ChangeReturns, StopMiner, Destroy, dagVars
  <2>2. \/ gpu' = gpu \/ gpu' = [gpu EXCEPT ![nth] = "setup"]
        \/ gpu' = [gpu EXCEPT ![devices[nth]] = "alloc"]
    BY <1>6 DEF StartDevice, StartsDone, InitReturns, ChangeDAGCall, Renew,
                RenewDone, ChangeReturns, StopMiner, Destroy, dagVars
  <2>3. \A h \in Gpus : gpu'[h] = "append" => gpu[h] = "append"
    BY <1>1, <2>2
  <2> QED BY <1>4, <2>1, <2>3
<1> QED BY <1>2, <1>3, <1>5, <1>6 DEF DagNext

\* The creation of a binary program succeeds or not.
LEMMA BinaryOk == ASSUME NEW o PROVE \A b \in Binaries(o) : b.ok \in BOOLEAN
<1> SUFFICES ASSUME NEW b \in Binaries(o) PROVE b.ok \in BOOLEAN OBVIOUS
<1>1. \E w, x, y, z :
        \/ b = [ok |-> TRUE, o |-> w] \/ b = [ok |-> FALSE, o |-> x]
        \/ b = [ok |-> FALSE, o |-> y] \/ b = [ok |-> FALSE, o |-> z]
  BY Zenon DEF Binaries
<1>2. \E w : b = [ok |-> TRUE, o |-> w] \/ b = [ok |-> FALSE, o |-> w]
  BY <1>1, Zenon
<1>3. PICK w : b = [ok |-> TRUE, o |-> w] \/ b = [ok |-> FALSE, o |-> w]
  BY <1>2
<1>4. CASE b = [ok |-> TRUE, o |-> w] BY <1>4
<1>5. CASE b = [ok |-> FALSE, o |-> w] BY <1>5
<1> QED BY <1>3, <1>4, <1>5

\* The loops over the devices stop at the last, and an index is of its width.
LEMMA RigTypedStep ==
  ASSUME DagTyped, [DagNext]_dagVars PROVE RigTyped'
<1>1. DagInv /\ DagShape /\ ListedOnce /\ RigTyped BY DEF DagTyped, DagInv
<1>2. /\ Len(devices) \in Nat /\ Cardinality(Gpus) \in Nat \ {0}
      /\ Len(devices) <= Cardinality(Gpus)
  BY <1>1, DevicesFit
<1>3. err' \in BOOLEAN
  <2>1. err' \in {err, TRUE, FALSE}
    BY DEF DagNext, Setup, CreateProgram, CreateBinary, Alloc, Chunk, Rest,
           AppendDevice, Report, Fail, StartDevice, StartsDone, InitReturns,
           ChangeDAGCall, Renew, RenewDone, ChangeReturns, StopMiner, Destroy,
           dagVars
  <2> QED BY <1>1, <2>1 DEF RigTyped
<1>4. binary' \in BOOLEAN
  <2>1. ASSUME NEW g \in Gpus, CreateBinary(g) PROVE binary' \in BOOLEAN
    <3>1. binary' = binary \/ \E p \in Binaries(obj[g]) : binary' = p.ok
      BY <2>1 DEF CreateBinary
    <3>2. \A p \in Binaries(obj[g]) : p.ok \in BOOLEAN BY BinaryOk
    <3> QED BY <1>1, <3>1, <3>2 DEF RigTyped
  <2>2. CASE binary' = binary BY <1>1, <2>2 DEF RigTyped
  <2> QED BY <2>1, <2>2
          DEF DagNext, Setup, CreateProgram, Alloc, Chunk, Rest,
           AppendDevice, Report, StartDevice, StartsDone, InitReturns,
           ChangeDAGCall, Renew, RenewDone, ChangeReturns, StopMiner, Destroy,
           dagVars
<1>5. nth' \in 1..(Cardinality(Gpus) + 1)
  <2>1. \/ nth' = nth \/ nth' = 1
        \/ nth \in Gpus /\ nth' = nth + 1
        \/ nth <= Len(devices) /\ nth' = nth + 1
    BY DEF DagNext, Setup, CreateProgram, CreateBinary, Alloc, Chunk, Rest,
           AppendDevice, Report, StartDevice, StartsDone, InitReturns,
           ChangeDAGCall, Renew, RenewDone, ChangeReturns, StopMiner, Destroy,
           dagVars
  <2>2. nth \in 1..(Cardinality(Gpus) + 1) BY <1>1 DEF RigTyped
  <2>3. nth \in Gpus => nth \in 1..Cardinality(Gpus) BY DagAssumption
  <2> QED BY <1>2, <2>1, <2>2, <2>3
<1>6. pos' \in [Gpus -> 0..(2^Width - 1)]
  <2> DEFINE w == 2^Width
             P == 0..(w - 1)
  <2>1. pos \in [Gpus -> P] BY <1>1 DEF RigTyped
  <2>2. w \in Nat \ {0} /\ ChunkSize \in Nat
    <3>1. Items[1] \in Nat /\ ChunkSize \in Nat /\ Items[1] + ChunkSize < w /\ w \in Nat
      BY DagAssumption
    <3> HIDE DEF w
    <3> QED BY <3>1
  <2>3. \/ pos' = pos
        \/ \E g \in Gpus : \/ pos' = [pos EXCEPT ![g] = 0]
                           \/ pos' = [pos EXCEPT ![g] = Wrap(pos[g] + ChunkSize)]
    BY DEF DagNext, Setup, CreateProgram, CreateBinary, Alloc, Chunk, Rest,
           AppendDevice, Report, StartDevice, StartsDone, InitReturns,
           ChangeDAGCall, Renew, RenewDone, ChangeReturns, StopMiner, Destroy,
           dagVars
  <2>4. \A n \in Nat : Wrap(n) = n % w BY DEF Wrap
  <2> HIDE DEF w
  <2>5. \A n \in Nat : n % w \in P BY <2>2
  <2>6. 0 \in P /\ P \subseteq Nat BY <2>2
  <2>7. \A g \in Gpus : Wrap(pos[g] + ChunkSize) \in P
    <3>1. ASSUME NEW g \in Gpus PROVE Wrap(pos[g] + ChunkSize) \in P
      <4>1. pos[g] + ChunkSize \in Nat BY <2>1, <2>2, <2>6
      <4> QED BY <2>4, <2>5, <4>1
    <3> QED BY <3>1
  <2> HIDE DEF P
  <2>8. pos' \in [Gpus -> P] BY <2>1, <2>3, <2>6, <2>7
  <2> QED BY <2>8 DEF P, w
<1> QED BY <1>3, <1>4, <1>5, <1>6 DEF RigTyped

\* Every step keeps the types.
LEMMA DagTypedStep ==
  ASSUME DagTyped, [DagNext]_dagVars PROVE DagTyped'
BY DagStep, ListedOnceStep, RigTypedStep DEF DagTyped

\* The bounded invariant keeps the types.
LEMMA DagTypesFollow == DagTyped => DagTypeOK
<1> SUFFICES ASSUME DagTyped PROVE DagTypeOK OBVIOUS
<1>1. DagShape /\ ListedOnce /\ RigTyped BY DEF DagTyped, DagInv
<1>2. Len(devices) <= Cardinality(Gpus) BY <1>1, DevicesFit
<1> QED BY <1>1, <1>2 DEF DagTypeOK, DagShape, RigTyped, GpuStates

\* However the goroutines of the devices end and the DAG changes, no device is
\* listed twice, and the index of a chunk is of its width.
THEOREM DagTypeCorrect == DagSpec => []DagTypeOK
<1>1. DagInit => DagTyped BY DagInitTyped
<1>2. DagTyped /\ [DagNext]_dagVars => DagTyped' BY DagTypedStep
<1>3. DagTyped => DagTypeOK BY DagTypesFollow
<1> QED BY <1>1, <1>2, <1>3, PTL DEF DagSpec

\* A chunk that does not end the loop of generateDAGOnDevice moves its start
\* index up, to the number of items at most.
ChunkUp ==
  \A g \in Gpus :
    Chunk(g) /\ gpu'[g] = "chunks" =>
      pos'[g] \in Nat /\ pos[g] < pos'[g] /\ pos'[g] <= Items[epoch]
\* Every step is such.
ChunksEnd == [][ChunkUp]_dagVars

\* The index of the next chunk is below the width of the index.
LEMMA ChunkGoesUp == DagInv => ChunkUp
<1> SUFFICES ASSUME DagInv, NEW g \in Gpus, Chunk(g), gpu'[g] = "chunks"
             PROVE  /\ pos'[g] \in Nat /\ pos[g] < pos'[g]
                    /\ pos'[g] <= Items[epoch]
  BY DEF ChunkUp
<1>1. gpu[g] = "chunks" /\ gpu \in [Gpus -> GpuStates] /\ DOMAIN pos = Gpus
  BY DEF Chunk, DagInv, DagShape
<1>2. /\ Cardinality(DOMAIN made[g]) = Items[epoch]
      /\ Items[epoch] \in Nat /\ ChunkSize \in 1..Items[epoch]
      /\ Items[epoch] + ChunkSize < 2^Width /\ 2^Width \in Nat
  BY <1>1, ItemCount
<1>3. pos[g] \in 0..Items[epoch] BY <1>1 DEF DagInv, Tiled
<1>4. MoreChunks(g) /\ pos' = [pos EXCEPT ![g] = Wrap(pos[g] + ChunkSize)]
  BY <1>1 DEF Chunk, Fail
<1>5. Items[epoch] - ChunkSize \in Nat /\ Items[epoch] - ChunkSize < 2^Width
  BY <1>2
<1>6. Wrap(Items[epoch] - ChunkSize) = Items[epoch] - ChunkSize
  BY <1>2, <1>5, NoWrap
<1>7. pos[g] + ChunkSize <= Items[epoch]
  BY <1>2, <1>3, <1>4, <1>6 DEF MoreChunks
<1>8. pos[g] + ChunkSize \in Nat /\ pos[g] + ChunkSize < 2^Width
  BY <1>2, <1>3, <1>7
<1>9. pos'[g] = pos[g] + ChunkSize BY <1>1, <1>2, <1>4, <1>8, NoWrap
<1> QED BY <1>2, <1>3, <1>7, <1>9

\* The loop over the chunks, whose bound and index are 32 bits wide, ends on
\* every device: no start index wraps around to an item that was done.
THEOREM ChunksEndHolds == DagSpec => ChunksEnd
<1>1. DagInv /\ [DagNext]_dagVars => ChunkUp BY ChunkGoesUp
<1> QED BY <1>1, DagInvariance, PTL DEF DagSpec, ChunksEnd
==============================================================================
