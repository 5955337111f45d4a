----------------------------- MODULE SealDevice -----------------------------
(***************************************************************************)
(* OpenCLMiner.Seal on one device (ethash/opencl_miner.go): the control    *)
(* loop that serves stop and workCh, the GPU workers that launch kernels   *)
(* on ranges of nonces, and the goroutines that verify what a kernel       *)
(* found.  MiningMode says how Seal is called and told of new work.        *)
(*                                                                         *)
(* The work, the targets and the header of the closure of Seal are shared  *)
(* by all of these; d.Lock makes a launch and the two updates of the       *)
(* control loop atomic, each of the other steps is on its own.  A launch   *)
(* takes the extra nonce from the closure, but its length from c.Work,     *)
(* which may be a package ahead.                                           *)
(***************************************************************************)
EXTENDS Integers, Sequences, FiniteSets

CONSTANTS
  Pools,      \* what a pool may send: sequences of packages, each
              \*   [header, target, extra, bits]: the extra nonce, padded to
              \*   the width of a nonce, and its length; extra = 0 for none
  Bufs,       \* searchBufSize: number of search buffers, one worker each
  DeviceIdx,  \* the device's index, and
  DeviceCount,\*   the length of c.devices
  NonceBits,  \* 64 in the code
  StreamBits, \* bits that number the workers of a rig (4 in the code)
  Rounds,     \* bound: kernels of a worker on one range
  Qualities   \* what a hash is compared as: 0 meets every target

Workers == 0..(Bufs - 1)

ASSUME SealAssumption ==
  /\ Bufs \in Nat \ {0} /\ DeviceCount \in Nat \ {0}
  /\ DeviceIdx \in 0..(DeviceCount - 1)
  /\ \A p \in Pools :
       /\ Len(p) \in Nat \ {0}
       /\ \A j \in 1..Len(p) :          \* room for a stream of its own
            /\ p[j].bits \in Nat /\ p[j].bits + StreamBits < NonceBits
            /\ \E e \in 0..(2^p[j].bits - 1) :
                 p[j].extra = e * 2^(NonceBits - p[j].bits)
  /\ StreamBits \in Nat /\ NonceBits \in Nat \ {0}
  /\ Bufs <= 2^StreamBits               \* 4 and 16 in the code
  /\ Rounds \in Nat \ {0}

\* The powers of two that nonces are made of, of which the provers know nothing.
ASSUME NoncePowers ==
  2^0 = 1 /\ \A i \in 1..NonceBits : 2^i = 2 * 2^(i - 1)

VARIABLES
  jobs,      \* the pool of this behaviour
  cwork,     \* index in jobs of c.Work
  cbits,     \* c.Work.SizeBits
  told,      \* WorkChanged waits to send on this device's workCh
  ctl,       \* the control loop of Seal
  job,       \* headerHash, target256, target64 and extraNonce of the closure
  cstop,     \* c.stop
  wpc,       \* each worker
  changed,   \* s.workChanged
  shdr,      \* s.headerHash
  start,     \* s.startNonce
  used,      \* history: the extra nonce the start nonce was computed from,
  ubits,     \*   and the length it was given
  round,     \* history: ranges searched since then (bounded by Rounds)
  headerBuf, \* d.headerBuf, one for all the workers of the device
  arg6,      \* the target argument of each worker's kernel
  found,     \* goroutines with a result still to verify
  shares,    \* history: what onSolutionFound was called with
  searched   \* history: ranges whose result a worker read

ctlVars  == <<jobs, cwork, cbits, told, ctl, job, cstop>>
gpuVars  == <<wpc, changed, shdr, start, used, ubits, round, headerBuf, arg6>>
sealVars == <<ctlVars, gpuVars, found, shares, searched>>

Packages == UNION {{p[j] : j \in 1..Len(p)} : p \in Pools}
Headers  == {w.header : w \in Packages}
Targets  == {w.target : w \in Packages}
Sizes    == {w.bits : w \in Packages}
Nonces   == 0..(2^NonceBits - 1)

SealTypeOK ==
  /\ jobs \in Pools /\ cwork \in 1..Len(jobs) /\ cbits \in Sizes
  /\ told \in BOOLEAN /\ cstop \in BOOLEAN
  /\ ctl \in {"entry", "select", "extra", "mark", "target", "header",
              "abort", "wait", "returned"}
  /\ job \in [header : Headers, t256 : Targets, t64 : Targets, extra : Nonces]
  /\ wpc \in [Workers -> {"off", "args", "check", "lock", "flight", "gone"}]
  /\ changed \in [Workers -> BOOLEAN]
  /\ shdr \in [Workers -> Headers] /\ headerBuf \in Headers
  /\ used \in [Workers -> Nonces] /\ ubits \in [Workers -> Sizes]
  /\ round \in [Workers -> 0..Rounds]
  /\ start \in [Workers -> Nonces] /\ arg6 \in [Workers -> Targets]
  /\ \A f \in found : f.header \in Headers /\ f.nonce \in Nonces

Copied(j) == [header |-> jobs[j].header, t256 |-> jobs[j].target,
              t64 |-> jobs[j].target, extra |-> jobs[j].extra]

SealInit ==
  /\ jobs \in Pools /\ cwork = 1 /\ cbits = jobs[1].bits /\ told = FALSE
  /\ ctl = "entry" /\ cstop = FALSE
  /\ job = Copied(1)
  /\ wpc = [b \in Workers |-> "off"]
  /\ changed = [b \in Workers |-> FALSE]
  /\ shdr = [b \in Workers |-> jobs[1].header] /\ headerBuf = jobs[1].header
  /\ start = [b \in Workers |-> 0] /\ used = start /\ round = start
  /\ ubits = [b \in Workers |-> jobs[1].bits]
  /\ arg6 = [b \in Workers |-> jobs[1].target]
  /\ found = {} /\ shares = {} /\ searched = {}
-----------------------------------------------------------------------------
(* Which nonces a worker searches.                                         *)

\* Mutant of StreamStart: every worker of the rig starts at the same nonce.
StreamStartShared(b, extra, bits) == extra

\* extraNonce + (uint64(idx*searchBufSize+bufIndex) << (64-4-SizeBits)).
StreamStart(b, extra, bits) ==
  (extra + (DeviceIdx * Bufs + b) * 2^(NonceBits - StreamBits - bits))
  % 2^NonceBits

\* Without an extra nonce a device has a segment of the positive int64, a
\* worker a segment of it, and starts at random in it.
Segment(b) ==
  LET segDevice == (2^(NonceBits - 1) - 1) \div DeviceCount
      segWorker == segDevice \div Bufs
      min       == segDevice * DeviceIdx + segWorker * b
  IN  min..(min + segWorker - 1)

\* The range that is a worker's own.
OwnRange(b, extra, bits) ==
  IF extra > 0
  THEN StreamStart(b, extra, bits)
         ..(StreamStart(b, extra, bits) + 2^(NonceBits - StreamBits - bits) - 1)
  ELSE Segment(b)

Starts(b, extra, bits) ==
  IF extra > 0 THEN {StreamStart(b, extra, bits)} ELSE Segment(b)
-----------------------------------------------------------------------------
(* New work: the mode stores it in c.Work and WorkChanged sends on workCh. *)

\* An extra nonce of the same number, but of another length, is not seen as a
\* new one: its length comes with the next header.
SetJob ==
  /\ ~told
  /\ ctl \notin {"extra", "mark", "target", "header"}   \* c.Lock
  /\ cwork' \in (cwork + 1)..Len(jobs) /\ UNCHANGED jobs
  /\ cbits' = IF /\ jobs[cwork'].extra = jobs[cwork].extra
                 /\ jobs[cwork'].header = jobs[cwork].header
              THEN cbits ELSE jobs[cwork'].bits
  /\ told' = TRUE
  /\ UNCHANGED <<ctl, job, cstop, gpuVars, found, shares, searched>>

\* Seal: copy the work under c.Lock, start the workers.
Enter ==
  /\ ctl = "entry"
  /\ ctl' = "select"
  /\ job' = Copied(cwork)
  /\ wpc' = [b \in Workers |-> "args"]
  /\ UNCHANGED <<jobs, cwork, cbits, told, cstop, changed, shdr, start, used,
                 ubits, round, headerBuf, arg6, found, shares, searched>>

\* A stop requested during the first millisecond.
EnterStopped ==
  /\ ctl = "entry"
  /\ ctl' = "returned"
  /\ UNCHANGED <<jobs, cwork, cbits, told, job, cstop, gpuVars, found, shares,
                 searched>>

\* The control loop receives from workCh and locks c.
TakeMsg ==
  /\ ctl = "select" /\ told
  /\ told' = FALSE
  /\ ctl' = IF jobs[cwork].extra # job.extra THEN "extra" ELSE "target"
  /\ UNCHANGED <<jobs, cwork, cbits, job, cstop, gpuVars, found, shares,
                 searched>>

\* extraNonce is assigned before d.Lock is taken to tell the workers.
TakeExtra ==
  /\ ctl = "extra"
  /\ job' = [job EXCEPT !.extra = jobs[cwork].extra]
  /\ ctl' = "mark"
  /\ UNCHANGED <<jobs, cwork, cbits, told, cstop, gpuVars, found, shares,
                 searched>>

\* Mutant of MarkExtra: the workers are not told of the new extra nonce.
MarkExtraNot ==
  /\ ctl = "mark"
  /\ ctl' = "target"
  /\ UNCHANGED <<jobs, cwork, cbits, told, job, cstop, gpuVars, found, shares,
                 searched>>

MarkExtra ==
  /\ ctl = "mark"
  /\ changed' = [b \in Workers |-> TRUE]
  /\ ctl' = "target"
  /\ UNCHANGED <<jobs, cwork, cbits, told, job, cstop, wpc, shdr, start, used,
                 ubits, round, headerBuf, arg6, found, shares, searched>>

\* A new target reaches the verification at once, but not the kernels.
TakeTarget ==
  /\ ctl = "target"
  /\ job' = [job EXCEPT !.t256 = jobs[cwork].target,
                        !.t64 = jobs[cwork].target]
  /\ ctl' = "header"
  /\ UNCHANGED <<jobs, cwork, cbits, told, cstop, gpuVars, found, shares,
                 searched>>

\* A new header, under d.Lock: the running kernels are told to abort.
TakeHeader ==
  /\ ctl = "header"
  /\ job' = [job EXCEPT !.header = jobs[cwork].header]
  /\ changed' = [b \in Workers |->
                   changed[b] \/ job.header # jobs[cwork].header]
  /\ ctl' = "select"
  /\ UNCHANGED <<jobs, cwork, cbits, told, cstop, wpc, shdr, start, used,
                 ubits, round, headerBuf, arg6, found, shares, searched>>
-----------------------------------------------------------------------------
(* Stop.                                                                   *)

\* c.stop belongs to the miner: any device's Seal sets it for all.
OtherDeviceStops ==
  /\ ctl \in {"select", "extra", "mark", "target", "header"} /\ ~cstop
  /\ cstop' = TRUE
  /\ UNCHANGED <<jobs, cwork, cbits, told, ctl, job, gpuVars, found, shares,
                 searched>>

\* Mutant of StopSealing: c.stop is not set.
StopSealingUnset ==
  /\ ctl = "select"
  /\ ctl' = "abort"
  /\ UNCHANGED <<jobs, cwork, cbits, told, job, cstop, gpuVars, found, shares,
                 searched>>

StopSealing ==
  /\ ctl = "select"
  /\ cstop' = TRUE
  /\ ctl' = "abort"
  /\ UNCHANGED <<jobs, cwork, cbits, told, job, gpuVars, found, shares,
                 searched>>

\* Under d.Lock the running kernels are aborted and waited for.
Abort ==
  /\ ctl = "abort"
  /\ ctl' = "wait"
  /\ UNCHANGED <<jobs, cwork, cbits, told, job, cstop, gpuVars, found, shares,
                 searched>>

\* searchGroup.Wait.
Return ==
  /\ ctl = "wait"
  /\ \A b \in Workers : wpc[b] = "gone"
  /\ ctl' = "returned"
  /\ UNCHANGED <<jobs, cwork, cbits, told, job, cstop, gpuVars, found, shares,
                 searched>>
-----------------------------------------------------------------------------
(* A worker.                                                               *)

\* The DAG arguments; an error ends the worker.
SetDagArgs(b) ==
  /\ wpc[b] = "args"
  /\ \/ wpc' = [wpc EXCEPT ![b] = "check"]
        /\ changed' = [changed EXCEPT ![b] = TRUE]
     \/ wpc' = [wpc EXCEPT ![b] = "gone"] /\ UNCHANGED changed
  /\ UNCHANGED <<ctlVars, shdr, start, used, ubits, round, headerBuf, arg6,
                 found, shares, searched>>

\* for !c.stop.  Bound: a worker waits for the stop or new work once it has
\* searched Rounds ranges.
Check(b) ==
  /\ wpc[b] = "check"
  /\ cstop \/ changed[b] \/ round[b] < Rounds
  /\ wpc' = [wpc EXCEPT ![b] = IF cstop THEN "gone" ELSE "lock"]
  /\ UNCHANGED <<ctlVars, changed, shdr, start, used, ubits, round, headerBuf,
                 arg6, found, shares, searched>>

\* The new work becomes the kernel's arguments and a range to start from.
TakeWorkIn(b) ==
  /\ headerBuf' = job.header
  /\ changed' = [changed EXCEPT ![b] = FALSE]
  /\ arg6' = [arg6 EXCEPT ![b] = job.t64]
  /\ \E n \in Starts(b, job.extra, cbits) : start' = [start EXCEPT ![b] = n]
  /\ used' = [used EXCEPT ![b] = job.extra]
  /\ ubits' = [ubits EXCEPT ![b] = cbits]
  /\ round' = [round EXCEPT ![b] = 0]

\* Under d.Lock: new work, if any, becomes the kernel's arguments, and the
\* kernel is enqueued on the worker's next range.
Launch(b) ==
  /\ wpc[b] = "lock"
  /\ wpc' = [wpc EXCEPT ![b] = "flight"]
  /\ shdr' = [shdr EXCEPT ![b] = job.header]
  /\ IF changed[b]
     THEN TakeWorkIn(b)
     ELSE UNCHANGED <<changed, headerBuf, arg6, start, used, ubits, round>>
  /\ UNCHANGED <<ctlVars, found, shares, searched>>

\* An OpenCL call fails: before the header is written, between it and the
\* end of the arguments, or once the new work has been noted.
LaunchFails(b) ==
  /\ wpc[b] = "lock"
  /\ wpc' = [wpc EXCEPT ![b] = "check"]
  /\ shdr' = [shdr EXCEPT ![b] = job.header]
  /\ \/ UNCHANGED <<changed, headerBuf, arg6, start, used, ubits, round>>
     \/ /\ changed[b]
        /\ headerBuf' = job.header
        /\ UNCHANGED <<changed, arg6, start, used, ubits, round>>
     \/ changed[b] /\ TakeWorkIn(b)
  /\ UNCHANGED <<ctlVars, found, shares, searched>>

\* The extra nonce of a worker and its length came together.
Matched(b) ==
  used[b] > 0 =>
    \E j \in 1..Len(jobs) : jobs[j].extra = used[b] /\ jobs[j].bits = ubits[b]

\* A range is recorded with the worker it belongs to and the length of its
\* extra nonce.
Searched(b) ==
  [buf |-> b, header |-> shdr[b], nonce |-> start[b],
   bits |-> IF used[b] > 0 THEN ubits[b] ELSE 0,
   own |-> Matched(b) /\ start[b] \in OwnRange(b, used[b], ubits[b])]

\* Mutant of Result: the nonce is read after the worker moved on.
ResultLate(b, q) ==
  [header |-> shdr[b], nonce |-> (start[b] + 1) % 2^NonceBits, q |-> q]

\* What the goroutine that verifies gets: the worker's header and nonce.
Result(b, q) == [header |-> shdr[b], nonce |-> start[b], q |-> q]

\* The kernel ends and its buffer is read: nothing found, a hash under the
\* kernel's target, or results that cannot be read.
Collect(b) ==
  /\ wpc[b] = "flight"
  /\ wpc' = [wpc EXCEPT ![b] = "check"]
  /\ start' = [start EXCEPT ![b] = (@ + 1) % 2^NonceBits]
  /\ round' = [round EXCEPT ![b] = @ + 1]
  /\ searched' = searched \union {Searched(b)}
  /\ \/ UNCHANGED found
     \/ \E q \in Qualities :
          q <= arg6[b] /\ found' = found \union {Result(b, q)}
  /\ UNCHANGED <<ctlVars, changed, shdr, used, ubits, headerBuf, arg6, shares>>

\* The count cannot be read: the same range is searched again.
CollectFails(b) ==
  /\ wpc[b] = "flight"
  /\ wpc' = [wpc EXCEPT ![b] = "check"]
  /\ UNCHANGED <<ctlVars, changed, shdr, start, used, ubits, round, headerBuf,
                 arg6, found, shares, searched>>

\* A goroutine verifies a result against the target of the moment: a share
\* goes to onSolutionFound, anything else is counted and forgotten.  The hash
\* may not check out at all: the workers of a device share headerBuf, and the
\* kernel may have read the header another worker wrote there meanwhile.
Verify(f) ==
  /\ found' = found \ {f}
  /\ \/ UNCHANGED shares
     \/ /\ f.nonce # 0 /\ f.q <= job.t256
        /\ shares' = shares \union {[header |-> f.header, nonce |-> f.nonce]}
  /\ UNCHANGED <<ctlVars, gpuVars, searched>>

SealNext ==
  \/ SetJob \/ Enter \/ EnterStopped
  \/ TakeMsg \/ TakeExtra \/ MarkExtra \/ TakeTarget \/ TakeHeader
  \/ OtherDeviceStops \/ StopSealing \/ Abort \/ Return
  \/ \E b \in Workers :
       \/ SetDagArgs(b) \/ Check(b) \/ Launch(b) \/ LaunchFails(b)
       \/ Collect(b) \/ CollectFails(b)
  \/ \E f \in found : Verify(f)

\* The goroutines run; what the pool sends, when a stop comes and whether an
\* OpenCL call succeeds is not assumed.
SealFairness ==
  /\ WF_sealVars(Abort) /\ WF_sealVars(Return)
  /\ \A b \in Workers :
       /\ WF_sealVars(SetDagArgs(b)) /\ WF_sealVars(Check(b))
       /\ WF_sealVars(Launch(b) \/ LaunchFails(b))
       /\ WF_sealVars(Collect(b) \/ CollectFails(b))

SealSpec == SealInit /\ [][SealNext]_sealVars /\ SealFairness
-----------------------------------------------------------------------------
(* Properties.                                                             *)

\* Two workers of a device never search the same nonce of a header while each
\* is in the range it started from, if their extra nonces are of one length and
\* each took its own with that length: the shift by the length and the segments
\* of the random start keep the ranges apart.  A launch between a new length in
\* c.Work and the new extra nonce in the closure has a range of neither package;
\* KernelFollowsWork says how long it keeps it.
StreamsDisjoint ==
  \A s, t \in searched :
    (/\ s.header = t.header /\ s.nonce = t.nonce /\ s.bits = t.bits
     /\ s.own /\ t.own) => s.buf = t.buf

\* Whenever the control loop is back at its select, a worker has either been
\* told of a change it has not looked at, or the header on the device and
\* the extra nonce of its range are the ones of the control loop; and so is the
\* length of the extra nonce, unless a package waits to be announced.
KernelFollowsWork ==
  ctl = "select" =>
    \A b \in Workers :
      (wpc[b] \in {"check", "lock", "flight"} /\ ~changed[b]) =>
        /\ headerBuf = job.header /\ used[b] = job.extra
        /\ told \/ ubits[b] = cbits

\* A share handed to onSolutionFound names a header and a nonce that a worker
\* did search together, however late it is verified.
SharesWereSearched ==
  \A s \in shares :
    \E t \in searched : t.header = s.header /\ t.nonce = s.nonce

\* A Seal that is told to stop returns, even if every OpenCL call fails.
SealStops == ctl = "abort" ~> ctl = "returned"
=============================================================================
