------------------------------ MODULE DeviceDag ------------------------------
(***************************************************************************)
(* OpenCLMiner.InitCL, ChangeDAGOnAllDevices and Destroy                   *)
(* (ethash/opencl_miner.go): one goroutine per device that creates its     *)
(* OpenCL objects and generates the DAG in chunks, the error variable they *)
(* share, and what is released when.                                       *)
(*                                                                         *)
(* An OpenCL object a device refers to is "nil" (never created, or its     *)
(* creation failed), "live" or "released".  Releasing a released object    *)
(* does nothing (the bindings clear the handle), releasing nil panics.     *)
(***************************************************************************)
EXTENDS Integers, Sequences, FiniteSets

CONSTANTS
  Gpus,      \* the devices of the rig, 1..n in the order of the ids
  Amd,       \* the ones made by AMD
  Items,     \* epoch -> number of DAG items, over 1..(last epoch)
  ChunkSize, \* 10000 * workGroupSize
  GroupSize, \* workGroupSize
  Width      \* bits of the start index (32 in the code)

LastEpoch == Len(Items)

ASSUME DagAssumption ==
  /\ IsFiniteSet(Gpus) /\ Gpus = 1..Cardinality(Gpus) /\ Gpus # {}
  /\ Amd \subseteq Gpus
  /\ GroupSize \in Nat \ {0} /\ ChunkSize % GroupSize = 0
  /\ LastEpoch \in Nat \ {0} /\ 2^Width \in Nat
  /\ \A e \in 1..LastEpoch :       \* calcDatasetSize is at least 2^30 - 2^7
       Items[e] \in Nat /\ ChunkSize \in 1..Items[e]
                        /\ Items[e] + ChunkSize < 2^Width

VARIABLES
  miner,  \* the goroutine in InitCL, ChangeDAGOnAllDevices or Destroy
  nth,    \* the device its loop is at
  err,    \* errd of InitCL, err of ChangeDAGOnAllDevices
  epoch,  \* of c.dagSize and c.cacheSize
  devices,\* c.devices, in the order the goroutines end
  binary, \* c.binary
  gpu,    \* each device's goroutine
  obj,    \* each device's objects
  pos,    \* "start" of the chunk loop
  made    \* history: how often each item of the DAG was generated

dagVars == <<miner, nth, err, epoch, devices, binary, gpu, obj, pos, made>>

Handle  == {"nil", "live", "released"}
Device  == [program : Handle, binaryProgram : Handle,
            kernels : Handle, dag1 : Handle, dag2 : Handle]

DagTypeOK ==
  /\ miner \in {"init", "wait", "ready", "change", "changeWait", "destroy",
                "exit", "gone", "panic"}
  /\ nth \in 1..(Cardinality(Gpus) + 1)
  /\ err \in BOOLEAN /\ binary \in BOOLEAN
  /\ epoch \in 1..LastEpoch
  /\ devices \in Seq(Gpus) /\ Len(devices) <= Cardinality(Gpus)
  /\ gpu \in [Gpus -> {"off", "setup", "program", "binary", "alloc", "chunks",
                       "rest", "append", "report", "done"}]
  /\ obj \in [Gpus -> Device]
  /\ pos \in [Gpus -> 0..(2^Width - 1)]

None == [program |-> "nil", binaryProgram |-> "nil", kernels |-> "nil",
         dag1 |-> "nil", dag2 |-> "nil"]

DagInit ==
  /\ miner = "init" /\ nth = 1 /\ err = FALSE /\ epoch = 1 /\ devices = <<>>
  /\ binary \in BOOLEAN
  /\ gpu = [g \in Gpus |-> "off"] /\ obj = [g \in Gpus |-> None]
  /\ pos = [g \in Gpus |-> 0] /\ made = [g \in Gpus |-> <<>>]

InInit == miner \in {"init", "wait"}
-----------------------------------------------------------------------------
(* What a device's goroutine does, in InitCL and in a change of the DAG.   *)

\* An error of a device ends its goroutine; the shared variable is assigned.
Fail(g) == gpu' = [gpu EXCEPT ![g] = "done"] /\ err' = TRUE

\* createProgramOnDevice: no program, one that cannot be built and leaves the
\* kernels that there were, one without kernels, or success.
Programs(o) ==
  {[ok |-> TRUE, o |-> [o EXCEPT !.program = "live", !.kernels = "live"]],
   [ok |-> FALSE, o |-> [o EXCEPT !.program = "nil"]],
   [ok |-> FALSE, o |-> [o EXCEPT !.program = "live"]],
   [ok |-> FALSE, o |-> [o EXCEPT !.program = "live", !.kernels = "nil"]]}

\* createBinaryProgramOnDevice: no asset, no program, none built, no kernels.
Binaries(o) ==
  {[ok |-> TRUE, o |-> [o EXCEPT !.binaryProgram = "live"]],
   [ok |-> FALSE, o |-> o],
   [ok |-> FALSE, o |-> [o EXCEPT !.binaryProgram = "nil"]],
   [ok |-> FALSE, o |-> [o EXCEPT !.binaryProgram = "live"]],
   [ok |-> FALSE, o |-> [o EXCEPT !.binaryProgram = "live",
                                  !.kernels = "nil"]]}

\* initCLDevice up to the program: version, memory, context, queues, buffers.
Setup(g) ==
  /\ gpu[g] = "setup"
  /\ \/ Fail(g)
     \/ gpu' = [gpu EXCEPT ![g] = "program"] /\ UNCHANGED err
  /\ UNCHANGED <<miner, nth, epoch, devices, binary, obj, pos, made>>

CreateProgram(g) ==
  /\ gpu[g] = "program"
  /\ \E p \in Programs(obj[g]) :
       /\ obj' = [obj EXCEPT ![g] = p.o]
       /\ IF p.ok
          THEN gpu' = [gpu EXCEPT ![g] = "binary"] /\ UNCHANGED err
          ELSE Fail(g)
  /\ UNCHANGED <<miner, nth, epoch, devices, binary, pos, made>>

\* A binary that cannot be used turns c.binary off for every device.
CreateBinary(g) ==
  /\ gpu[g] = "binary"
  /\ IF binary /\ g \in Amd
     THEN \E p \in Binaries(obj[g]) :
            obj' = [obj EXCEPT ![g] = p.o] /\ binary' = p.ok
     ELSE UNCHANGED <<obj, binary>>
  /\ gpu' = [gpu EXCEPT ![g] = "alloc"]
  /\ UNCHANGED <<miner, nth, err, epoch, devices, pos, made>>

\* generateDAGOnDevice: memory check, dag kernel, the two halves, the cache.
Alloc(g) ==
  /\ gpu[g] = "alloc"
  /\ LET o  == obj[g]
         o1 == [o EXCEPT !.dag1 = "live"]
         o2 == [o1 EXCEPT !.dag2 = "live"]
     IN  \/ /\ obj' = [obj EXCEPT ![g] = o2]
            /\ gpu' = [gpu EXCEPT ![g] = "chunks"]
            /\ UNCHANGED err
         \/ /\ Fail(g)
            /\ \E f \in {o, [o EXCEPT !.dag1 = "nil"],
                         [o1 EXCEPT !.dag2 = "nil"], o2} :
                 obj' = [obj EXCEPT ![g] = f]
  /\ pos' = [pos EXCEPT ![g] = 0]
  /\ made' = [made EXCEPT ![g] = [n \in 0..(Items[epoch] - 1) |-> 0]]
  /\ UNCHANGED <<miner, nth, epoch, devices, binary>>

\* Work items past the end are ignored by the kernel.
Generate(g, from, n) ==
  made' = [made EXCEPT ![g] =
             [m \in DOMAIN @ |-> IF m \in from..(from + n - 1)
                                 THEN @[m] + 1 ELSE @[m]]]

Wrap(n) == n % 2^Width

\* start <= workItems-chunk, in uint32.
MoreChunks(g) == pos[g] <= Wrap(Cardinality(DOMAIN made[g]) - ChunkSize)

Chunk(g) ==
  /\ gpu[g] = "chunks"
  /\ IF MoreChunks(g)
     THEN \/ /\ Generate(g, pos[g], ChunkSize)
             /\ pos' = [pos EXCEPT ![g] = Wrap(@ + ChunkSize)]
             /\ UNCHANGED <<gpu, err>>
          \/ Fail(g) /\ UNCHANGED <<pos, made>>
     ELSE gpu' = [gpu EXCEPT ![g] = "rest"] /\ UNCHANGED <<err, pos, made>>
  /\ UNCHANGED <<miner, nth, epoch, devices, binary, obj>>

\* Mutant of RestSize: the last group is not filled up.
RestSizeDown(left) == (left \div GroupSize) * GroupSize

RestSize(left) == ((left + GroupSize - 1) \div GroupSize) * GroupSize

\* What is left after the full chunks, in whole groups.  In InitCL the
\* goroutine goes on to append the device, in a change it has finished.
Rest(g) ==
  /\ gpu[g] = "rest"
  /\ LET left == Cardinality(DOMAIN made[g]) - pos[g]
     IN  \/ /\ IF left > 0 THEN Generate(g, pos[g], RestSize(left))
                           ELSE UNCHANGED made
            /\ gpu' = [gpu EXCEPT ![g] = IF InInit THEN "append" ELSE "report"]
            /\ UNCHANGED err
         \/ left > 0 /\ Fail(g) /\ UNCHANGED made
  /\ UNCHANGED <<miner, nth, epoch, devices, binary, obj, pos>>

\* Mutant of AppendDevice: the device is listed however its goroutine ended.
AppendDeferred(g) ==
  /\ gpu[g] \in {"append", "done"} /\ miner = "wait"
  /\ \A n \in 1..Len(devices) : devices[n] # g
  /\ devices' = Append(devices, g)
  /\ gpu' = [gpu EXCEPT ![g] = "report"]
  /\ UNCHANGED <<miner, nth, err, epoch, binary, obj, pos, made>>

\* c.devices = append(c.devices, d), under the lock.
AppendDevice(g) ==
  /\ gpu[g] = "append"
  /\ devices' = Append(devices, g)
  /\ gpu' = [gpu EXCEPT ![g] = "report"]
  /\ UNCHANGED <<miner, nth, err, epoch, binary, obj, pos, made>>

\* errd = nil: a success overwrites the error of another device.
Report(g) ==
  /\ gpu[g] = "report"
  /\ err' = FALSE
  /\ gpu' = [gpu EXCEPT ![g] = "done"]
  /\ UNCHANGED <<miner, nth, epoch, devices, binary, obj, pos, made>>
-----------------------------------------------------------------------------
(* InitCL.                                                                 *)

StartDevice ==
  /\ miner = "init" /\ nth \in Gpus
  /\ \/ gpu' = [gpu EXCEPT ![nth] = "setup"] /\ nth' = nth + 1
        /\ UNCHANGED miner
     \/ miner' = "exit" /\ UNCHANGED <<gpu, nth>>   \* device id not found
  /\ UNCHANGED <<err, epoch, devices, binary, obj, pos, made>>

StartsDone ==
  /\ miner = "init" /\ nth \notin Gpus
  /\ miner' = "wait"
  /\ UNCHANGED <<nth, err, epoch, devices, binary, gpu, obj, pos, made>>

\* An error, or no device at all, ends the program (log.Crit of the modes).
InitReturns ==
  /\ miner = "wait" /\ \A g \in Gpus : gpu[g] = "done"
  /\ miner' = IF err \/ devices = <<>> THEN "exit" ELSE "ready"
  /\ UNCHANGED <<nth, err, epoch, devices, binary, gpu, obj, pos, made>>
-----------------------------------------------------------------------------
(* ChangeDAGOnAllDevices, once the devices have stopped.                   *)

ChangeDAGCall ==
  /\ miner = "ready" /\ epoch < LastEpoch
  /\ epoch' = epoch + 1
  /\ miner' = "change" /\ nth' = 1 /\ err' = FALSE
  /\ UNCHANGED <<devices, binary, gpu, obj, pos, made>>

Release(h) == IF h = "nil" THEN "nil" ELSE "released"

ReleaseDag(o) == [o EXCEPT !.dag1 = Release(@), !.dag2 = Release(@)]

\* Releases the old DAG, kernels and programs of the next device, and creates
\* new programs.  An error is returned at once, without waiting for the
\* devices that already generate; a success resets err.
Renew ==
  /\ miner = "change" /\ nth <= Len(devices)
  /\ LET g == devices[nth]
         o == [ReleaseDag(obj[g]) EXCEPT
                 !.kernels = Release(@), !.program = Release(@),
                 !.binaryProgram = IF binary THEN Release(@) ELSE @]
         panics == \/ "nil" \in {obj[g].dag1, obj[g].dag2, obj[g].program,
                                 obj[g].kernels}
                   \/ binary /\ obj[g].binaryProgram = "nil"
         Proceed(new) == /\ obj' = [obj EXCEPT ![g] = new]
                         /\ gpu' = [gpu EXCEPT ![g] = "alloc"]
                         /\ err' = FALSE
                         /\ nth' = nth + 1 /\ UNCHANGED miner
         GiveUp(new)  == /\ obj' = [obj EXCEPT ![g] = new]
                         /\ err' = TRUE /\ miner' = "destroy"
                         /\ UNCHANGED <<gpu, nth>>
     IN  IF panics
         THEN miner' = "panic" /\ UNCHANGED <<obj, gpu, err, nth>>
         ELSE \E p \in Programs(o) :
                IF ~p.ok THEN GiveUp(p.o)
                ELSE IF binary /\ g \in Amd
                THEN \E b \in Binaries(p.o) :
                       IF b.ok THEN Proceed(b.o) ELSE GiveUp(b.o)
                ELSE Proceed(p.o)
  /\ UNCHANGED <<epoch, devices, binary, pos, made>>

RenewDone ==
  /\ miner = "change" /\ nth > Len(devices)
  /\ miner' = "changeWait"
  /\ UNCHANGED <<nth, err, epoch, devices, binary, gpu, obj, pos, made>>

\* wg.Wait and the returned err: the mode resumes or destroys the miner.
ChangeReturns ==
  /\ miner = "changeWait" /\ \A g \in Gpus : gpu[g] \in {"off", "done"}
  /\ miner' = IF err THEN "destroy" ELSE "ready"
  /\ UNCHANGED <<nth, err, epoch, devices, binary, gpu, obj, pos, made>>

\* The mode ends.
StopMiner ==
  /\ miner = "ready"
  /\ miner' = "destroy"
  /\ UNCHANGED <<nth, err, epoch, devices, binary, gpu, obj, pos, made>>

\* ReleaseAll.
Destroy ==
  /\ miner = "destroy"
  /\ LET panics(o) == \/ "nil" \in {o.dag1, o.dag2, o.program, o.kernels}
                      \/ binary /\ o.binaryProgram = "nil"
         used == {devices[n] : n \in 1..Len(devices)}
     IN  IF \E g \in used : panics(obj[g])
         THEN miner' = "panic" /\ UNCHANGED obj
         ELSE /\ miner' = "gone"
              /\ obj' = [g \in Gpus |->
                   IF g \notin used THEN obj[g]
                   ELSE [ReleaseDag(obj[g]) EXCEPT
                           !.kernels = "released", !.program = "released",
                           !.binaryProgram = IF binary THEN "released" ELSE @]]
  /\ UNCHANGED <<nth, err, epoch, devices, binary, gpu, pos, made>>

DagNext ==
  \/ StartDevice \/ StartsDone \/ InitReturns \/ ChangeDAGCall \/ Renew
  \/ RenewDone \/ ChangeReturns \/ StopMiner \/ Destroy
  \/ \E g \in Gpus :
       \/ Setup(g) \/ CreateProgram(g) \/ CreateBinary(g) \/ Alloc(g)
       \/ Chunk(g) \/ Rest(g) \/ AppendDevice(g) \/ Report(g)

DagSpec == DagInit /\ [][DagNext]_dagVars
-----------------------------------------------------------------------------
(* Properties.                                                             *)

Whole(g) == made[g] # <<>> /\ \A n \in DOMAIN made[g] : made[g][n] = 1

\* A device whose goroutine is past the generation has every item of the DAG,
\* each generated once: the full chunks and the rest tile the items, whatever
\* their number leaves over.
DagWhole ==
  \A g \in Gpus : gpu[g] \in {"append", "report"} => Whole(g)

\* When InitCL returns without an error there is a device, and every device it
\* lists has the whole DAG, whatever happened to the other devices and in
\* whatever order their goroutines ended.
InitReady ==
  (miner = "ready" /\ epoch = 1) =>
    /\ devices # <<>>
    /\ \A n \in 1..Len(devices) :
         /\ Whole(devices[n])
         /\ obj[devices[n]].dag1 = "live" /\ obj[devices[n]].dag2 = "live"
=============================================================================
