---------------------------- MODULE BenchmarkRun ----------------------------
(* Benchmark of benchmark.go with main of main.go: the device is sealed    *)
(* for 600 seconds or until an interrupt, on a header that changes every   *)
(* second.  All the channels are unbuffered, so a send is an action of its *)
(* sender and its receiver together; stopChan is used in both directions.  *)
EXTENDS Integers

VARIABLES
  program,     \* running or exited
  mainAt,      \* main: in its select, sending on stopChan, or about to exit
  interrupted, \* a signal is waiting in signalChan
  bench,       \* Benchmark
  ending,      \* the case Benchmark took
  reporter,    \* reportHashRate
  rehasher,    \* the goroutine that changes the header
  sealing,     \* the seal goroutine and the Seal it calls
  group        \* wg

benchVars == <<program, mainAt, interrupted, bench, ending, reporter,
               rehasher, sealing, group>>

BenchTypeOK ==
  /\ program \in {"running", "exited"}
  /\ mainAt \in {"select", "sending", "sleeping"} /\ interrupted \in BOOLEAN
  /\ bench \in {"initCL", "workChanged", "select", "stopReport", "stopSeal",
                "wait", "sendStop", "returned"}
  /\ ending \in {"none", "aborted", "completed"}
  /\ reporter \in {"off", "asleep", "polling", "over"}
  /\ rehasher \in {"off", "asleep", "workChanged"}
  /\ sealing \in {"off", "entering", "loop", "aborting", "returned"}
  /\ group \in {0, 1}

BenchInit ==
  /\ program = "running" /\ mainAt = "select" /\ interrupted = FALSE
  /\ bench = "initCL" /\ ending = "none" /\ group = 0
  /\ reporter = "off" /\ rehasher = "off" /\ sealing = "off"

Running == program = "running"
-----------------------------------------------------------------------------
(* Benchmark and its goroutines.                                           *)

InitSucceeds ==
  /\ Running /\ bench = "initCL"
  /\ bench' = "workChanged" /\ sealing' = "entering" /\ reporter' = "asleep"
  /\ UNCHANGED <<program, mainAt, interrupted, ending, rehasher, group>>

\* log.Crit ends the process.
InitIsCritical ==
  /\ Running /\ bench = "initCL"
  /\ program' = "exited"
  /\ UNCHANGED <<mainAt, interrupted, bench, ending, reporter, rehasher,
                 sealing, group>>

\* The goroutine joins the group itself and starts the one for the headers.
SealEnters ==
  /\ Running /\ sealing = "entering"
  /\ sealing' = "loop" /\ group' = group + 1 /\ rehasher' = "asleep"
  /\ UNCHANGED <<program, mainAt, interrupted, bench, ending, reporter>>

HeaderChanges ==
  /\ Running /\ rehasher = "asleep"
  /\ rehasher' = "workChanged"
  /\ UNCHANGED <<program, mainAt, interrupted, bench, ending, reporter,
                 sealing, group>>

\* Seal's loop takes a message of either WorkChanged.
TakeChange ==
  /\ Running /\ sealing = "loop"
  /\ \/ bench = "workChanged" /\ bench' = "select" /\ UNCHANGED rehasher
     \/ rehasher = "workChanged" /\ rehasher' = "asleep" /\ UNCHANGED bench
  /\ UNCHANGED <<program, mainAt, interrupted, ending, reporter, sealing,
                 group>>

ReportTime ==
  /\ Running /\ reporter = "asleep"
  /\ reporter' = "polling"
  /\ UNCHANGED <<program, mainAt, interrupted, bench, ending, rehasher,
                 sealing, group>>

ReportEnds ==
  /\ Running /\ reporter = "polling"
  /\ reporter' = "asleep"
  /\ UNCHANGED <<program, mainAt, interrupted, bench, ending, rehasher,
                 sealing, group>>

\* The 600 seconds are over.
TimeIsUp ==
  /\ Running /\ bench = "select"
  /\ bench' = "stopReport" /\ ending' = "completed"
  /\ UNCHANGED <<program, mainAt, interrupted, reporter, rehasher, sealing,
                 group>>

\* reportHashRate takes the message when it is back at its select.
StopReport ==
  /\ Running /\ bench = "stopReport" /\ reporter = "asleep"
  /\ reporter' = "over" /\ bench' = "stopSeal"
  /\ UNCHANGED <<program, mainAt, interrupted, ending, rehasher, sealing,
                 group>>

StopSeal ==
  /\ Running /\ bench = "stopSeal" /\ sealing = "loop"
  /\ sealing' = "aborting" /\ bench' = "wait"
  /\ UNCHANGED <<program, mainAt, interrupted, ending, reporter, rehasher,
                 group>>

\* Mutants of SealReturns: with a second wg.Done, and without any.
SealReturnsTwice ==
  /\ Running /\ sealing = "aborting"
  /\ sealing' = "returned" /\ group' = group - 2
  /\ UNCHANGED <<program, mainAt, interrupted, bench, ending, reporter,
                 rehasher>>

SealReturnsSilently ==
  /\ Running /\ sealing = "aborting"
  /\ sealing' = "returned"
  /\ UNCHANGED <<program, mainAt, interrupted, bench, ending, reporter,
                 rehasher, group>>

SealReturns ==
  /\ Running /\ sealing = "aborting"
  /\ sealing' = "returned" /\ group' = group - 1
  /\ UNCHANGED <<program, mainAt, interrupted, bench, ending, reporter,
                 rehasher>>

\* The device is released.  Only a run that completed tells main.
SealWaitedFor ==
  /\ Running /\ bench = "wait" /\ group = 0
  /\ bench' = IF ending = "aborted" THEN "returned" ELSE "sendStop"
  /\ UNCHANGED <<program, mainAt, interrupted, ending, reporter, rehasher,
                 sealing, group>>
-----------------------------------------------------------------------------
(* main.                                                                   *)

Interrupt ==
  /\ Running /\ ~interrupted /\ mainAt = "select"
  /\ interrupted' = TRUE
  /\ UNCHANGED <<program, mainAt, bench, ending, reporter, rehasher, sealing,
                 group>>

TakeSignal ==
  /\ Running /\ mainAt = "select" /\ interrupted
  /\ mainAt' = "sending" /\ interrupted' = FALSE
  /\ UNCHANGED <<program, bench, ending, reporter, rehasher, sealing, group>>

\* main's message on stopChan ends Benchmark's select.
PassStop ==
  /\ Running /\ mainAt = "sending" /\ bench = "select"
  /\ mainAt' = "sleeping" /\ bench' = "stopReport" /\ ending' = "aborted"
  /\ UNCHANGED <<program, interrupted, reporter, rehasher, sealing, group>>

\* Three seconds later, wherever Benchmark is by then.
MainSlept ==
  /\ Running /\ mainAt = "sleeping"
  /\ program' = "exited"
  /\ UNCHANGED <<mainAt, interrupted, bench, ending, reporter, rehasher,
                 sealing, group>>

\* Benchmark's message on stopChan ends main's select, and main.
TakeStop ==
  /\ Running /\ mainAt = "select" /\ bench = "sendStop"
  /\ program' = "exited" /\ bench' = "returned"
  /\ UNCHANGED <<mainAt, interrupted, ending, reporter, rehasher, sealing,
                 group>>

BenchNext ==
  \/ InitSucceeds \/ InitIsCritical \/ SealEnters \/ HeaderChanges
  \/ TakeChange \/ ReportTime \/ ReportEnds \/ TimeIsUp \/ StopReport
  \/ StopSeal \/ SealReturns \/ SealWaitedFor
  \/ Interrupt \/ TakeSignal \/ PassStop \/ MainSlept \/ TakeStop

MainSteps == TakeSignal \/ PassStop \/ MainSlept \/ TakeStop

BenchSteps ==
  \/ InitSucceeds \/ InitIsCritical \/ (TakeChange /\ bench' # bench)
  \/ TimeIsUp \/ StopReport \/ StopSeal \/ SealWaitedFor

\* OpenCL's initialisation and an aborted Seal end, and time passes.  A
\* message of Benchmark is taken some day by a goroutine that keeps coming
\* back to its select.
BenchFairness ==
  /\ WF_benchVars(MainSteps) /\ SF_benchVars(BenchSteps)
  /\ WF_benchVars(SealEnters \/ SealReturns) /\ WF_benchVars(ReportEnds)

BenchSpec == BenchInit /\ [][BenchNext]_benchVars /\ BenchFairness
-----------------------------------------------------------------------------
(* Properties.                                                             *)

\* main and Benchmark each have a message for the other, and neither is in
\* its select: the signal came after the 600 seconds, before main was told.
Crossed == mainAt = "sending" /\ bench = "sendStop"

\* A benchmark ends the process, when its time is up or after an interrupt,
\* unless the two cross.
BenchmarkEnds == <>(program = "exited" \/ Crossed)
=============================================================================
