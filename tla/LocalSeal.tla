------------------------------ MODULE LocalSeal ------------------------------
(***************************************************************************)
(* The CPU sealer (ethash/sealer.go Seal and mine, ethash.go SetThreads):  *)
(* a call of Seal starts as many mine goroutines as threads says and a     *)
(* runner that waits for a stop, for a solution or for a change of the     *)
(* thread count, upon which it calls Seal again.                           *)
(***************************************************************************)
EXTENDS Integers, FiniteSets

CONSTANTS
  Cpus,       \* runtime.NumCPU(), the count that 0 stands for
  Settings,   \* thread counts that SetThreads may be called with
  Seals,      \* 1..n: calls of Seal, the restarts included (bound)
  MaxSets     \* bound: calls of SetThreads

ASSUME LocalAssumption ==
  /\ Cpus \in Nat \ {0} /\ Settings \subseteq Int /\ Seals \subseteq Nat
  /\ MaxSets \in Nat /\ 1 \in Seals
  /\ \E n \in {Cpus} \union Settings : \A m \in {Cpus} \union Settings : m <= n

VARIABLES
  setting,   \* ethash.threads
  sets,      \* calls of SetThreads so far
  stopClosed,\* the stop channel is closed
  runner,    \* per Seal call: off, spawning, waiting, closing, pending, ended
  planned,   \* per Seal call: goroutines it starts
  aborted,   \* per Seal call: abort is closed
  threads,   \* per Seal call and goroutine: off, search, offer, ended
  delivered, \* solutions received on the results channel
  dropped    \* solutions that nobody received

localVars == <<setting, sets, stopClosed, runner, planned, aborted, threads,
               delivered, dropped>>

MaxThreads == CHOOSE n \in {Cpus} \union Settings :
                \A m \in {Cpus} \union Settings : m <= n
Slots      == 1..MaxThreads

LocalTypeOK ==
  /\ setting \in Settings \union {0} /\ sets \in 0..MaxSets
  /\ stopClosed \in BOOLEAN
  /\ runner \in [Seals -> {"off", "spawning", "waiting", "closing",
                           "pending", "ended"}]
  /\ planned \in [Seals -> 0..MaxThreads]
  /\ aborted \in [Seals -> BOOLEAN]
  /\ threads \in [Seals -> [Slots -> {"off", "search", "offer", "ended"}]]
  /\ delivered \in Nat /\ dropped \in Nat

LocalInit ==
  /\ setting = 0 /\ sets = 0 /\ stopClosed = FALSE
  /\ runner = [s \in Seals |-> "off"]
  /\ planned = [s \in Seals |-> 0]
  /\ aborted = [s \in Seals |-> FALSE]
  /\ threads = [s \in Seals |-> [t \in Slots |-> "off"]]
  /\ delivered = 0 /\ dropped = 0

Phase(s, where) == runner' = [runner EXCEPT ![s] = where]
-----------------------------------------------------------------------------
(* Seal.                                                                   *)

\* Zero stands for every core, a negative count for no mining at all.
ThreadCount == IF setting = 0 THEN Cpus ELSE IF setting < 0 THEN 0 ELSE setting

\* The thread count is read under the lock ...
ReadThreads(s) ==
  /\ planned' = [planned EXCEPT ![s] = ThreadCount]
  /\ Phase(s, "spawning")

\* A caller's Seal; the restarts come from Restart.
SealBlock ==
  /\ \A s \in Seals : runner[s] = "off"
  /\ ReadThreads(1)
  /\ UNCHANGED <<setting, sets, stopClosed, aborted, threads, delivered,
                 dropped>>

\* ... and the goroutines start after it is released, the runner the last.
Spawn(s) ==
  /\ runner[s] = "spawning"
  /\ threads' = [threads EXCEPT ![s] = [t \in Slots |->
                   IF t <= planned[s] THEN "search" ELSE "off"]]
  /\ Phase(s, "waiting")
  /\ UNCHANGED <<setting, sets, stopClosed, planned, aborted, delivered,
                 dropped>>

\* The runner's select: stop is closed.
Stopped(s) ==
  /\ runner[s] = "waiting" /\ stopClosed
  /\ aborted' = [aborted EXCEPT ![s] = TRUE]
  /\ Phase(s, "pending")
  /\ UNCHANGED <<setting, sets, stopClosed, planned, threads, delivered,
                 dropped>>

\* Mutant of Solved: the runner goes back to its select.
SolvedAndWaits(s, t) ==
  /\ runner[s] = "waiting" /\ threads[s][t] = "offer"
  /\ threads' = [threads EXCEPT ![s][t] = "ended"]
  /\ delivered' = delivered + 1
  /\ UNCHANGED <<setting, sets, stopClosed, runner, planned, aborted, dropped>>

\* A goroutine's offer meets the select; the results channel is not waited
\* for.
Solved(s, t) ==
  /\ runner[s] = "waiting" /\ threads[s][t] = "offer"
  /\ threads' = [threads EXCEPT ![s][t] = "ended"]
  /\ \/ delivered' = delivered + 1 /\ UNCHANGED dropped
     \/ dropped' = dropped + 1 /\ UNCHANGED delivered
  /\ aborted' = [aborted EXCEPT ![s] = TRUE]
  /\ Phase(s, "pending")
  /\ UNCHANGED <<setting, sets, stopClosed, planned>>

\* Mutant of Restart: the new goroutines are started, the old ones left.
RestartOnly(s) ==
  /\ runner[s] = "closing" /\ s + 1 \in Seals
  /\ planned' = [planned EXCEPT ![s + 1] = ThreadCount]
  /\ runner' = [runner EXCEPT ![s] = "pending", ![s + 1] = "spawning"]
  /\ UNCHANGED <<setting, sets, stopClosed, aborted, threads, delivered,
                 dropped>>

\* update was received: abort is closed, then Seal called with the same stop.
Restart(s) ==
  /\ runner[s] = "closing" /\ s + 1 \in Seals
  /\ aborted' = [aborted EXCEPT ![s] = TRUE]
  /\ planned' = [planned EXCEPT ![s + 1] = ThreadCount]
  /\ runner' = [runner EXCEPT ![s] = "pending", ![s + 1] = "spawning"]
  /\ UNCHANGED <<setting, sets, stopClosed, threads, delivered, dropped>>

\* pend.Wait.
RunnerEnds(s) ==
  /\ runner[s] = "pending"
  /\ \A t \in Slots : threads[s][t] \in {"off", "ended"}
  /\ Phase(s, "ended")
  /\ UNCHANGED <<setting, sets, stopClosed, planned, aborted, threads,
                 delivered, dropped>>
-----------------------------------------------------------------------------
(* mine.                                                                   *)

ThreadTo(s, t, where) ==
  /\ threads' = [threads EXCEPT ![s][t] = where]
  /\ UNCHANGED <<setting, sets, stopClosed, runner, planned, aborted,
                 delivered, dropped>>

\* A nonce is good, whether or not abort was closed since it was looked at.
Find(s, t) == threads[s][t] = "search" /\ ThreadTo(s, t, "offer")

\* abort is looked at before every nonce and while the block is offered.
Withdraw(s, t) ==
  /\ threads[s][t] \in {"search", "offer"} /\ aborted[s]
  /\ ThreadTo(s, t, "ended")
-----------------------------------------------------------------------------
(* The users of the engine.                                                *)

\* A runner is blocked in its select: nothing has woken it yet.
Parked(s) == /\ runner[s] = "waiting" /\ ~stopClosed
             /\ \A t \in Slots : threads[s][t] # "offer"

\* SetThreads: the ping is lost unless a runner is blocked in its select.
SetThreads(n) ==
  /\ sets < MaxSets /\ sets' = sets + 1
  /\ setting' = n
  /\ \/ \E s \in Seals : Parked(s) /\ s + 1 \in Seals /\ Phase(s, "closing")
     \/ (\A s \in Seals : ~Parked(s)) /\ UNCHANGED runner
  /\ UNCHANGED <<stopClosed, planned, aborted, threads, delivered, dropped>>

StopMining ==
  /\ ~stopClosed /\ stopClosed' = TRUE
  /\ UNCHANGED <<setting, sets, runner, planned, aborted, threads, delivered,
                 dropped>>

LocalNext ==
  \/ SealBlock \/ StopMining
  \/ \E n \in Settings : SetThreads(n)
  \/ \E s \in Seals : Spawn(s) \/ Stopped(s) \/ Restart(s) \/ RunnerEnds(s)
  \/ \E s \in Seals, t \in Slots : Solved(s, t) \/ Find(s, t) \/ Withdraw(s, t)

RunnerMoves(s) ==
  \/ Spawn(s) \/ Stopped(s) \/ Restart(s) \/ RunnerEnds(s)
  \/ \E t \in Slots : Solved(s, t)

\* The goroutines run; that a nonce is found, a stop or a change of the
\* threads comes is not assumed.
LocalFairness ==
  \A s \in Seals :
    /\ WF_localVars(RunnerMoves(s))
    /\ \A t \in Slots : WF_localVars(Withdraw(s, t))

LocalSpec == LocalInit /\ [][LocalNext]_localVars /\ LocalFairness
-----------------------------------------------------------------------------
(* Properties.                                                             *)

\* However often the threads are changed, one block is sealed at most once.
SealedOnce == delivered + dropped <= 1

\* After a stop every goroutine of every restart ends: none keeps offering a
\* block that nobody takes, none was forgotten by a restart.
StopEndsThreads ==
  stopClosed ~> \A s \in Seals :
                  /\ runner[s] \in {"off", "ended"}
                  /\ \A t \in Slots : threads[s][t] \in {"off", "ended"}
=============================================================================
