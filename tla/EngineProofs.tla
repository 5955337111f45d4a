---------------------------- MODULE EngineProofs -----------------------------
(***************************************************************************)
(* Theorems about the parts of the consensus engine in ethash/, each for any *)
(* values of its constants: the sealer that serves remote miners, the sealer *)
(* on the processor, the verification of a batch of headers, and the rules *)
(* that make a chain.                                                      *)
(***************************************************************************)
EXTENDS RemoteSealer, LocalSeal, HeaderBatch, ChainRules, FiniteSetTheorems,
        SequenceTheorems, WellFoundedInduction, TLAPS

------------------------------------------------------------------------------
(***************************************************************************)
(* RemoteSealer: the loop implements WorkRegistry, and an accepted         *)
(* solution was handed over. Both rest on works holding only blocks that   *)
(* the loop received.                                                      *)
(***************************************************************************)

\* The map works holds blocks handed out; the sealer has one current block.
WorksIssued ==
  /\ works \subseteq issued /\ issued \subseteq Tasks
  /\ rates \in [fresh : SUBSET Ids, old : SUBSET Ids]

\* The inductive invariant.
RemoteInv == RemoteTypeOK /\ WorksIssued /\ AcceptedIsTaken

\* What a request and a reply look like.
LEMMA RequestShape ==
  /\ \A r \in Requests : /\ r.op \in {"getWork", "getRate", "submit", "rate"}
                         /\ r.op = "submit" => r.block \in Tasks
                         /\ r.op = "rate" => r.id \in Ids
  /\ \A r \in Replies : r.op = "done" /\ r.block \subseteq Tasks
  /\ Idle.op = "idle"
BY DEF Requests, Replies, Idle

\* A call in progress is a well-formed request of its operation.
LEMMA CallShape ==
  ASSUME RemoteTypeOK, NEW c \in Callers
  PROVE  /\ calls[c].op = "submit" => calls[c].block \in Tasks
         /\ calls[c].op = "rate" => calls[c].id \in Ids
<1>1. calls[c] = Idle \/ calls[c] \in Requests \/ calls[c] \in Replies
  BY DEF RemoteTypeOK
<1> QED BY <1>1, RequestShape

\* A reply to a request is a reply, and leaves the other calls alone.
LEMMA ReplyShape ==
  ASSUME RemoteTypeOK, NEW c \in Callers, NEW ok \in BOOLEAN,
         NEW bs \in SUBSET Tasks, Reply(c, ok, bs),
         calls[c].op \in {"getWork", "getRate", "submit", "rate"}
  PROVE  /\ calls' \in [Callers -> {Idle} \union Requests \union Replies]
         /\ calls'[c] = [op |-> "done", of |-> calls[c].op, ok |-> ok,
                         block |-> bs]
         /\ \A d \in Callers \ {c} : calls'[d] = calls[d]
<1> DEFINE R == [op |-> "done", of |-> calls[c].op, ok |-> ok, block |-> bs]
<1>1. R \in Replies BY DEF Replies
<1>2. calls' = [calls EXCEPT ![c] = R] BY DEF Reply
<1> HIDE DEF R
<1>3. calls' \in [Callers -> {Idle} \union Requests \union Replies]
  BY <1>1, <1>2 DEF RemoteTypeOK
<1>4. calls'[c] = R /\ \A d \in Callers \ {c} : calls'[d] = calls[d]
  BY <1>2 DEF RemoteTypeOK
<1> QED BY <1>3, <1>4 DEF R

\* The initial states satisfy the invariant.
LEMMA RemoteInvInit == ASSUME RemoteInit PROVE RemoteInv
<1>1. RemoteTypeOK
  <2>1. Cardinality(current) = 0 BY FS_EmptySet DEF RemoteInit
  <2>2. notes \in 0..MaxNotes BY RemoteAssumption DEF RemoteInit
  <2>3. calls \in [Callers -> {Idle} \union Requests \union Replies]
    BY DEF RemoteInit
  <2>4. /\ loop \in {"serving", "exiting", "exited"} /\ closing \in BOOLEAN
        /\ current \subseteq Tasks /\ works \subseteq Tasks
        /\ hasRes \in BOOLEAN
    BY DEF RemoteInit
  <2>5. rates.fresh \subseteq Ids /\ rates.old \subseteq Ids
    BY DEF RemoteInit
  <2>6. Cardinality(current) <= 1 BY <2>1
  <2> QED BY <2>2, <2>3, <2>4, <2>5, <2>6 DEF RemoteTypeOK
<1>2. WorksIssued BY DEF RemoteInit, WorksIssued
<1>3. AcceptedIsTaken BY DEF RemoteInit, AcceptedIsTaken, Idle
<1> QED BY <1>1, <1>2, <1>3 DEF RemoteInv

\* A step that changes no call and forgets no solution keeps replies true.
LEMMA RepliesKept ==
  ASSUME AcceptedIsTaken, calls' = calls, taken \subseteq taken'
  PROVE  AcceptedIsTaken'
BY DEF AcceptedIsTaken

\* A reply that accepts only what was taken keeps replies true.
LEMMA ReplyKept ==
  ASSUME AcceptedIsTaken, RemoteTypeOK, NEW c \in Callers,
         NEW ok \in BOOLEAN, NEW bs \in SUBSET Tasks, Reply(c, ok, bs),
         calls[c].op \in {"getWork", "getRate", "submit", "rate"},
         (calls[c].op = "submit" /\ ok) => bs \subseteq taken',
         taken \subseteq taken'
  PROVE  AcceptedIsTaken'
<1> SUFFICES ASSUME NEW d \in Callers,
                    calls'[d].op = "done", calls'[d].of = "submit",
                    calls'[d].ok
             PROVE  calls'[d].block \subseteq taken'
  BY DEF AcceptedIsTaken
<1>1. CASE d = c
  <2> DEFINE R == [op |-> "done", of |-> calls[c].op, ok |-> ok, block |-> bs]
  <2>1. calls'[c] = R BY ReplyShape
  <2>2. R.of = calls[c].op /\ R.block = bs OBVIOUS
  <2>3. R.ok => ok OBVIOUS
  <2> HIDE DEF R
  <2> QED BY <1>1, <2>1, <2>2, <2>3
<1>2. CASE d # c
  <2>1. calls'[d] = calls[d] BY <1>2, ReplyShape
  <2> QED BY <2>1 DEF AcceptedIsTaken
<1> QED BY <1>1, <1>2

\* The loop serves a request.
LEMMA ServeKeeps ==
  ASSUME RemoteInv, NEW c \in Callers, Serve(c)
  PROVE  RemoteInv'
<1> USE DEF RemoteInv
<1>1. CASE ServeGetWork(c)
  <2>1. /\ Reply(c, current # {}, current) /\ calls[c].op = "getWork"
        /\ UNCHANGED <<loop, closing, stateVars>>
    BY <1>1 DEF ServeGetWork
  <2>2. current \in SUBSET Tasks BY DEF RemoteTypeOK
  <2>3. AcceptedIsTaken'
    BY <2>1, <2>2, ReplyKept DEF stateVars
  <2>4. calls' \in [Callers -> {Idle} \union Requests \union Replies]
    BY <2>1, <2>2, ReplyShape
  <2> QED BY <2>1, <2>3, <2>4 DEF RemoteTypeOK, WorksIssued, stateVars
<1>2. CASE ServeSubmit(c)
  <2> DEFINE b == calls[c].block
  <2>1. b \in Tasks /\ calls[c].op = "submit"
    BY <1>2, CallShape DEF ServeSubmit
  <2>2. \E ok \in BOOLEAN : /\ Reply(c, ok, {b}) /\ taken \subseteq taken'
                            /\ ok => b \in taken'
    <3>1. CASE calls[c].valid /\ Acceptable(b)
      <4>1. PICK h \in Handover(b) : Reply(c, h.ok, {b}) /\ taken' = h.taken
        BY <1>2, <3>1 DEF ServeSubmit
      <4>2. /\ h.ok \in BOOLEAN /\ taken \subseteq h.taken
            /\ h.ok => b \in h.taken
        <5>1. CASE h = [ok |-> TRUE, taken |-> taken \union {b}]
          BY <5>1
        <5>2. CASE h = [ok |-> FALSE, taken |-> taken]
          BY <5>2
        <5> QED BY <5>1, <5>2 DEF Handover
      <4>3. /\ Reply(c, h.ok, {b}) /\ taken \subseteq taken'
            /\ h.ok => b \in taken'
        BY <4>1, <4>2
      <4>4. h.ok \in BOOLEAN BY <4>2
      <4> HIDE DEF b
      <4> QED BY <4>3, <4>4 DEF Reply
    <3>2. CASE ~(calls[c].valid /\ Acceptable(b))
      BY <1>2, <3>2 DEF ServeSubmit
    <3> QED BY <3>1, <3>2
  <2>3. PICK ok \in BOOLEAN : /\ Reply(c, ok, {b}) /\ taken \subseteq taken'
                              /\ ok => b \in taken'
    BY <2>2
  <2>4. {b} \in SUBSET Tasks BY <2>1
  <2>5. AcceptedIsTaken' BY <2>1, <2>3, <2>4, ReplyKept
  <2>6. calls' \in [Callers -> {Idle} \union Requests \union Replies]
    BY <2>1, <2>3, <2>4, ReplyShape
  <2> QED BY <1>2, <2>5, <2>6 DEF ServeSubmit, RemoteTypeOK, WorksIssued
<1>3. CASE ServeRate(c)
  <2> DEFINE id == calls[c].id
  <2>1. id \in Ids /\ calls[c].op = "rate"
    BY <1>3, CallShape DEF ServeRate
  <2>2. Reply(c, TRUE, {}) /\ taken' = taken BY <1>3 DEF ServeRate
  <2>3. AcceptedIsTaken' BY <2>1, <2>2, ReplyKept
  <2>4. calls' \in [Callers -> {Idle} \union Requests \union Replies]
    BY <2>1, <2>2, ReplyShape
  <2>5. /\ rates' \in [fresh : SUBSET Ids, old : SUBSET Ids]
        /\ rates'.fresh \subseteq Ids /\ rates'.old \subseteq Ids
    BY <1>3, <2>1 DEF ServeRate, WorksIssued
  <2> QED BY <1>3, <2>3, <2>4, <2>5 DEF ServeRate, RemoteTypeOK, WorksIssued
<1>4. CASE ServeGetRate(c)
  <2>1. /\ Reply(c, TRUE, {}) /\ calls[c].op = "getRate"
        /\ UNCHANGED <<loop, closing, stateVars>>
    BY <1>4 DEF ServeGetRate
  <2>2. AcceptedIsTaken' BY <2>1, ReplyKept DEF stateVars
  <2>3. calls' \in [Callers -> {Idle} \union Requests \union Replies]
    BY <2>1, ReplyShape
  <2> QED BY <2>1, <2>2, <2>3 DEF RemoteTypeOK, WorksIssued, stateVars
<1> QED BY <1>1, <1>2, <1>3, <1>4 DEF Serve

\* A caller calls, is told that the sealer stopped, or goes on.
LEMMA CallerKeeps ==
  ASSUME RemoteInv, NEW c \in Callers,
         Call(c) \/ CallStopped(c) \/ CallReturns(c)
  PROVE  RemoteInv'
<1> USE DEF RemoteInv
<1>1. CASE Call(c)
  <2>1. PICK r \in Requests : calls' = [calls EXCEPT ![c] = r]
    BY <1>1 DEF Call
  <2>2. r.op # "done" BY RequestShape
  <2>3. AcceptedIsTaken'
    BY <1>1, <2>1, <2>2 DEF Call, AcceptedIsTaken, RemoteTypeOK, stateVars
  <2> QED BY <1>1, <2>1, <2>3 DEF Call, RemoteTypeOK, WorksIssued, stateVars
<1>2. CASE CallStopped(c)
  <2>1. /\ Reply(c, FALSE, {}) /\ UNCHANGED <<loop, closing, stateVars>>
        /\ calls[c].op \in {"getWork", "getRate", "submit", "rate"}
    BY <1>2, RequestShape DEF CallStopped
  <2>2. AcceptedIsTaken' BY <2>1, ReplyKept DEF stateVars
  <2>3. calls' \in [Callers -> {Idle} \union Requests \union Replies]
    BY <2>1, ReplyShape
  <2> QED BY <2>1, <2>2, <2>3 DEF RemoteTypeOK, WorksIssued, stateVars
<1>3. CASE CallReturns(c)
  <2>1. calls' = [calls EXCEPT ![c] = Idle] BY <1>3 DEF CallReturns
  <2>2. AcceptedIsTaken'
    BY <1>3, <2>1, RequestShape
       DEF CallReturns, AcceptedIsTaken, RemoteTypeOK, stateVars
  <2> QED BY <1>3, <2>1, <2>2
          DEF CallReturns, RemoteTypeOK, WorksIssued, stateVars
<1> QED BY <1>1, <1>2, <1>3

\* New work: it is in the map and the current block.
LEMMA TaskKeeps ==
  ASSUME RemoteInv, NEW b \in Tasks, TakeTask(b)
  PROVE  RemoteInv'
<1> USE DEF RemoteInv
<1>1. Cardinality({b}) = 1 BY FS_Singleton
<1>2. AcceptedIsTaken' BY RepliesKept DEF TakeTask
<1>3. notes' \in 0..MaxNotes
  BY RemoteAssumption DEF TakeTask, RemoteTypeOK
<1>4. RemoteTypeOK' BY <1>1, <1>3 DEF TakeTask, RemoteTypeOK
<1>5. WorksIssued' BY DEF TakeTask, WorksIssued
<1> QED BY <1>2, <1>4, <1>5

\* Time, the ticker, notifications and the end of the loop.
LEMMA LoopKeeps ==
  ASSUME RemoteInv,
         \/ \E id \in Ids : RateAges(id)
         \/ Tick \/ NotifyEnds \/ Close \/ LoopReturns \/ LoopExits
  PROVE  RemoteInv'
<1> USE DEF RemoteInv
<1>1. calls' = calls /\ taken' = taken
  BY DEF RateAges, Tick, NotifyEnds, Close, LoopReturns, LoopExits, stateVars
<1>2. AcceptedIsTaken' BY <1>1, RepliesKept
<1>3. CASE \E id \in Ids : RateAges(id)
  BY <1>2, <1>3 DEF RateAges, RemoteTypeOK, WorksIssued
<1>4. CASE Tick BY <1>2, <1>4 DEF Tick, RemoteTypeOK, WorksIssued
<1>5. CASE NotifyEnds
  <2>1. notes' \in 0..MaxNotes
    BY <1>5, RemoteAssumption DEF NotifyEnds, RemoteTypeOK
  <2> QED BY <1>2, <1>5, <2>1 DEF NotifyEnds, RemoteTypeOK, WorksIssued
<1>6. CASE Close \/ LoopReturns \/ LoopExits
  BY <1>2, <1>6
     DEF Close, LoopReturns, LoopExits, stateVars, RemoteTypeOK, WorksIssued
<1> QED BY <1>3, <1>4, <1>5, <1>6

\* Every step keeps the invariant.
LEMMA RemoteInvNext ==
  ASSUME RemoteInv, [RemoteNext]_remoteVars PROVE RemoteInv'
<1>1. CASE \E b \in Tasks : TakeTask(b) BY <1>1, TaskKeeps
<1>2. CASE \E c \in Callers : Serve(c) BY <1>2, ServeKeeps
<1>3. CASE \E c \in Callers : Call(c) \/ CallStopped(c) \/ CallReturns(c)
  BY <1>3, CallerKeeps
<1>4. CASE \/ \E id \in Ids : RateAges(id)
           \/ Tick \/ NotifyEnds \/ Close \/ LoopReturns \/ LoopExits
  BY <1>4, LoopKeeps
<1>5. CASE UNCHANGED remoteVars
  BY <1>5 DEF remoteVars, RemoteInv, RemoteTypeOK, WorksIssued,
              AcceptedIsTaken
<1> QED BY <1>1, <1>2, <1>3, <1>4, <1>5 DEF RemoteNext, Serve

\* The map holds only blocks that were handed out, in every reachable state.
THEOREM RemoteInvariance == RemoteSpec => []RemoteInv
<1>1. RemoteInit => RemoteInv BY RemoteInvInit
<1>2. RemoteInv /\ [RemoteNext]_remoteVars => RemoteInv' BY RemoteInvNext
<1> QED BY <1>1, <1>2, PTL DEF RemoteSpec

\* The sealer's state stays in its types.
THEOREM RemoteTypeCorrect == RemoteSpec => []RemoteTypeOK
<1>1. RemoteInv => RemoteTypeOK BY DEF RemoteInv
<1> QED BY <1>1, RemoteInvariance, PTL

\* SubmitWork answers true only for a solution that was handed over.
THEOREM AcceptedIsTakenHolds == RemoteSpec => []AcceptedIsTaken
<1>1. RemoteInv => AcceptedIsTaken BY DEF RemoteInv
<1> QED BY <1>1, RemoteInvariance, PTL

\* Every step of the loop, of a call or of Close is a step of the registry or
\* leaves the registry alone.
LEMMA RegistryStep ==
  ASSUME RemoteInv, [RemoteNext]_remoteVars
  PROVE  [Registry!RegistryNext]_(Registry!registryVars)
<1> USE DEF Registry!RegistryNext, Registry!registryVars
<1>1. ASSUME NEW b \in Tasks, TakeTask(b) PROVE Registry!Issue(b)
  BY <1>1 DEF TakeTask, Registry!Issue
<1>2. ASSUME NEW c \in Callers, ServeSubmit(c)
      PROVE  \/ \E b \in Tasks : Registry!Take(b)
             \/ UNCHANGED Registry!registryVars
  <2> DEFINE b == calls[c].block
  <2>1. b \in Tasks BY <1>2, CallShape DEF ServeSubmit, RemoteInv
  <2>2. CASE taken' = taken
    BY <1>2, <2>2 DEF ServeSubmit
  <2>3. CASE taken' # taken
    <3>1. Acceptable(b) /\ taken' = taken \union {b}
      <4>1. calls[c].valid /\ Acceptable(b) BY <1>2, <2>3 DEF ServeSubmit
      <4>2. PICK h \in Handover(b) : taken' = h.taken
        BY <1>2, <4>1 DEF ServeSubmit
      <4> QED BY <2>3, <4>1, <4>2 DEF Handover
    <3>2. b \in issued BY <3>1 DEF Acceptable, RemoteInv, WorksIssued
    <3>3. Registry!Take(b)
      BY <1>2, <3>1, <3>2 DEF Registry!Take, ServeSubmit, Acceptable
    <3> QED BY <2>1, <3>3
  <2> QED BY <2>2, <2>3
<1>3. ASSUME LoopReturns PROVE Registry!CloseRegistry
  BY <1>3 DEF LoopReturns, Registry!CloseRegistry, stateVars
<1>4. ASSUME LoopExits PROVE UNCHANGED Registry!registryVars
  BY <1>4 DEF LoopExits, stateVars
<1>5. ASSUME \/ \E c \in Callers : \/ ServeGetWork(c) \/ ServeRate(c)
                                   \/ ServeGetRate(c) \/ Call(c)
                                   \/ CallStopped(c) \/ CallReturns(c)
             \/ \E id \in Ids : RateAges(id)
             \/ Tick \/ NotifyEnds \/ Close \/ UNCHANGED remoteVars
      PROVE  UNCHANGED Registry!registryVars
  BY <1>5 DEF ServeGetWork, ServeRate, ServeGetRate, Call, CallStopped,
              CallReturns, RateAges, Tick, NotifyEnds, Close, remoteVars,
              stateVars
<1> QED BY <1>1, <1>2, <1>3, <1>4, <1>5 DEF RemoteNext

\* The loop with its map, its ticker and the racing calls implements the
\* registry that WorkRegistry describes.
THEOREM KeepsRegistryHolds == RemoteSpec => KeepsRegistry
<1>1. RemoteInit => Registry!RegistryInit
  BY DEF RemoteInit, Registry!RegistryInit
<1>2. RemoteInv /\ [RemoteNext]_remoteVars
        => [Registry!RegistryNext]_(Registry!registryVars)
  BY RegistryStep
<1> QED BY <1>1, <1>2, RemoteInvariance, PTL
        DEF RemoteSpec, KeepsRegistry, Registry!RegistrySpec

------------------------------------------------------------------------------
(***************************************************************************)
(* LocalSeal, for any number of cores, thread counts, calls of SetThreads  *)
(* and restarts: one runner at a time can take a solution.                 *)
(***************************************************************************)

\* A runner that can still receive a solution, or start one that can.
Active(s) == runner[s] \in {"spawning", "waiting", "closing"}

\* Restarts hand over: one runner is active, and none after a solution.
OneRunner ==
  /\ runner \in [Seals -> {"off", "spawning", "waiting", "closing",
                           "pending", "ended"}]
  /\ delivered \in Nat /\ dropped \in Nat
  /\ \A s, r \in Seals : Active(s) /\ Active(r) => s = r
  /\ delivered + dropped \in {0, 1}
  /\ delivered + dropped = 1 =>
       /\ \A s \in Seals : ~Active(s)
       /\ \E s \in Seals : runner[s] # "off"

\* A runner moves to another phase, the others stay.
LEMMA PhaseShape ==
  ASSUME OneRunner, NEW s \in Seals,
         NEW where \in {"off", "spawning", "waiting", "closing", "pending",
                        "ended"},
         Phase(s, where)
  PROVE  /\ runner' \in [Seals -> {"off", "spawning", "waiting", "closing",
                                   "pending", "ended"}]
         /\ runner'[s] = where
         /\ \A r \in Seals \ {s} : runner'[r] = runner[r]
BY DEF Phase, OneRunner

\* An active runner that goes to any phase but "off" keeps the others out.
LEMMA PhaseKeeps ==
  ASSUME OneRunner, NEW s \in Seals,
         NEW where \in {"waiting", "closing", "pending", "ended"},
         Phase(s, where), UNCHANGED <<delivered, dropped>>,
         Active(s) \/ where = "ended"
  PROVE  OneRunner'
<1>1. /\ runner' \in [Seals -> {"off", "spawning", "waiting", "closing",
                                "pending", "ended"}]
      /\ runner'[s] = where
      /\ \A r \in Seals \ {s} : runner'[r] = runner[r]
  BY PhaseShape
<1>2. \A r \in Seals : Active(r)' => Active(r)
  BY <1>1 DEF Active
<1>3. \A r \in Seals : runner[r] # "off" => runner'[r] # "off"
  BY <1>1
<1> QED BY <1>1, <1>2, <1>3 DEF OneRunner

\* The first call of Seal finds no runner, so no solution was taken before.
LEMMA SealBlockKeeps == ASSUME OneRunner, SealBlock PROVE OneRunner'
<1>1. /\ Phase(1, "spawning") /\ 1 \in Seals
      /\ \A s \in Seals : runner[s] = "off"
      /\ UNCHANGED <<delivered, dropped>>
  BY LocalAssumption DEF SealBlock, ReadThreads
<1>2. /\ runner' \in [Seals -> {"off", "spawning", "waiting", "closing",
                                "pending", "ended"}]
      /\ \A r \in Seals \ {1} : runner'[r] = "off"
  BY <1>1, PhaseShape
<1>3. delivered + dropped # 1 BY <1>1 DEF OneRunner
<1> QED BY <1>1, <1>2, <1>3 DEF OneRunner, Active

\* A solution is taken by the active runner, which is then active no more.
LEMMA SolvedKeeps ==
  ASSUME OneRunner, NEW s \in Seals, NEW t \in Slots, Solved(s, t)
  PROVE  OneRunner'
<1>1. /\ runner[s] = "waiting" /\ Phase(s, "pending")
      /\ \/ delivered' = delivered + 1 /\ dropped' = dropped
         \/ dropped' = dropped + 1 /\ delivered' = delivered
  BY DEF Solved
<1>2. /\ runner' \in [Seals -> {"off", "spawning", "waiting", "closing",
                                "pending", "ended"}]
      /\ runner'[s] = "pending"
      /\ \A r \in Seals \ {s} : runner'[r] = runner[r]
  BY <1>1, PhaseShape
<1>3. Active(s) BY <1>1 DEF Active
<1>4. \A r \in Seals : ~Active(r)'
  BY <1>2, <1>3 DEF OneRunner, Active
<1>5. delivered + dropped # 1 BY <1>3 DEF OneRunner
<1>6. delivered' + dropped' = 1 /\ delivered' \in Nat /\ dropped' \in Nat
  BY <1>1, <1>5 DEF OneRunner
<1>7. \E r \in Seals : runner'[r] # "off" BY <1>2
<1>8. delivered' + dropped' \in {0, 1} BY <1>6
<1>9. \A r, q \in Seals : Active(r)' /\ Active(q)' => r = q BY <1>4
<1> QED BY <1>2, <1>4, <1>6, <1>7, <1>8, <1>9 DEF OneRunner

\* A restart makes the next runner active and the old one not.
LEMMA RestartKeeps ==
  ASSUME OneRunner, NEW s \in Seals, Restart(s) PROVE OneRunner'
<1>1. /\ runner[s] = "closing" /\ s + 1 \in Seals
      /\ runner' = [runner EXCEPT ![s] = "pending", ![s + 1] = "spawning"]
      /\ UNCHANGED <<delivered, dropped>>
  BY DEF Restart
<1>2. Active(s) BY <1>1 DEF Active
<1>3. s # s + 1 BY LocalAssumption
<1>4. /\ runner' \in [Seals -> {"off", "spawning", "waiting", "closing",
                                "pending", "ended"}]
      /\ runner'[s] = "pending" /\ runner'[s + 1] = "spawning"
      /\ \A r \in Seals \ {s, s + 1} : runner'[r] = runner[r]
  BY <1>1, <1>3 DEF OneRunner
<1>5. \A r \in Seals \ {s + 1} : ~Active(r)'
  BY <1>2, <1>4 DEF OneRunner, Active
<1>6. delivered + dropped # 1 BY <1>2 DEF OneRunner
<1> QED BY <1>1, <1>4, <1>5, <1>6 DEF OneRunner

\* Every step keeps at most one runner active.
LEMMA OneRunnerStep == ASSUME OneRunner, [LocalNext]_localVars PROVE OneRunner'
<1>1. ASSUME NEW n \in Settings, SetThreads(n) PROVE OneRunner'
  <2>1. CASE \E s \in Seals : Parked(s) /\ s + 1 \in Seals
                              /\ Phase(s, "closing")
    <3>1. PICK s \in Seals : Parked(s) /\ Phase(s, "closing") BY <2>1
    <3>2. Active(s) BY <3>1 DEF Parked, Active
    <3>3. UNCHANGED <<delivered, dropped>> BY <1>1 DEF SetThreads
    <3> QED BY <3>1, <3>2, <3>3, PhaseKeeps
  <2>2. CASE UNCHANGED runner
    BY <1>1, <2>2 DEF SetThreads, OneRunner, Active
  <2> QED BY <1>1, <2>1, <2>2 DEF SetThreads
<1>2. ASSUME NEW s \in Seals, Spawn(s) \/ Stopped(s) PROVE OneRunner'
  <2>1. /\ Active(s) /\ UNCHANGED <<delivered, dropped>>
        /\ Phase(s, "waiting") \/ Phase(s, "pending")
    BY <1>2 DEF Spawn, Stopped, Active
  <2> QED BY <2>1, PhaseKeeps
<1>3. ASSUME NEW s \in Seals, RunnerEnds(s) PROVE OneRunner'
  BY <1>3, PhaseKeeps DEF RunnerEnds
<1>4. ASSUME \/ \E s \in Seals, t \in Slots : Find(s, t) \/ Withdraw(s, t)
             \/ StopMining \/ UNCHANGED localVars
      PROVE  OneRunner'
  <2>1. UNCHANGED <<runner, delivered, dropped>>
    BY <1>4 DEF Find, Withdraw, ThreadTo, StopMining, localVars
  <2> QED BY <2>1 DEF OneRunner, Active
<1> QED BY <1>1, <1>2, <1>3, <1>4, SealBlockKeeps, SolvedKeeps, RestartKeeps
        DEF LocalNext

\* However the thread count changes and the restarts race with solutions and
\* the stop, at most one solution of a block is taken.
THEOREM SealedOnceHolds == LocalSpec => []SealedOnce
<1>1. LocalInit => OneRunner BY DEF LocalInit, OneRunner, Active
<1>2. OneRunner /\ [LocalNext]_localVars => OneRunner' BY OneRunnerStep
<1>3. OneRunner => SealedOnce BY DEF OneRunner, SealedOnce
<1> QED BY <1>1, <1>2, <1>3, PTL DEF LocalSpec

\* The greatest thread count bounds what a call of Seal starts.
LEMMA ThreadsFit ==
  ASSUME setting \in Settings \union {0} PROVE ThreadCount \in 0..MaxThreads
<1> DEFINE S == {Cpus} \union Settings
<1>1. \E n \in S : \A m \in S : m <= n BY LocalAssumption
<1>2. MaxThreads \in S /\ \A m \in S : m <= MaxThreads BY <1>1 DEF MaxThreads
<1>3. S \subseteq Int /\ Cpus \in Nat /\ Cpus <= MaxThreads
  BY <1>2, LocalAssumption
<1>4. setting \in Settings => setting <= MaxThreads BY <1>2
<1>5. MaxThreads \in Int BY <1>2, <1>3
<1>6. setting = 0 \/ setting \in Int BY LocalAssumption
<1> HIDE DEF S
<1>7. CASE setting = 0 BY <1>3, <1>5, <1>7 DEF ThreadCount
<1>8. CASE setting # 0
  <2>1. setting \in Settings BY <1>8
  <2> QED BY <1>3, <1>4, <1>5, <1>6, <1>8 DEF ThreadCount
<1> QED BY <1>7, <1>8

\* What a call of Seal and its goroutines keep besides their phases.
Threaded ==
  /\ planned \in [Seals -> 0..MaxThreads]
  /\ aborted \in [Seals -> BOOLEAN]
  /\ threads \in [Seals -> [Slots -> {"off", "search", "offer", "ended"}]]

\* The settings, and a stop once given, are of their types.
Governed ==
  setting \in Settings \union {0} /\ sets \in 0..MaxSets /\ stopClosed \in BOOLEAN

\* The inductive invariant, with the types.
LocalInv == OneRunner /\ Threaded /\ Governed

\* The initial states satisfy the invariant.
LEMMA LocalInitInv == ASSUME LocalInit PROVE LocalInv
<1>1. OneRunner BY DEF LocalInit, OneRunner, Active
<1>2. MaxThreads \in Nat
  <2>1. setting \in Settings \union {0} BY DEF LocalInit
  <2>2. ThreadCount \in 0..MaxThreads BY <2>1, ThreadsFit
  <2>3. ThreadCount = Cpus BY DEF LocalInit, ThreadCount
  <2>4. \E n \in {Cpus} \union Settings :
          \A m \in {Cpus} \union Settings : m <= n
    BY LocalAssumption
  <2>5. MaxThreads \in {Cpus} \union Settings BY <2>4 DEF MaxThreads
  <2> QED BY <2>2, <2>3, <2>5, LocalAssumption
<1>3. Threaded BY <1>2 DEF LocalInit, Threaded
<1>4. Governed
  <2>1. MaxSets \in Nat BY LocalAssumption, Zenon
  <2>2. setting = 0 /\ sets = 0 /\ stopClosed = FALSE BY DEF LocalInit
  <2>3. sets \in 0..MaxSets BY <2>1, <2>2
  <2>4. stopClosed \in BOOLEAN BY <2>2
  <2>5. setting \in Settings \union {0} BY <2>2
  <2> QED BY <2>3, <2>4, <2>5 DEF Governed
<1> QED BY <1>1, <1>3, <1>4 DEF LocalInv

\* A step of a call of Seal keeps the counts and the goroutines typed.
LEMMA SealThreads ==
  ASSUME LocalInv, NEW s \in Seals,
         \/ SealBlock \/ Spawn(s) \/ Stopped(s) \/ Restart(s) \/ RunnerEnds(s)
  PROVE  Threaded' /\ Governed'
<1>1. Threaded /\ Governed BY DEF LocalInv
<1>2. UNCHANGED <<setting, sets, stopClosed>>
  BY DEF SealBlock, Spawn, Stopped, Restart, RunnerEnds
<1>3. Governed' BY <1>1, <1>2 DEF Governed
<1>4. ThreadCount \in 0..MaxThreads BY <1>1, ThreadsFit DEF Governed
<1>5. planned' \in [Seals -> 0..MaxThreads]
  <2>1. \/ planned' = planned
        \/ \E r \in Seals : planned' = [planned EXCEPT ![r] = ThreadCount]
    BY LocalAssumption
    DEF SealBlock, ReadThreads, Spawn, Stopped, Restart, RunnerEnds
  <2> QED BY <1>1, <1>4, <2>1 DEF Threaded
<1>6. aborted' \in [Seals -> BOOLEAN]
  <2>1. aborted' = aborted \/ aborted' = [aborted EXCEPT ![s] = TRUE]
    BY DEF SealBlock, Spawn, Stopped, Restart, RunnerEnds
  <2> QED BY <1>1, <2>1 DEF Threaded
<1>7. threads' \in [Seals -> [Slots -> {"off", "search", "offer", "ended"}]]
  <2>1. \/ threads' = threads
        \/ threads' = [threads EXCEPT ![s] = [t \in Slots |->
                         IF t <= planned[s] THEN "search" ELSE "off"]]
    BY DEF SealBlock, Spawn, Stopped, Restart, RunnerEnds
  <2> QED BY <1>1, <2>1 DEF Threaded
<1> QED BY <1>3, <1>5, <1>6, <1>7 DEF Threaded

\* So does a step of a goroutine that mines.
LEMMA MineThreads ==
  ASSUME LocalInv, NEW s \in Seals, NEW t \in Slots,
         Solved(s, t) \/ Find(s, t) \/ Withdraw(s, t)
  PROVE  Threaded' /\ Governed'
<1>1. Threaded /\ Governed BY DEF LocalInv
<1>2. UNCHANGED <<setting, sets, stopClosed, planned>>
  BY DEF Solved, Find, Withdraw, ThreadTo
<1>3. aborted' = aborted \/ aborted' = [aborted EXCEPT ![s] = TRUE]
  BY DEF Solved, Find, Withdraw, ThreadTo
<1>4. \E where \in {"offer", "ended"} :
        threads' = [threads EXCEPT ![s][t] = where]
  BY DEF Solved, Find, Withdraw, ThreadTo
<1>5. Governed' BY <1>1, <1>2 DEF Governed
<1>6. threads' \in [Seals -> [Slots -> {"off", "search", "offer", "ended"}]]
  BY <1>1, <1>4 DEF Threaded
<1>7. aborted' \in [Seals -> BOOLEAN] BY <1>1, <1>3 DEF Threaded
<1>8. Threaded' BY <1>1, <1>2, <1>6, <1>7 DEF Threaded
<1> QED BY <1>5, <1>8

\* Every step keeps the invariant.
LEMMA LocalStep == ASSUME LocalInv, [LocalNext]_localVars PROVE LocalInv'
<1>1. OneRunner' BY OneRunnerStep DEF LocalInv
<1>2. ASSUME NEW n \in Settings, SetThreads(n) PROVE Threaded' /\ Governed'
  BY <1>2, LocalAssumption DEF SetThreads, LocalInv, Threaded, Governed
<1>3. ASSUME StopMining \/ UNCHANGED localVars PROVE Threaded' /\ Governed'
  BY <1>3 DEF StopMining, localVars, LocalInv, Threaded, Governed
<1>4. 1 \in Seals BY LocalAssumption
<1>5. Threaded' /\ Governed'
  BY <1>2, <1>3, <1>4, SealThreads, MineThreads DEF LocalNext
<1> QED BY <1>1, <1>5 DEF LocalInv

\* The invariant keeps the types.
LEMMA LocalTypesFollow == LocalInv => LocalTypeOK
BY DEF LocalInv, OneRunner, Threaded, Governed, LocalTypeOK

\* No call of Seal starts more goroutines than there are slots for.
THEOREM LocalTypeCorrect == LocalSpec => []LocalTypeOK
<1>1. LocalInit => LocalInv BY LocalInitInv
<1>2. LocalInv /\ [LocalNext]_localVars => LocalInv' BY LocalStep
<1>3. LocalInv => LocalTypeOK BY LocalTypesFollow
<1> QED BY <1>1, <1>2, <1>3, PTL DEF LocalSpec

\* A goroutine of a call of Seal has a nonce to look for or a block to offer.
Mines(s, t) == threads[s][t] \in {"search", "offer"}

\* Goroutines mine only under a runner that waits, or that has closed their
\* abort; a runner that was told to restart has a call of Seal to go to, and
\* the calls after an active one are not made yet.
Tended ==
  /\ \A s \in Seals : runner[s] \in {"off", "spawning", "ended"} =>
                      \A t \in Slots : ~Mines(s, t)
  /\ \A s \in Seals : runner[s] = "pending" => aborted[s]
  /\ \A s \in Seals : runner[s] = "closing" => s + 1 \in Seals
  /\ \A s, r \in Seals : Active(s) /\ s < r => runner[r] = "off"

\* The invariant with what the runners do for their goroutines.
LocalTended == LocalInv /\ Tended

\* A runner goes on to another phase that is not "off"; what it needs there is
\* given.
LEMMA TendedPhase ==
  ASSUME LocalTended, NEW s \in Seals, runner[s] # "off",
         NEW where \in {"waiting", "closing", "pending", "ended"},
         Phase(s, where), Active(s) \/ where = "ended",
         where = "pending" => aborted'[s], where = "closing" => s + 1 \in Seals,
         where = "ended" => \A t \in Slots : ~Mines(s, t)',
         \A r \in Seals : r = s \/ /\ aborted[r] => aborted'[r]
                                   /\ threads'[r] = threads[r]
  PROVE  Tended'
<1>1. OneRunner /\ Tended BY DEF LocalTended, LocalInv
<1>2. /\ runner'[s] = where
      /\ \A r \in Seals \ {s} : runner'[r] = runner[r]
  BY <1>1, PhaseShape
<1>3. \A r \in Seals : Active(r)' => Active(r) BY <1>2 DEF Active
<1>4. \A r \in Seals : runner'[r] \in {"off", "spawning", "ended"} =>
                       \A t \in Slots : ~Mines(r, t)'
  BY <1>1, <1>2 DEF Tended, Mines
<1>5. \A r \in Seals : runner'[r] = "pending" => aborted'[r]
  BY <1>1, <1>2 DEF Tended
<1>6. \A r \in Seals : runner'[r] = "closing" => r + 1 \in Seals
  BY <1>1, <1>2 DEF Tended
<1>7. \A q, r \in Seals : Active(q)' /\ q < r => runner'[r] = "off"
  BY <1>1, <1>2, <1>3 DEF Tended
<1> QED BY <1>4, <1>5, <1>6, <1>7 DEF Tended

\* The first call of Seal, and one that follows a call that is aborted: no
\* goroutine mines for it yet.
LEMMA TendedSeal ==
  ASSUME LocalTended, NEW s \in Seals, SealBlock \/ Restart(s) PROVE Tended'
<1>1. OneRunner /\ Tended /\ Threaded BY DEF LocalTended, LocalInv
<1>2. threads' = threads BY DEF SealBlock, Restart
<1>3. CASE SealBlock
  <2>1. /\ Phase(1, "spawning") /\ 1 \in Seals /\ aborted' = aborted
        /\ \A r \in Seals : runner[r] = "off"
    BY <1>3, LocalAssumption DEF SealBlock, ReadThreads
  <2>2. runner'[1] = "spawning" /\ \A r \in Seals \ {1} : runner'[r] = "off"
    BY <1>1, <2>1, PhaseShape
  <2>3. \A r \in Seals, t \in Slots : ~Mines(r, t)'
    BY <1>1, <1>2, <2>1 DEF Tended, Mines
  <2>4. \A q, r \in Seals : Active(q)' /\ q < r => runner'[r] = "off"
    BY <2>2 DEF Active
  <2> QED BY <2>2, <2>3, <2>4 DEF Tended
<1>4. CASE Restart(s)
  <2>1. /\ runner[s] = "closing" /\ s + 1 \in Seals
        /\ runner' = [runner EXCEPT ![s] = "pending", ![s + 1] = "spawning"]
        /\ aborted' = [aborted EXCEPT ![s] = TRUE]
    BY <1>4 DEF Restart
  <2>2. s \in Nat /\ s # s + 1 /\ Seals \subseteq Nat BY LocalAssumption
  <2>3. /\ runner'[s] = "pending" /\ runner'[s + 1] = "spawning"
        /\ \A r \in Seals \ {s, s + 1} : runner'[r] = runner[r]
    BY <1>1, <2>1, <2>2 DEF OneRunner
  <2>4. /\ Active(s) /\ \A r \in Seals : s < r => runner[r] = "off"
    BY <1>1, <2>1 DEF Active, Tended
  <2>5. runner[s + 1] = "off" BY <2>1, <2>2, <2>4
  <2>6. \A r \in Seals : runner'[r] \in {"off", "spawning", "ended"} =>
                         \A t \in Slots : ~Mines(r, t)'
    BY <1>1, <1>2, <2>3, <2>5 DEF Tended, Mines
  <2>7. \A r \in Seals : runner'[r] = "pending" => aborted'[r]
    BY <1>1, <2>1, <2>3 DEF Tended, Threaded
  <2>8. \A r \in Seals : runner'[r] = "closing" => r + 1 \in Seals
    BY <1>1, <2>3 DEF Tended
  <2>9. \A r \in Seals : Active(r)' => r = s + 1
    BY <1>1, <2>3, <2>4 DEF Active, OneRunner
  <2>10. \A r \in Seals : s + 1 < r => runner'[r] = "off"
    BY <2>2, <2>3, <2>4
  <2>11. \A q, r \in Seals : Active(q)' /\ q < r => runner'[r] = "off"
    BY <2>9, <2>10
  <2> QED BY <2>6, <2>7, <2>8, <2>11 DEF Tended
<1> QED BY <1>3, <1>4

\* A runner starts its goroutines, is woken, or ends after them.
LEMMA TendedRunner ==
  ASSUME LocalTended, NEW s \in Seals, Spawn(s) \/ Stopped(s) \/ RunnerEnds(s)
  PROVE  Tended'
<1>1. OneRunner /\ Tended /\ Threaded BY DEF LocalTended, LocalInv
<1>2. CASE Spawn(s)
  <2>1. /\ Active(s) /\ Phase(s, "waiting") /\ aborted' = aborted
        /\ runner[s] # "off"
    BY <1>2 DEF Spawn, Active
  <2>2. \A r \in Seals \ {s} : threads'[r] = threads[r]
    BY <1>1, <1>2 DEF Spawn, Threaded
  <2> QED BY <2>1, <2>2, TendedPhase
<1>3. CASE Stopped(s)
  <2>1. /\ Active(s) /\ Phase(s, "pending") /\ threads' = threads
        /\ aborted' = [aborted EXCEPT ![s] = TRUE] /\ runner[s] # "off"
    BY <1>3 DEF Stopped, Active
  <2>2. aborted'[s] /\ \A r \in Seals \ {s} : aborted'[r] = aborted[r]
    BY <1>1, <2>1 DEF Threaded
  <2> QED BY <2>1, <2>2, TendedPhase
<1>4. CASE RunnerEnds(s)
  <2>1. /\ Phase(s, "ended") /\ UNCHANGED <<aborted, threads>>
        /\ runner[s] # "off"
        /\ \A t \in Slots : ~Mines(s, t)
    BY <1>4 DEF RunnerEnds, Mines
  <2>2. \A t \in Slots : ~Mines(s, t)' BY <2>1 DEF Mines
  <2> QED BY <2>1, <2>2, TendedPhase
<1> QED BY <1>2, <1>3, <1>4

\* A goroutine finds a nonce or withdraws, or its block is taken.
LEMMA TendedMine ==
  ASSUME LocalTended, NEW s \in Seals, NEW t \in Slots,
         Solved(s, t) \/ Find(s, t) \/ Withdraw(s, t)
  PROVE  Tended'
<1>1. OneRunner /\ Tended /\ Threaded BY DEF LocalTended, LocalInv
<1>2. PICK where \in {"offer", "ended"} :
        threads' = [threads EXCEPT ![s][t] = where]
  BY DEF Solved, Find, Withdraw, ThreadTo
<1>3. /\ \A r \in Seals \ {s} : threads'[r] = threads[r]
      /\ \A u \in Slots : threads'[s][u] = IF u = t THEN where
                                           ELSE threads[s][u]
  BY <1>1, <1>2 DEF Threaded
<1>4. CASE Solved(s, t)
  <2>1. /\ Active(s) /\ Phase(s, "pending") /\ runner[s] # "off"
        /\ aborted' = [aborted EXCEPT ![s] = TRUE]
    BY <1>4 DEF Solved, Active
  <2>2. aborted'[s] /\ \A r \in Seals \ {s} : aborted'[r] = aborted[r]
    BY <1>1, <2>1 DEF Threaded
  <2> QED BY <1>3, <2>1, <2>2, TendedPhase
<1>5. CASE Find(s, t) \/ Withdraw(s, t)
  <2>1. UNCHANGED <<runner, aborted>> /\ Mines(s, t)
    BY <1>5 DEF Find, Withdraw, ThreadTo, Mines
  <2>2. runner[s] \notin {"off", "spawning", "ended"}
    BY <1>1, <2>1 DEF Tended
  <2>3. \A r \in Seals : runner[r] \in {"off", "spawning", "ended"} =>
                         \A u \in Slots : ~Mines(r, u)'
    BY <1>1, <1>3, <2>2 DEF Tended, Mines
  <2>4. \A r \in Seals : Active(r)' <=> Active(r) BY <2>1 DEF Active
  <2> QED BY <1>1, <2>1, <2>3, <2>4 DEF Tended
<1> QED BY <1>4, <1>5

\* SetThreads wakes a parked runner, if it meets one.
LEMMA TendedSetThreads ==
  ASSUME LocalTended, NEW n \in Settings, SetThreads(n) PROVE Tended'
<1>1. UNCHANGED <<aborted, threads>> BY DEF SetThreads
<1>2. CASE \E s \in Seals : Parked(s) /\ s + 1 \in Seals
                            /\ Phase(s, "closing")
  <2>1. PICK s \in Seals : Parked(s) /\ s + 1 \in Seals /\ Phase(s, "closing")
    BY <1>2
  <2>2. Active(s) /\ runner[s] # "off" BY <2>1 DEF Parked, Active
  <2> QED BY <1>1, <2>1, <2>2, TendedPhase
<1>3. CASE UNCHANGED runner
  <2>1. Tended BY DEF LocalTended
  <2> QED BY <1>1, <1>3, <2>1 DEF Tended, Mines, Active
<1> QED BY <1>2, <1>3 DEF SetThreads

\* Every step keeps the invariant.
LEMMA TendedStep ==
  ASSUME LocalTended, [LocalNext]_localVars PROVE LocalTended'
<1>1. LocalInv' BY LocalStep DEF LocalTended
<1>2. ASSUME StopMining \/ UNCHANGED localVars PROVE Tended'
  <2>1. UNCHANGED <<runner, aborted, threads>>
    BY <1>2 DEF StopMining, localVars
  <2>2. Tended BY DEF LocalTended
  <2> QED BY <2>1, <2>2 DEF Tended, Mines, Active
<1>3. 1 \in Seals BY LocalAssumption
<1>4. Tended'
  BY <1>2, <1>3, TendedSeal, TendedRunner, TendedMine, TendedSetThreads
  DEF LocalNext
<1> QED BY <1>1, <1>4 DEF LocalTended

\* Nobody mines at first.
LEMMA TendedInit == LocalInit => LocalTended
<1>1. LocalInit => LocalInv BY LocalInitInv
<1>2. LocalInit => Tended BY DEF LocalInit, Tended, Mines, Active
<1> QED BY <1>1, <1>2 DEF LocalTended

\* The invariant holds throughout.
THEOREM LocalTendedHolds == LocalSpec => []LocalTended
BY TendedInit, TendedStep, PTL DEF LocalSpec

\* A goroutine that mines has a runner that will let it go: one that waits for
\* its block, one that restarts, or one that has closed its abort.
NobodyForgotten ==
  \A s \in Seals, t \in Slots :
    Mines(s, t) => \/ runner[s] = "waiting"
                   \/ runner[s] = "closing" /\ s + 1 \in Seals
                   \/ runner[s] = "pending" /\ aborted[s]

\* After a stop every call of Seal is over, or something of it can step: its
\* runner, or a goroutine that sees abort closed.
StopProgresses ==
  stopClosed =>
    \A s \in Seals :
      \/ /\ runner[s] \in {"off", "ended"}
         /\ \A t \in Slots : threads[s][t] \in {"off", "ended"}
      \/ runner[s] \in {"spawning", "waiting"}
      \/ runner[s] = "closing" /\ s + 1 \in Seals
      \/ runner[s] = "pending"
         /\ \A t \in Slots : threads[s][t] \in {"off", "ended"}
      \/ aborted[s] /\ \E t \in Slots : Mines(s, t)

\* Each goroutine mines for its own call of Seal, which the invariant tends.
LEMMA TendedForgetsNobody == LocalTended => NobodyForgotten
BY DEF LocalTended, LocalInv, OneRunner, Tended, NobodyForgotten

\* No restart leaves goroutines behind that nobody will stop, though each of
\* them leaves its own mining on an abort channel of its own.
THEOREM NobodyForgottenHolds == LocalSpec => []NobodyForgotten
BY TendedForgetsNobody, LocalTendedHolds, PTL

\* When a goroutine is left after a stop, its abort is closed or its runner is
\* still to act.
LEMMA TendedProgresses == LocalTended => StopProgresses
<1> SUFFICES ASSUME LocalTended, NEW s \in Seals
             PROVE  \/ /\ runner[s] \in {"off", "ended"}
                       /\ \A t \in Slots : threads[s][t] \in {"off", "ended"}
                    \/ runner[s] \in {"spawning", "waiting"}
                    \/ runner[s] = "closing" /\ s + 1 \in Seals
                    \/ runner[s] = "pending"
                       /\ \A t \in Slots : threads[s][t] \in {"off", "ended"}
                    \/ aborted[s] /\ \E t \in Slots : Mines(s, t)
  BY DEF StopProgresses
<1>1. \A t \in Slots : Mines(s, t) \/ threads[s][t] \in {"off", "ended"}
  BY DEF LocalTended, LocalInv, Threaded, Mines
<1>2. runner[s] \in {"off", "spawning", "waiting", "closing", "pending",
                     "ended"}
  BY DEF LocalTended, LocalInv, OneRunner
<1> QED BY <1>1, <1>2 DEF LocalTended, Tended

\* A stop never gets stuck half way through the calls of Seal it ends.
THEOREM StopProgressesHolds == LocalSpec => []StopProgresses
BY TendedProgresses, LocalTendedHolds, PTL

------------------------------------------------------------------------------
(***************************************************************************)
(* HeaderBatch: the caller gets the verdicts in the order of the headers.  *)
(* An index is checked only when its verdict is in errs, and all below out *)
(* are checked.                                                            *)
(***************************************************************************)

\* Between two bounds there is a first index that is not checked, or the end.
LEMMA FirstGap ==
  ASSUME NEW a \in Nat, NEW m \in Nat, a <= m, NEW ck
  PROVE  \E n \in a..m : /\ \A i \in a..(n - 1) : ck[i]
                         /\ n = m \/ ~ck[n]
<1> DEFINE R == OpToRel(<, Nat)
           T == {n \in a..m : n = m \/ ~ck[n]}
<1>1. IsWellFoundedOn(R, Nat) BY NatLessThanWellFounded
<1>2. \A x, y \in Nat : x < y => <<x, y>> \in R BY DEF OpToRel
<1>3. m \in T /\ T \subseteq Nat /\ T \subseteq a..m OBVIOUS
<1> HIDE DEF R, T
<1>4. PICK n \in T : \A y \in T : ~(<<y, n>> \in R)
  BY <1>1, <1>3, WFMin
<1>5. ASSUME NEW i \in a..(n - 1) PROVE ck[i]
  <2>1. i \in Nat /\ n \in Nat /\ i < n /\ i \in a..m BY <1>3
  <2>2. i \notin T BY <1>2, <1>4, <2>1
  <2> QED BY <2>1, <2>2 DEF T
<1>6. n \in a..m /\ (n = m \/ ~ck[n]) BY DEF T
<1> QED BY <1>5, <1>6

\* What Gather sends: emitted, and then the values of f from a to n - 1.
Extend(em, f, a, n) == em \o SubSeq(f, a, n - 1)

\* A sequence that ends below a, extended by the values of f from a to n - 1.
LEMMA Extended ==
  ASSUME NEW S, NEW em \in Seq(S), NEW a \in Nat \ {0}, NEW n \in Nat,
         Len(em) = a - 1, a <= n, NEW f, \A i \in a..(n - 1) : f[i] \in S
  PROVE  /\ Extend(em, f, a, n) \in Seq(S)
         /\ Len(Extend(em, f, a, n)) = n - 1
         /\ \A i \in 1..(n - 1) :
              Extend(em, f, a, n)[i] = IF i < a THEN em[i] ELSE f[i]
<1> USE DEF Extend
<1> DEFINE m == n - 1
           part == SubSeq(f, a, m)
           out == em \o part
<1>1. m \in Int /\ a \in Int OBVIOUS
<1>2. \A i \in a..m : f[i] \in S OBVIOUS
<1>3. m - a + 1 = n - a OBVIOUS
<1>4. n - a \in Nat OBVIOUS
<1>5. IF a <= m THEN m - a + 1 = n - a ELSE n - a = 0 OBVIOUS
<1> HIDE DEF m
<1>6. /\ part \in Seq(S)
      /\ Len(part) = IF a <= m THEN m - a + 1 ELSE 0
      /\ \A i \in 1..(m - a + 1) : part[i] = f[a + i - 1]
  BY <1>1, <1>2, SubSeqProperties
<1>7. Len(part) = n - a BY <1>5, <1>6
<1>8. \A i \in 1..(n - a) : part[i] = f[a + i - 1] BY <1>3, <1>6
<1> HIDE DEF part
<1>9. /\ out \in Seq(S) /\ Len(out) = Len(em) + Len(part)
      /\ \A i \in 1..(Len(em) + Len(part)) :
           out[i] = IF i <= Len(em) THEN em[i] ELSE part[i - Len(em)]
  BY <1>6, ConcatProperties
<1>10. Len(em) + Len(part) = n - 1 BY <1>7
<1> HIDE DEF out
<1>11. ASSUME NEW i \in 1..(n - 1)
       PROVE  out[i] = IF i < a THEN em[i] ELSE f[i]
  <2>1. out[i] = IF i <= Len(em) THEN em[i] ELSE part[i - Len(em)]
    BY <1>9, <1>10
  <2>2. CASE i < a
    <3>1. i <= Len(em) BY <2>2
    <3> QED BY <2>1, <2>2, <3>1
  <2>3. CASE ~(i < a)
    <3>1. /\ ~(i <= Len(em)) /\ i - Len(em) = i - a + 1
          /\ i - a + 1 \in 1..(n - a) /\ a + (i - a + 1) - 1 = i
      BY <2>3
    <3>2. part[i - a + 1] = f[a + (i - a + 1) - 1] BY <1>8, <3>1
    <3> QED BY <2>1, <2>3, <3>1, <3>2
  <2> QED BY <2>2, <2>3
<1> QED BY <1>9, <1>10, <1>11 DEF out, part, m

\* The positions of the headers, and what errs holds for them.
Inputs == 1..Size
Verdicts == Outcomes \union {"unset"}

\* The verdict of a header.
Verdict(i) == Outcome(batch[i])

\* The shape of the state.
BatchShape ==
  /\ Size \in Nat
  /\ nextIn \in 1..(Size + 1) /\ nextOut \in 1..(Size + 1)
  /\ verifiers \in [Crew(batch) -> [pc : {"idle", "verify", "report", "gone"},
                                    i : 0..Size]]
  /\ doneQ \in Seq(Inputs)
  /\ errs \in [Inputs -> Verdicts] /\ checked \in [Inputs -> BOOLEAN]
  /\ emitted \in Seq(Verdicts) /\ Len(emitted) = nextOut - 1

\* Wherever an index is on its way back, its verdict is in errs.
VerdictsIn ==
  /\ \A w \in Crew(batch) :
       /\ verifiers[w].pc \in {"verify", "report"} => verifiers[w].i \in Inputs
       /\ verifiers[w].pc = "report" =>
            errs[verifiers[w].i] = Verdict(verifiers[w].i)
  /\ \A k \in 1..Len(doneQ) : errs[doneQ[k]] = Verdict(doneQ[k])
  /\ \A i \in Inputs : checked[i] => errs[i] = Verdict(i)

\* All that was sent to the caller had been checked.
Sent == \A i \in Inputs : i < nextOut => checked[i]

\* The inductive invariant.
BatchInv == BatchShape /\ VerdictsIn /\ Sent /\ InHeaderOrder

\* The initial states satisfy the invariant.
LEMMA BatchInitInv == ASSUME BatchInit PROVE BatchInv
<1>1. Size \in Nat
  <2>1. batch \in Seq(HeaderInfo) BY BatchAssumption DEF BatchInit
  <2> QED BY <2>1, LenProperties DEF Size
<1>2. /\ nextIn \in 1..(Size + 1) /\ nextOut \in 1..(Size + 1)
      /\ errs \in [Inputs -> Verdicts] /\ checked \in [Inputs -> BOOLEAN]
      /\ verifiers \in [Crew(batch) -> [pc : {"idle", "verify", "report",
                                              "gone"}, i : 0..Size]]
  BY <1>1 DEF BatchInit, Inputs, Verdicts
<1>3. doneQ \in Seq(Inputs) /\ emitted \in Seq(Verdicts) /\ Len(doneQ) = 0
      /\ Len(emitted) = 0
  BY EmptySeq DEF BatchInit
<1>4. nextOut = 1 BY DEF BatchInit
<1>5. BatchShape BY <1>1, <1>2, <1>3, <1>4 DEF BatchShape
<1>6. VerdictsIn BY <1>3 DEF BatchInit, VerdictsIn, Inputs
<1>7. Sent BY <1>1, <1>4 DEF Sent, Inputs
<1>8. InHeaderOrder BY <1>3 DEF InHeaderOrder
<1> QED BY <1>5, <1>6, <1>7, <1>8 DEF BatchInv

\* A worker stores a verdict; the ones that were in errs stay.
LEMMA VerifyKeeps ==
  ASSUME BatchInv, NEW w \in Crew(batch), VerifyOne(w) PROVE BatchInv'
<1> USE DEF BatchInv
<1> DEFINE j == verifiers[w].i
<1>1. /\ verifiers[w].pc = "verify" /\ errs' = [errs EXCEPT ![j] = Verdict(j)]
      /\ verifiers' = [verifiers EXCEPT ![w].pc = "report"]
      /\ UNCHANGED <<batch, nextIn, nextOut, doneQ, checked, emitted>>
  BY DEF VerifyOne, Verdict
<1>2. j \in Inputs BY <1>1 DEF VerdictsIn
<1>3. Verdict(j) \in Verdicts BY DEF Verdict, Outcome, Verdicts, Outcomes
<1>4. Size' = Size /\ Inputs' = Inputs /\ \A i : Verdict(i)' = Verdict(i)
  BY <1>1 DEF Size, Inputs, Verdict
<1>5. errs' \in [Inputs -> Verdicts] BY <1>1, <1>3 DEF BatchShape
<1>6. \A i \in Inputs : errs[i] = Verdict(i) \/ i = j => errs'[i] = Verdict(i)
  BY <1>1, <1>2 DEF BatchShape
<1>7. /\ verifiers' \in [Crew(batch) -> [pc : {"idle", "verify", "report",
                                               "gone"}, i : 0..Size]]
      /\ verifiers'[w].pc = "report" /\ verifiers'[w].i = j
      /\ \A v \in Crew(batch) \ {w} : verifiers'[v] = verifiers[v]
  BY <1>1 DEF BatchShape
<1>8. BatchShape' BY <1>1, <1>4, <1>5, <1>7 DEF BatchShape
<1>9. \A k \in 1..Len(doneQ) : doneQ[k] \in Inputs
  BY ElementOfSeq DEF BatchShape
<1>10. VerdictsIn'
  <2>1. ASSUME NEW v \in Crew(batch)
        PROVE  /\ verifiers'[v].pc \in {"verify", "report"}
                    => verifiers'[v].i \in Inputs
               /\ verifiers'[v].pc = "report" =>
                    errs'[verifiers'[v].i] = Verdict(verifiers'[v].i)
    BY <1>2, <1>6, <1>7 DEF VerdictsIn
  <2>2. \A k \in 1..Len(doneQ) : errs'[doneQ[k]] = Verdict(doneQ[k])
    BY <1>6, <1>9 DEF VerdictsIn
  <2>3. \A i \in Inputs : checked[i] => errs'[i] = Verdict(i)
    BY <1>6 DEF VerdictsIn
  <2> QED BY <1>1, <1>4, <2>1, <2>2, <2>3 DEF VerdictsIn
<1>11. Sent' /\ InHeaderOrder' BY <1>1, <1>4 DEF Sent, InHeaderOrder
<1> QED BY <1>8, <1>10, <1>11

\* A worker that is done passes its index on, takes another or ends.
LEMMA VerifierKeeps ==
  ASSUME BatchInv, NEW w \in Crew(batch),
         ReportDone(w) \/ VerifierEnds(w) \/ HandOut(w)
  PROVE  BatchInv'
<1> USE DEF BatchInv
<1>1. /\ UNCHANGED <<batch, nextOut, errs, checked, emitted>>
  BY DEF ReportDone, VerifierEnds, HandOut
<1>2. Size' = Size /\ Inputs' = Inputs /\ \A i : Verdict(i)' = Verdict(i)
  BY <1>1 DEF Size, Inputs, Verdict
<1>3. Sent' /\ InHeaderOrder' BY <1>1, <1>2 DEF Sent, InHeaderOrder
<1>4. CASE ReportDone(w)
  <2> DEFINE j == verifiers[w].i
  <2>1. /\ verifiers[w].pc = "report" /\ doneQ' = Append(doneQ, j)
        /\ verifiers' = [verifiers EXCEPT ![w] = [pc |-> "idle", i |-> 0]]
        /\ nextIn' = nextIn
    BY <1>4 DEF ReportDone
  <2>2. j \in Inputs /\ errs[j] = Verdict(j) BY <2>1 DEF VerdictsIn
  <2>3. /\ doneQ' \in Seq(Inputs) /\ Len(doneQ') = Len(doneQ) + 1
        /\ \A k \in 1..Len(doneQ) : doneQ'[k] = doneQ[k]
        /\ doneQ'[Len(doneQ) + 1] = j
    BY <2>1, <2>2 DEF BatchShape
  <2>4. /\ verifiers' \in [Crew(batch) -> [pc : {"idle", "verify", "report",
                                                 "gone"}, i : 0..Size]]
        /\ verifiers'[w].pc = "idle"
        /\ \A v \in Crew(batch) \ {w} : verifiers'[v] = verifiers[v]
    BY <2>1 DEF BatchShape
  <2>5. BatchShape' BY <1>1, <1>2, <2>1, <2>3, <2>4 DEF BatchShape
  <2>6. \A k \in 1..Len(doneQ') : errs[doneQ'[k]] = Verdict(doneQ'[k])
    <3>1. Len(doneQ) \in Nat BY LenProperties DEF BatchShape
    <3>2. ASSUME NEW k \in 1..Len(doneQ')
          PROVE  errs[doneQ'[k]] = Verdict(doneQ'[k])
      <4>1. k \in 1..Len(doneQ) \/ k = Len(doneQ) + 1 BY <2>3, <3>1
      <4>2. CASE k \in 1..Len(doneQ) BY <2>3, <4>2 DEF VerdictsIn
      <4>3. CASE k = Len(doneQ) + 1 BY <2>2, <2>3, <4>3
      <4> QED BY <4>1, <4>2, <4>3
    <3> QED BY <3>2
  <2>7. VerdictsIn' BY <1>1, <1>2, <2>4, <2>6 DEF VerdictsIn
  <2> QED BY <1>3, <2>5, <2>7
<1>5. CASE VerifierEnds(w)
  <2>1. /\ verifiers' = [verifiers EXCEPT ![w].pc = "gone"]
        /\ UNCHANGED <<nextIn, doneQ>>
    BY <1>5 DEF VerifierEnds
  <2>2. /\ verifiers' \in [Crew(batch) -> [pc : {"idle", "verify", "report",
                                                 "gone"}, i : 0..Size]]
        /\ verifiers'[w].pc = "gone"
        /\ \A v \in Crew(batch) \ {w} : verifiers'[v] = verifiers[v]
    BY <2>1 DEF BatchShape
  <2>3. BatchShape' BY <1>1, <1>2, <2>1, <2>2 DEF BatchShape
  <2>4. VerdictsIn' BY <1>1, <1>2, <2>1, <2>2 DEF VerdictsIn
  <2> QED BY <1>3, <2>3, <2>4
<1>6. CASE HandOut(w)
  <2>1. /\ nextIn <= Size /\ nextIn' = nextIn + 1 /\ doneQ' = doneQ
        /\ verifiers' = [verifiers EXCEPT ![w] = [pc |-> "verify",
                                                  i |-> nextIn]]
    BY <1>6 DEF HandOut, MoreInputs
  <2>2. nextIn \in Inputs /\ nextIn \in 0..Size /\ nextIn' \in 1..(Size + 1)
    BY <2>1 DEF BatchShape, Inputs
  <2>3. /\ verifiers' \in [Crew(batch) -> [pc : {"idle", "verify", "report",
                                                 "gone"}, i : 0..Size]]
        /\ verifiers'[w].pc = "verify" /\ verifiers'[w].i = nextIn
        /\ \A v \in Crew(batch) \ {w} : verifiers'[v] = verifiers[v]
    BY <2>1, <2>2 DEF BatchShape
  <2>4. BatchShape' BY <1>1, <1>2, <2>1, <2>2, <2>3 DEF BatchShape
  <2>5. VerdictsIn' BY <1>1, <1>2, <2>1, <2>2, <2>3 DEF VerdictsIn
  <2> QED BY <1>3, <2>4, <2>5
<1> QED BY <1>4, <1>5, <1>6

\* The sender sends everything up to the first gap, whose verdicts are in.
LEMMA GatherKeeps == ASSUME BatchInv, Gather PROVE BatchInv'
<1> USE DEF BatchInv
<1> DEFINE j == Head(doneQ)
<1>1. /\ doneQ # <<>> /\ doneQ' = Tail(doneQ)
      /\ checked' = [checked EXCEPT ![j] = TRUE]
      /\ nextOut' = ReadyTo(checked')
      /\ emitted' = emitted \o SubSeq(errs, nextOut, nextOut' - 1)
      /\ UNCHANGED <<batch, nextIn, verifiers, errs>>
  BY DEF Gather
<1>2. Size' = Size /\ Inputs' = Inputs /\ \A i : Verdict(i)' = Verdict(i)
  BY <1>1 DEF Size, Inputs, Verdict
<1>3. /\ j \in Inputs /\ doneQ' \in Seq(Inputs)
      /\ Len(doneQ') = Len(doneQ) - 1 /\ Len(doneQ) \in Nat
      /\ \A k \in 1..Len(doneQ') : doneQ'[k] = doneQ[k + 1]
  BY <1>1, HeadTailProperties, LenProperties DEF BatchShape
<1>4. errs[j] = Verdict(j)
  <2>1. j = doneQ[1] /\ 1 \in 1..Len(doneQ)
    BY <1>1, EmptySeq DEF BatchShape
  <2> QED BY <2>1 DEF VerdictsIn
<1>5. \A k \in 1..Len(doneQ') : errs[doneQ'[k]] = Verdict(doneQ'[k])
  BY <1>3 DEF VerdictsIn
<1>6. /\ checked' \in [Inputs -> BOOLEAN]
      /\ \A i \in Inputs : checked'[i] => checked[i] \/ i = j
      /\ \A i \in Inputs : checked[i] => checked'[i]
  BY <1>1, <1>3 DEF BatchShape
<1>7. \A i \in Inputs : checked'[i] => errs[i] = Verdict(i)
  BY <1>4, <1>6 DEF VerdictsIn
<1>8. VerdictsIn' BY <1>1, <1>2, <1>5, <1>7 DEF VerdictsIn
<1>9. PICK n \in nextOut..(Size + 1) :
         nextOut' = n /\ \A i \in nextOut..(n - 1) : checked'[i]
  <2>1. nextOut \in Nat /\ Size + 1 \in Nat /\ nextOut <= Size + 1
    BY DEF BatchShape
  <2>2. \E n \in nextOut..(Size + 1) :
          /\ \A i \in nextOut..(n - 1) : checked'[i]
          /\ n = Size + 1 \/ ~checked'[n]
    BY <2>1, FirstGap
  <2> QED BY <1>1, <2>2 DEF ReadyTo
<1>10. /\ n \in Nat /\ nextOut \in Nat \ {0} /\ nextOut <= n
       /\ n \in 1..(Size + 1) /\ Size \in Nat
  BY <1>9 DEF BatchShape
<1>11. \A i \in nextOut..(n - 1) : i \in Inputs
  BY <1>10 DEF Inputs
<1>12. \A i \in nextOut..(n - 1) :
         errs[i] \in Verdicts /\ errs[i] = Verdict(i)
  BY <1>7, <1>9, <1>11 DEF BatchShape
<1>13. emitted \in Seq(Verdicts) /\ Len(emitted) = nextOut - 1
  BY DEF BatchShape
<1>14. /\ emitted' \in Seq(Verdicts) /\ Len(emitted') = n - 1
       /\ \A i \in 1..(n - 1) :
            emitted'[i] = IF i < nextOut THEN emitted[i] ELSE errs[i]
  <2>1. emitted' = emitted \o SubSeq(errs, nextOut, n - 1) BY <1>1, <1>9
  <2>2. \A i \in nextOut..(n - 1) : errs[i] \in Verdicts BY <1>12
  <2> DEFINE out == Extend(emitted, errs, nextOut, n)
  <2>3. /\ out \in Seq(Verdicts) /\ Len(out) = n - 1
        /\ \A i \in 1..(n - 1) :
             out[i] = IF i < nextOut THEN emitted[i] ELSE errs[i]
    <3> HIDE DEF BatchInv
    <3> QED BY <1>10, <1>13, <2>2, Extended
  <2> HIDE DEF out
  <2>4. emitted' = out BY <2>1 DEF out, Extend
  <2> QED BY <2>3, <2>4
<1>15. BatchShape'
  BY <1>1, <1>2, <1>3, <1>6, <1>9, <1>10, <1>14 DEF BatchShape
<1>16. Sent'
  <2>1. ASSUME NEW i \in Inputs, i < n PROVE checked'[i]
    <3>1. CASE i < nextOut BY <1>6, <3>1 DEF Sent
    <3>2. CASE ~(i < nextOut)
      <4>1. i \in nextOut..(n - 1) BY <1>10, <2>1, <3>2 DEF Inputs
      <4> QED BY <1>9, <4>1
    <3> QED BY <3>1, <3>2
  <2> QED BY <1>2, <1>9, <2>1 DEF Sent
<1>17. InHeaderOrder'
  <2>1. ASSUME NEW i \in 1..Len(emitted') PROVE emitted'[i] = Verdict(i)
    <3>1. i \in 1..(n - 1) BY <1>14
    <3>2. CASE i < nextOut
      <4>1. emitted'[i] = emitted[i] BY <1>14, <3>1, <3>2
      <4>2. i \in 1..Len(emitted) BY <1>10, <1>13, <3>1, <3>2
      <4> QED BY <4>1, <4>2 DEF InHeaderOrder, Verdict
    <3>3. CASE ~(i < nextOut)
      <4>1. emitted'[i] = errs[i] BY <1>14, <3>1, <3>3
      <4>2. i \in nextOut..(n - 1) BY <1>10, <3>1, <3>3
      <4> QED BY <1>12, <4>1, <4>2
    <3> QED BY <3>2, <3>3
  <2> QED BY <1>1, <2>1 DEF InHeaderOrder, Verdict
<1> QED BY <1>8, <1>15, <1>16, <1>17

\* Every step keeps the invariant.
LEMMA BatchStep == ASSUME BatchInv, [BatchNext]_batchVars PROVE BatchInv'
<1>1. CASE CallerQuits \/ SenderQuits \/ UNCHANGED batchVars
  <2>1. UNCHANGED <<batch, nextIn, nextOut, verifiers, doneQ, errs, checked,
                    emitted>>
    BY <1>1 DEF CallerQuits, SenderQuits, batchVars
  <2> QED BY <2>1 DEF BatchInv, BatchShape, VerdictsIn, Sent, InHeaderOrder,
                      Size, Inputs, Verdict
<1> QED BY <1>1, VerifyKeeps, VerifierKeeps, GatherKeeps DEF BatchNext

\* Whatever order the workers finish in, the results go out in the order of
\* the headers, each with the verdict on its header.
THEOREM InHeaderOrderHolds == BatchSpec => []InHeaderOrder
<1>1. BatchInit => BatchInv BY BatchInitInv
<1>2. BatchInv /\ [BatchNext]_batchVars => BatchInv' BY BatchStep
<1>3. BatchInv => InHeaderOrder BY DEF BatchInv
<1> QED BY <1>1, <1>2, <1>3, PTL DEF BatchSpec

\* What the invariant leaves open: the batch stays, and the done channel holds
\* an index of each worker at most.
Bounded ==
  /\ batch \in Batches /\ Len(doneQ) <= Procs
  /\ sender \in {"runs", "returned"} /\ quitting \in BOOLEAN

\* The invariant with the bounds of a type invariant.
BatchTyped == BatchInv /\ Bounded

\* There are no more workers than processors.
LEMMA CrewFits ==
  ASSUME BatchInv PROVE Len(verifiers) \in Nat /\ Len(verifiers) <= Procs
<1> DEFINE n == IF Size < Procs THEN Size ELSE Procs
           Rec == [pc : {"idle", "verify", "report", "gone"}, i : 0..Size]
<1>1. Size \in Nat /\ Procs \in Nat
  BY BatchAssumption DEF BatchInv, BatchShape
<1>2. verifiers \in [1..n -> Rec]
  BY DEF BatchInv, BatchShape, Crew, Size
<1>3. n \in Nat /\ n <= Procs BY <1>1
<1> HIDE DEF n, Rec
<1>4. Len(verifiers) = n BY <1>2, <1>3
<1> QED BY <1>3, <1>4

\* The initial states are of their types.
LEMMA BatchInitTyped == ASSUME BatchInit PROVE BatchTyped
<1>1. BatchInv BY BatchInitInv
<1>2. Procs \in Nat BY BatchAssumption
<1>3. Len(doneQ) = 0 BY EmptySeq DEF BatchInit
<1>4. batch \in Batches /\ sender \in {"runs", "returned"} BY DEF BatchInit
<1>5. quitting \in BOOLEAN BY DEF BatchInit
<1> QED BY <1>1, <1>2, <1>3, <1>4, <1>5 DEF BatchTyped, Bounded

\* Every step keeps the bounds.
LEMMA BatchTypedStep ==
  ASSUME BatchTyped, [BatchNext]_batchVars PROVE BatchTyped'
<1>1. BatchInv /\ Bounded BY DEF BatchTyped
<1>2. BatchInv' BY <1>1, BatchStep
<1>3. batch' = batch
  BY DEF BatchNext, VerifyOne, ReportDone, VerifierEnds, HandOut, Gather,
         CallerQuits, SenderQuits, batchVars
<1>4. sender' = sender \/ sender' \in {"runs", "returned"}
  BY DEF BatchNext, VerifyOne, ReportDone, VerifierEnds, HandOut, Gather,
         CallerQuits, SenderQuits, batchVars
<1>5. quitting' = quitting \/ quitting' = TRUE
  BY DEF BatchNext, VerifyOne, ReportDone, VerifierEnds, HandOut, Gather,
         CallerQuits, SenderQuits, batchVars
<1>6. quitting' \in BOOLEAN BY <1>1, <1>5 DEF Bounded
<1>7. doneQ \in Seq(Inputs) /\ Len(doneQ) \in Nat
  BY <1>1, LenProperties DEF BatchInv, BatchShape
<1>8. Len(doneQ') <= Procs
  <2>1. CASE \E w \in Crew(batch) : ReportDone(w)
    <3>1. Len(doneQ) < Len(verifiers) /\ Len(verifiers) <= Procs
          /\ Len(verifiers) \in Nat /\ Procs \in Nat
      BY <1>1, <2>1, CrewFits, BatchAssumption DEF ReportDone
    <3>2. PICK w \in Crew(batch) : doneQ' = Append(doneQ, verifiers[w].i)
      BY <2>1 DEF ReportDone
    <3>3. Len(doneQ') = Len(doneQ) + 1 BY <1>7, <3>2
    <3> QED BY <1>7, <3>1, <3>3
  <2>2. CASE Gather
    <3>1. doneQ # <<>> /\ doneQ' = Tail(doneQ) BY <2>2 DEF Gather
    <3>2. Len(doneQ') = Len(doneQ) - 1
      BY <1>7, <3>1, HeadTailProperties
    <3>3. Len(doneQ) <= Procs /\ Procs \in Nat
      BY <1>1, BatchAssumption DEF Bounded
    <3> QED BY <1>7, <3>2, <3>3
  <2>3. CASE doneQ' = doneQ BY <1>1, <2>3 DEF Bounded
  <2> QED BY <2>1, <2>2, <2>3
          DEF BatchNext, VerifyOne, VerifierEnds, HandOut, CallerQuits,
              SenderQuits, batchVars
<1>9. Bounded' BY <1>1, <1>3, <1>4, <1>6, <1>8 DEF Bounded
<1> QED BY <1>2, <1>9 DEF BatchTyped

\* The bounded invariant keeps the types.
LEMMA BatchTypesFollow == BatchTyped => BatchTypeOK
<1> SUFFICES ASSUME BatchTyped PROVE BatchTypeOK OBVIOUS
<1>1. BatchShape /\ Bounded BY DEF BatchTyped, BatchInv
<1>2. \A w \in Crew(batch) :
        /\ verifiers[w].pc \in {"idle", "verify", "report", "gone"}
        /\ verifiers[w].i \in 0..Size
  BY <1>1 DEF BatchShape
<1>3. \A k \in 1..Len(doneQ) : doneQ[k] \in 1..Size
  BY <1>1, ElementOfSeq DEF BatchShape, Inputs
<1>4. Len(emitted) <= Size
  <2>1. nextOut \in 1..(Size + 1) /\ Size \in Nat /\ Len(emitted) = nextOut - 1
    BY <1>1 DEF BatchShape
  <2> QED BY <2>1
<1> QED BY <1>1, <1>2, <1>3, <1>4
        DEF BatchTypeOK, Bounded, BatchShape, Inputs, Verdicts

\* The done channel never holds more than an index for each worker, and no
\* more results go out than there are headers.
THEOREM BatchTypeCorrect == BatchSpec => []BatchTypeOK
<1>1. BatchInit => BatchTyped BY BatchInitTyped
<1>2. BatchTyped /\ [BatchNext]_batchVars => BatchTyped' BY BatchTypedStep
<1>3. BatchTyped => BatchTypeOK BY BatchTypesFollow
<1> QED BY <1>1, <1>2, <1>3, PTL DEF BatchSpec

\* The header each worker has in hand, 0 for none.
Carried ==
  [w \in Crew(batch) |-> IF verifiers[w].pc \in {"verify", "report"}
                         THEN verifiers[w].i ELSE 0]

\* Of the headers S those below n were handed out: each of them is with one of
\* the workers W, or once in the queue, or checked.
OnePlace(S, W, carried, queue, ck, n) ==
  /\ \A i \in S : i < n <=> \/ ck[i]
                            \/ \E w \in W : carried[w] = i
                            \/ \E q \in 1..Len(queue) : queue[q] = i
  /\ \A v, w \in W : carried[v] = carried[w] /\ carried[w] \in S => v = w
  /\ \A w \in W : carried[w] \in S =>
       ~ck[carried[w]] /\ \A q \in 1..Len(queue) : queue[q] # carried[w]
  /\ \A q, r \in 1..Len(queue) : queue[q] = queue[r] => q = r
  /\ \A q \in 1..Len(queue) : ~ck[queue[q]]

\* No header is lost on its way round, and none is verified twice: not by the
\* workers that take turns, nor by the queue in which results overtake others.
HeaderInOnePlace ==
  OnePlace(Inputs, Crew(batch), Carried, doneQ, checked, nextIn)

\* The sender runs while a result is missing; the workers outlast it.
SenderWaits ==
  /\ sender = "runs" => nextOut \in Inputs /\ ~checked[nextOut]
  /\ sender = "returned" => quitting \/ nextOut = Size + 1
  /\ \A w \in Crew(batch) : verifiers[w].pc = "gone" => sender = "returned"

\* The next header goes to an idle worker.
LEMMA PlaceHandedOut ==
  ASSUME NEW N \in Nat, NEW W, NEW carried \in [W -> 0..N], NEW queue \in Seq(1..N),
         NEW ck \in [1..N -> BOOLEAN], NEW n \in 1..N, NEW w \in W,
         carried[w] = 0, OnePlace(1..N, W, carried, queue, ck, n)
  PROVE  OnePlace(1..N, W, [carried EXCEPT ![w] = n], queue, ck, n + 1)
<1> DEFINE S == 1..N
           new == [carried EXCEPT ![w] = n]
           Q == 1..Len(queue)
<1>1. /\ \A i \in S : i < n <=> \/ ck[i]
                                \/ \E v \in W : carried[v] = i
                                \/ \E q \in Q : queue[q] = i
      /\ \A u, v \in W : carried[u] = carried[v] /\ carried[v] \in S => u = v
      /\ \A v \in W : carried[v] \in S =>
           ~ck[carried[v]] /\ \A q \in Q : queue[q] # carried[v]
      /\ \A q, r \in Q : queue[q] = queue[r] => q = r
      /\ \A q \in Q : ~ck[queue[q]]
  BY DEF OnePlace
<1>2. new[w] = n /\ \A v \in W \ {w} : new[v] = carried[v] OBVIOUS
<1>3. n \in S /\ ~(n < n) OBVIOUS
<1>4. /\ ~ck[n] /\ \A v \in W : carried[v] # n
      /\ \A q \in Q : queue[q] # n
  BY <1>1, <1>3
<1> HIDE DEF new, Q
<1>5. ASSUME NEW i \in S
      PROVE  i < n + 1 <=> \/ ck[i]
                           \/ \E v \in W : new[v] = i
                           \/ \E q \in Q : queue[q] = i
  <2>1. CASE i = n BY <1>2, <2>1
  <2>2. CASE i # n
    <3>1. i < n + 1 <=> i < n BY <2>2
    <3>2. i # 0 BY <1>3
    <3>3. (\E v \in W : new[v] = i) <=> (\E v \in W : carried[v] = i)
      BY <1>2, <2>2, <3>2
    <3> QED BY <1>1, <3>1, <3>3
  <2> QED BY <2>1, <2>2
<1>6. \A u, v \in W : new[u] = new[v] /\ new[v] \in S => u = v
  BY <1>1, <1>2, <1>4
<1>7. \A v \in W : new[v] \in S =>
        ~ck[new[v]] /\ \A q \in Q : queue[q] # new[v]
  BY <1>1, <1>2, <1>4
<1> QED BY <1>1, <1>5, <1>6, <1>7 DEF OnePlace, new, Q

\* A worker passes its header on to the queue.
LEMMA PlacePassedOn ==
  ASSUME NEW N \in Nat, NEW W, NEW carried \in [W -> 0..N], NEW queue \in Seq(1..N),
         NEW ck \in [1..N -> BOOLEAN], NEW n, NEW w \in W,
         carried[w] \in 1..N, OnePlace(1..N, W, carried, queue, ck, n)
  PROVE  OnePlace(1..N, W, [carried EXCEPT ![w] = 0],
                  Append(queue, carried[w]), ck, n)
<1> DEFINE S == 1..N
           new == [carried EXCEPT ![w] = 0]
           Q == 1..Len(queue)
           longer == Append(queue, carried[w])
           R == 1..Len(longer)
           l == Len(queue) + 1
<1>1. /\ \A i \in S : i < n <=> \/ ck[i]
                                \/ \E v \in W : carried[v] = i
                                \/ \E q \in Q : queue[q] = i
      /\ \A u, v \in W : carried[u] = carried[v] /\ carried[v] \in S => u = v
      /\ \A v \in W : carried[v] \in S =>
           ~ck[carried[v]] /\ \A q \in Q : queue[q] # carried[v]
      /\ \A q, r \in Q : queue[q] = queue[r] => q = r
      /\ \A q \in Q : ~ck[queue[q]]
  BY DEF OnePlace
<1>2. new[w] = 0 /\ 0 \notin S /\ \A v \in W \ {w} : new[v] = carried[v]
  OBVIOUS
<1>3. /\ R = Q \union {l} /\ l \notin Q /\ longer[l] = carried[w]
      /\ \A q \in Q : longer[q] = queue[q]
  OBVIOUS
<1>4. carried[w] \in S OBVIOUS
<1> HIDE DEF new, Q, longer, R, l, S
<1>5. \A v \in W : carried[v] = carried[w] => v = w BY <1>1, <1>4
<1>6. ASSUME NEW i \in S
      PROVE  i < n <=> \/ ck[i]
                       \/ \E v \in W : new[v] = i
                       \/ \E q \in R : longer[q] = i
  <2>1. CASE i = carried[w] BY <1>1, <1>3, <2>1
  <2>2. CASE i # carried[w]
    <3>1. (\E v \in W : new[v] = i) <=> (\E v \in W : carried[v] = i)
      BY <1>2, <2>2
    <3>2. (\E q \in R : longer[q] = i) <=> (\E q \in Q : queue[q] = i)
      BY <1>3, <2>2
    <3> QED BY <1>1, <3>1, <3>2
  <2> QED BY <2>1, <2>2
<1>7. \A u, v \in W : new[u] = new[v] /\ new[v] \in S => u = v
  BY <1>1, <1>2
<1>8. \A v \in W : new[v] \in S =>
        ~ck[new[v]] /\ \A q \in R : longer[q] # new[v]
  <2>1. ASSUME NEW v \in W, new[v] \in S
        PROVE  ~ck[new[v]] /\ \A q \in R : longer[q] # new[v]
    <3>1. v # w /\ new[v] = carried[v] BY <1>2, <2>1
    <3>2. ~ck[carried[v]] /\ \A q \in Q : queue[q] # carried[v]
      BY <1>1, <2>1, <3>1
    <3>3. carried[v] # carried[w] BY <1>5, <3>1
    <3> QED BY <1>3, <3>1, <3>2, <3>3
  <2> QED BY <2>1
<1>9. \A q, r \in R : longer[q] = longer[r] => q = r BY <1>1, <1>3, <1>4
<1>10. \A q \in R : ~ck[longer[q]] BY <1>1, <1>3, <1>4
<1> QED BY <1>6, <1>7, <1>8, <1>9, <1>10 DEF OnePlace, new, longer, R, S

\* The head of the queue is checked.
LEMMA PlaceChecked ==
  ASSUME NEW N \in Nat, NEW W, NEW carried \in [W -> 0..N], NEW queue \in Seq(1..N),
         NEW ck \in [1..N -> BOOLEAN], NEW n, queue # <<>>,
         OnePlace(1..N, W, carried, queue, ck, n)
  PROVE  OnePlace(1..N, W, carried, Tail(queue),
                  [ck EXCEPT ![Head(queue)] = TRUE], n)
<1> DEFINE S == 1..N
           Q == 1..Len(queue)
           rest == Tail(queue)
           R == 1..Len(rest)
           h == Head(queue)
           new == [ck EXCEPT ![h] = TRUE]
<1>1. /\ \A i \in S : i < n <=> \/ ck[i]
                                \/ \E v \in W : carried[v] = i
                                \/ \E q \in Q : queue[q] = i
      /\ \A u, v \in W : carried[u] = carried[v] /\ carried[v] \in S => u = v
      /\ \A v \in W : carried[v] \in S =>
           ~ck[carried[v]] /\ \A q \in Q : queue[q] # carried[v]
      /\ \A q, r \in Q : queue[q] = queue[r] => q = r
      /\ \A q \in Q : ~ck[queue[q]]
  BY DEF OnePlace
<1>2. /\ Len(queue) \in Nat \ {0} /\ Len(rest) = Len(queue) - 1
      /\ h = queue[1] /\ h \in S
      /\ \A q \in R : rest[q] = queue[q + 1]
  BY HeadTailProperties, LenProperties, EmptySeq
<1>3. /\ 1 \in Q /\ \A q \in R : q + 1 \in Q /\ q + 1 # 1
      /\ \A q \in Q : q = 1 \/ (q - 1 \in R /\ q = (q - 1) + 1)
  BY <1>2
<1>4. new \in [S -> BOOLEAN] /\ new[h] /\ \A i \in S : i # h => new[i] = ck[i]
  BY <1>2
<1>5. \A q \in Q : queue[q] \in S OBVIOUS
<1> HIDE DEF new, Q, rest, R, h, S
<1>6. ASSUME NEW i \in S
      PROVE  i < n <=> \/ new[i]
                       \/ \E v \in W : carried[v] = i
                       \/ \E q \in R : rest[q] = i
  <2>1. CASE i = h BY <1>1, <1>2, <1>3, <1>4, <2>1
  <2>2. CASE i # h
    <3>1. ASSUME NEW q \in Q, queue[q] = i PROVE \E r \in R : rest[r] = i
      <4>1. q # 1 BY <1>2, <2>2, <3>1
      <4>2. q - 1 \in R /\ q = (q - 1) + 1 BY <1>3, <4>1
      <4>3. rest[q - 1] = queue[(q - 1) + 1] BY <1>2, <4>2
      <4> QED BY <3>1, <4>2, <4>3
    <3>2. ASSUME NEW r \in R, rest[r] = i PROVE \E q \in Q : queue[q] = i
      BY <1>2, <1>3, <3>2
    <3> QED BY <1>1, <1>4, <2>2, <3>1, <3>2
  <2> QED BY <2>1, <2>2
<1>7. \A v \in W : carried[v] \in S =>
        ~new[carried[v]] /\ \A q \in R : rest[q] # carried[v]
  <2>1. ASSUME NEW v \in W, carried[v] \in S
        PROVE  ~new[carried[v]] /\ \A q \in R : rest[q] # carried[v]
    <3>1. ~ck[carried[v]] /\ \A q \in Q : queue[q] # carried[v]
      BY <1>1, <2>1
    <3>2. carried[v] # h BY <1>2, <1>3, <3>1
    <3>3. ~new[carried[v]] BY <1>4, <2>1, <3>1, <3>2
    <3> QED BY <1>2, <1>3, <3>1, <3>3
  <2> QED BY <2>1
<1>8. \A q, r \in R : rest[q] = rest[r] => q = r
  <2>1. \A q \in R : q \in Int BY DEF R
  <2>2. ASSUME NEW q \in R, NEW r \in R, rest[q] = rest[r] PROVE q = r
    <3>1. q + 1 = r + 1 BY <1>1, <1>2, <1>3, <2>2
    <3> QED BY <2>1, <3>1
  <2> QED BY <2>2
<1>9. \A q \in R : ~new[rest[q]]
  <2>1. ASSUME NEW q \in R PROVE ~new[rest[q]]
    <3>1. q + 1 \in Q /\ q + 1 # 1 /\ rest[q] = queue[q + 1] BY <1>2, <1>3
    <3>2. queue[q + 1] # h BY <1>1, <1>2, <1>3, <3>1
    <3> QED BY <1>1, <1>4, <1>5, <3>1, <3>2
  <2> QED BY <2>1
<1> QED BY <1>1, <1>6, <1>7, <1>8, <1>9 DEF OnePlace, new, rest, R, S, h

\* The invariant of the batch: what is where, and what the sender waits for.
BatchPlaced == BatchTyped /\ HeaderInOnePlace /\ SenderWaits

\* What a worker carries is an index of the batch; it carries one while it
\* verifies and reports, and only then.
LEMMA CarriedFits ==
  ASSUME BatchInv
  PROVE  /\ Carried \in [Crew(batch) -> 0..Size]
         /\ \A w \in Crew(batch) :
              IF verifiers[w].pc \in {"verify", "report"}
              THEN Carried[w] = verifiers[w].i /\ Carried[w] \in Inputs
              ELSE Carried[w] = 0
<1>1. BatchShape /\ VerdictsIn /\ Size \in Nat
  BY DEF BatchInv, BatchShape
<1>2. \A w \in Crew(batch) :
        verifiers[w].pc \in {"verify", "report"} => verifiers[w].i \in Inputs
  BY <1>1 DEF VerdictsIn
<1> QED BY <1>1, <1>2 DEF Carried, Inputs

\* The workers of the next state: the one that moves, and the others.
LEMMA CarriedMoves ==
  ASSUME BatchInv, NEW w \in Crew(batch), NEW new, batch' = batch,
         verifiers' = [verifiers EXCEPT ![w] = new],
         NEW h, h = IF new.pc \in {"verify", "report"} THEN new.i ELSE 0
  PROVE  Carried' = [Carried EXCEPT ![w] = h]
<1>1. \A v \in Crew(batch) :
        verifiers'[v] = IF v = w THEN new ELSE verifiers[v]
  BY DEF BatchInv, BatchShape
<1>2. Carried' = [v \in Crew(batch) |->
                    IF verifiers'[v].pc \in {"verify", "report"}
                    THEN verifiers'[v].i ELSE 0]
  BY DEF Carried
<1>3. \A v \in Crew(batch) : Carried'[v] = IF v = w THEN h ELSE Carried[v]
  BY <1>1, <1>2 DEF Carried
<1>4. Carried = [v \in Crew(batch) |-> Carried[v]] BY DEF Carried
<1>5. Carried' = [v \in Crew(batch) |-> Carried'[v]] BY <1>2
<1> QED BY <1>3, <1>4, <1>5

\* No header is handed out at first, and the sender waits for the first one.
LEMMA PlacedInit == ASSUME BatchInit PROVE BatchPlaced
<1>1. BatchTyped BY BatchInitTyped
<1>2. Size \in Nat BY <1>1 DEF BatchTyped, BatchInv, BatchShape
<1>3. /\ nextIn = 1 /\ nextOut = 1 /\ Len(doneQ) = 0
      /\ \A i \in Inputs : ~checked[i]
      /\ \A w \in Crew(batch) : verifiers[w].pc = "idle"
      /\ sender = IF Size = 0 THEN "returned" ELSE "runs"
  BY EmptySeq DEF BatchInit, Inputs
<1>4. \A w \in Crew(batch) : Carried[w] = 0 BY <1>3 DEF Carried
<1>5. HeaderInOnePlace
  BY <1>2, <1>3, <1>4 DEF HeaderInOnePlace, OnePlace, Inputs
<1>6. SenderWaits BY <1>2, <1>3 DEF SenderWaits, Inputs
<1> QED BY <1>1, <1>5, <1>6 DEF BatchPlaced

\* A header stays with its worker while it is verified, and a worker that ends
\* has none.
LEMMA PlacedVerified ==
  ASSUME BatchPlaced, NEW w \in Crew(batch), VerifyOne(w) \/ VerifierEnds(w)
  PROVE  HeaderInOnePlace' /\ SenderWaits'
<1>1. BatchInv /\ HeaderInOnePlace /\ SenderWaits
  BY DEF BatchPlaced, BatchTyped
<1>2. /\ UNCHANGED <<batch, nextIn, nextOut, doneQ, checked, sender, quitting>>
      /\ Inputs' = Inputs /\ Size' = Size
  BY DEF VerifyOne, VerifierEnds, Inputs, Size
<1>3. PICK p \in {"report", "gone"} :
        /\ verifiers' = [verifiers EXCEPT ![w].pc = p]
        /\ p = "report" => verifiers[w].pc = "verify"
        /\ p = "gone" => verifiers[w].pc = "idle" /\ sender = "returned"
  BY DEF VerifyOne, VerifierEnds
<1>4. \A v \in Crew(batch) :
        /\ verifiers'[v].i = verifiers[v].i
        /\ verifiers'[v].pc = IF v = w THEN p ELSE verifiers[v].pc
  BY <1>1, <1>3 DEF BatchInv, BatchShape
<1>5. \A v \in Crew(batch) : verifiers'[v].pc \in {"verify", "report"}
                             <=> verifiers[v].pc \in {"verify", "report"}
  BY <1>3, <1>4
<1>6. Carried' = Carried BY <1>2, <1>4, <1>5 DEF Carried
<1>7. HeaderInOnePlace' BY <1>1, <1>2, <1>6 DEF HeaderInOnePlace
<1>8. SenderWaits' BY <1>1, <1>2, <1>3, <1>4 DEF SenderWaits
<1> QED BY <1>7, <1>8

\* The next header goes to the worker that takes it.
LEMMA PlacedHandedOut ==
  ASSUME BatchPlaced, NEW w \in Crew(batch), HandOut(w)
  PROVE  HeaderInOnePlace' /\ SenderWaits'
<1>1. BatchInv /\ HeaderInOnePlace /\ SenderWaits
  BY DEF BatchPlaced, BatchTyped
<1> DEFINE new == [pc |-> "verify", i |-> nextIn]
<1>2. /\ verifiers[w].pc = "idle" /\ nextIn <= Size /\ nextIn' = nextIn + 1
      /\ verifiers' = [verifiers EXCEPT ![w] = new]
      /\ UNCHANGED <<batch, nextOut, doneQ, checked, sender, quitting>>
      /\ Inputs' = Inputs /\ Size' = Size
  BY DEF HandOut, MoreInputs, Inputs, Size
<1>3. /\ Size \in Nat /\ nextIn \in 1..Size /\ doneQ \in Seq(1..Size)
      /\ checked \in [1..Size -> BOOLEAN]
  BY <1>1, <1>2 DEF BatchInv, BatchShape, Inputs
<1>4. Carried \in [Crew(batch) -> 0..Size] /\ Carried[w] = 0
  BY <1>1, <1>2, CarriedFits
<1>5. Carried' = [Carried EXCEPT ![w] = nextIn]
  <2>1. nextIn = IF new.pc \in {"verify", "report"} THEN new.i ELSE 0 OBVIOUS
  <2> HIDE DEF new
  <2> QED BY <1>1, <1>2, <2>1, CarriedMoves
<1>6. HeaderInOnePlace'
  <2>1. OnePlace(1..Size, Crew(batch), Carried, doneQ, checked, nextIn)
    BY <1>1 DEF HeaderInOnePlace, Inputs
  <2>2. OnePlace(1..Size, Crew(batch), [Carried EXCEPT ![w] = nextIn], doneQ,
                 checked, nextIn + 1)
    BY <1>3, <1>4, <2>1, PlaceHandedOut
  <2> QED BY <1>2, <1>5, <2>2 DEF HeaderInOnePlace, Inputs
<1>7. \A v \in Crew(batch) : verifiers'[v].pc = "gone" =>
                             verifiers[v].pc = "gone"
  BY <1>1, <1>2 DEF BatchInv, BatchShape
<1>8. SenderWaits' BY <1>1, <1>2, <1>7 DEF SenderWaits
<1> QED BY <1>6, <1>8

\* The header of a worker that reports goes into the queue.
LEMMA PlacedReported ==
  ASSUME BatchPlaced, NEW w \in Crew(batch), ReportDone(w)
  PROVE  HeaderInOnePlace' /\ SenderWaits'
<1>1. BatchInv /\ HeaderInOnePlace /\ SenderWaits
  BY DEF BatchPlaced, BatchTyped
<1> DEFINE new == [pc |-> "idle", i |-> 0]
<1>2. /\ verifiers[w].pc = "report"
      /\ doneQ' = Append(doneQ, verifiers[w].i)
      /\ verifiers' = [verifiers EXCEPT ![w] = new]
      /\ UNCHANGED <<batch, nextIn, nextOut, checked, sender, quitting>>
      /\ Inputs' = Inputs /\ Size' = Size
  BY DEF ReportDone, Inputs, Size
<1>3. /\ Size \in Nat /\ doneQ \in Seq(1..Size)
      /\ checked \in [1..Size -> BOOLEAN]
  BY <1>1 DEF BatchInv, BatchShape, Inputs
<1>4. /\ Carried \in [Crew(batch) -> 0..Size]
      /\ Carried[w] = verifiers[w].i /\ Carried[w] \in 1..Size
  BY <1>1, <1>2, CarriedFits DEF Inputs
<1>5. Carried' = [Carried EXCEPT ![w] = 0]
  <2>1. 0 = IF new.pc \in {"verify", "report"} THEN new.i ELSE 0 OBVIOUS
  <2> HIDE DEF new
  <2> QED BY <1>1, <1>2, <2>1, CarriedMoves
<1>6. HeaderInOnePlace'
  <2>1. OnePlace(1..Size, Crew(batch), Carried, doneQ, checked, nextIn)
    BY <1>1 DEF HeaderInOnePlace, Inputs
  <2>2. OnePlace(1..Size, Crew(batch), [Carried EXCEPT ![w] = 0],
                 Append(doneQ, Carried[w]), checked, nextIn)
    BY <1>3, <1>4, <2>1, PlacePassedOn
  <2> QED BY <1>2, <1>4, <1>5, <2>2 DEF HeaderInOnePlace, Inputs
<1>7. \A v \in Crew(batch) : verifiers'[v].pc = "gone" =>
                             verifiers[v].pc = "gone"
  BY <1>1, <1>2 DEF BatchInv, BatchShape
<1>8. SenderWaits' BY <1>1, <1>2, <1>7 DEF SenderWaits
<1> QED BY <1>6, <1>8

\* The sender checks the header at the head of the queue, and returns when
\* there is no gap left.
LEMMA PlacedGathered ==
  ASSUME BatchPlaced, Gather PROVE HeaderInOnePlace' /\ SenderWaits'
<1>1. BatchInv /\ HeaderInOnePlace /\ SenderWaits
  BY DEF BatchPlaced, BatchTyped
<1>2. /\ doneQ # <<>> /\ doneQ' = Tail(doneQ)
      /\ checked' = [checked EXCEPT ![Head(doneQ)] = TRUE]
      /\ nextOut' = ReadyTo(checked')
      /\ sender' = IF nextOut' = Size + 1 THEN "returned" ELSE "runs"
      /\ sender = "runs"
      /\ UNCHANGED <<batch, nextIn, verifiers, quitting>>
      /\ Inputs' = Inputs /\ Size' = Size
  BY DEF Gather, Inputs, Size
<1>3. /\ Size \in Nat /\ doneQ \in Seq(1..Size)
      /\ checked \in [1..Size -> BOOLEAN]
      /\ nextOut \in Nat \ {0} /\ nextOut <= Size + 1
  BY <1>1 DEF BatchInv, BatchShape, Inputs
<1>4. Carried \in [Crew(batch) -> 0..Size] /\ Carried' = Carried
  BY <1>1, <1>2, CarriedFits DEF Carried
<1>5. HeaderInOnePlace'
  <2>1. OnePlace(1..Size, Crew(batch), Carried, doneQ, checked, nextIn)
    BY <1>1 DEF HeaderInOnePlace, Inputs
  <2>2. OnePlace(1..Size, Crew(batch), Carried, Tail(doneQ),
                 [checked EXCEPT ![Head(doneQ)] = TRUE], nextIn)
    BY <1>2, <1>3, <1>4, <2>1, PlaceChecked
  <2> QED BY <1>2, <1>4, <2>2 DEF HeaderInOnePlace, Inputs
<1>6. PICK n \in nextOut..(Size + 1) :
        nextOut' = n /\ (n = Size + 1 \/ ~checked'[n])
  <2>1. \E n \in nextOut..(Size + 1) :
          /\ \A i \in nextOut..(n - 1) : checked'[i]
          /\ n = Size + 1 \/ ~checked'[n]
    <3>1. nextOut \in Nat /\ Size + 1 \in Nat /\ nextOut <= Size + 1 BY <1>3
    <3> QED BY <3>1, FirstGap
  <2> QED BY <1>2, <2>1 DEF ReadyTo
<1>7. \A w \in Crew(batch) : verifiers[w].pc # "gone"
  BY <1>1, <1>2 DEF SenderWaits
<1>8. SenderWaits'
  BY <1>2, <1>3, <1>6, <1>7 DEF SenderWaits, Inputs
<1> QED BY <1>5, <1>8

\* Every step keeps the invariant.
LEMMA PlacedStep ==
  ASSUME BatchPlaced, [BatchNext]_batchVars PROVE BatchPlaced'
<1>1. BatchTyped' BY BatchTypedStep DEF BatchPlaced
<1>2. CASE CallerQuits \/ SenderQuits \/ UNCHANGED batchVars
  <2>1. /\ UNCHANGED <<batch, nextIn, nextOut, verifiers, doneQ, checked>>
        /\ sender' = sender \/ (sender' = "returned" /\ quitting)
        /\ quitting' = quitting \/ quitting' = TRUE
    BY <1>2 DEF CallerQuits, SenderQuits, batchVars
  <2>2. Size' = Size /\ Inputs' = Inputs /\ Carried' = Carried
    BY <2>1 DEF Size, Inputs, Carried
  <2>3. HeaderInOnePlace'
    BY <2>1, <2>2 DEF BatchPlaced, HeaderInOnePlace
  <2>4. quitting => quitting' BY <2>1
  <2>5. quitting /\ sender' = "returned" => quitting' BY <2>1
  <2>6. SenderWaits'
    BY <2>1, <2>2, <2>4 DEF BatchPlaced, SenderWaits
  <2> QED BY <1>1, <2>3, <2>6 DEF BatchPlaced
<1>3. CASE \E w \in Crew(batch) : VerifyOne(w) \/ ReportDone(w)
                                  \/ VerifierEnds(w) \/ HandOut(w)
  BY <1>1, <1>3, PlacedVerified, PlacedReported, PlacedHandedOut
  DEF BatchPlaced
<1>4. CASE Gather BY <1>1, <1>4, PlacedGathered DEF BatchPlaced
<1> QED BY <1>2, <1>3, <1>4 DEF BatchNext

\* The invariant holds throughout.
THEOREM BatchPlacedHolds == BatchSpec => []BatchPlaced
<1>1. BatchInit => BatchPlaced BY PlacedInit
<1>2. BatchPlaced /\ [BatchNext]_batchVars => BatchPlaced' BY PlacedStep
<1> QED BY <1>1, <1>2, PTL DEF BatchSpec

\* While results are missing somebody has work: one in the queue, a worker
\* that verifies or can report, or an idle one and a header not handed out.
BatchCanStep ==
  sender = "runs" =>
    \/ doneQ # <<>>
    \/ \E w \in Crew(batch) :
         \/ verifiers[w].pc = "verify"
         \/ verifiers[w].pc = "report" /\ Len(doneQ) < Len(verifiers)
         \/ verifiers[w].pc = "idle" /\ MoreInputs

\* A batch that nobody broke off is sent whole, with nothing left behind in
\* the queue or with a worker.
BatchDrained ==
  sender = "returned" =>
    \/ quitting
    \/ /\ \A i \in Inputs : checked[i]
       /\ doneQ = <<>> /\ Len(emitted) = Size
       /\ \A w \in Crew(batch) : verifiers[w].pc \in {"idle", "gone"}

\* The header the sender waits for is in the queue or with a worker, or it is
\* not handed out and a worker can take it.
LEMMA PlacedCanStep == ASSUME BatchPlaced PROVE BatchCanStep
<1>1. BatchInv /\ HeaderInOnePlace /\ SenderWaits
  BY DEF BatchPlaced, BatchTyped
<1> SUFFICES ASSUME sender = "runs", doneQ = <<>>
             PROVE  \E w \in Crew(batch) :
                      \/ verifiers[w].pc = "verify"
                      \/ verifiers[w].pc = "report"
                         /\ Len(doneQ) < Len(verifiers)
                      \/ verifiers[w].pc = "idle" /\ MoreInputs
  BY DEF BatchCanStep
<1>2. /\ nextOut \in Inputs /\ ~checked[nextOut]
      /\ \A w \in Crew(batch) : verifiers[w].pc # "gone"
  BY <1>1 DEF SenderWaits
<1>3. /\ Size \in Nat /\ Procs \in Nat \ {0} /\ nextIn \in 1..(Size + 1)
      /\ nextOut \in 1..Size /\ Len(doneQ) = 0
  BY <1>1, <1>2, BatchAssumption, EmptySeq DEF BatchInv, BatchShape, Inputs
<1>4. 1 \in Crew(batch) BY <1>3 DEF Crew, Size
<1>5. Len(doneQ) < Len(verifiers)
  <2> DEFINE n == IF Size < Procs THEN Size ELSE Procs
             Rec == [pc : {"idle", "verify", "report", "gone"}, i : 0..Size]
  <2>1. verifiers \in [1..n -> Rec]
    BY <1>1 DEF BatchInv, BatchShape, Crew, Size
  <2>2. n \in Nat /\ 0 < n BY <1>3
  <2> HIDE DEF n, Rec
  <2>3. Len(verifiers) = n BY <2>1, <2>2
  <2> QED BY <1>3, <2>2, <2>3
<1>6. CASE nextOut < nextIn
  <2>1. PICK w \in Crew(batch) : Carried[w] = nextOut
    BY <1>1, <1>2, <1>3, <1>6 DEF HeaderInOnePlace, OnePlace
  <2>2. verifiers[w].pc \in {"verify", "report"}
    BY <1>1, <1>3, <2>1, CarriedFits
  <2> QED BY <1>5, <2>2
<1>7. CASE ~(nextOut < nextIn)
  <2>1. MoreInputs BY <1>3, <1>7 DEF MoreInputs
  <2>2. verifiers[1].pc \in {"idle", "verify", "report"}
    BY <1>1, <1>2, <1>4 DEF BatchInv, BatchShape
  <2> QED BY <1>4, <1>5, <2>1, <2>2
<1> QED BY <1>6, <1>7

\* When all is sent all is checked, and what is checked is nowhere else.
LEMMA PlacedIsDrained == ASSUME BatchPlaced PROVE BatchDrained
<1>1. BatchInv /\ HeaderInOnePlace /\ SenderWaits
  BY DEF BatchPlaced, BatchTyped
<1> SUFFICES ASSUME sender = "returned", ~quitting
             PROVE  /\ \A i \in Inputs : checked[i]
                    /\ doneQ = <<>> /\ Len(emitted) = Size
                    /\ \A w \in Crew(batch) :
                         verifiers[w].pc \in {"idle", "gone"}
  BY DEF BatchDrained
<1>2. nextOut = Size + 1 /\ Size \in Nat /\ Len(emitted) = nextOut - 1
  BY <1>1 DEF SenderWaits, BatchInv, BatchShape
<1>3. \A i \in Inputs : checked[i] BY <1>1, <1>2 DEF BatchInv, Sent, Inputs
<1>4. doneQ = <<>>
  <2>1. doneQ \in Seq(Inputs) BY <1>1 DEF BatchInv, BatchShape
  <2>2. \A k \in 1..Len(doneQ) : doneQ[k] \in Inputs /\ ~checked[doneQ[k]]
    BY <1>1, <2>1, ElementOfSeq DEF HeaderInOnePlace, OnePlace
  <2>3. 1 \notin 1..Len(doneQ) BY <1>3, <2>2
  <2>4. Len(doneQ) \in Nat BY <2>1, LenProperties
  <2>5. Len(doneQ) = 0 BY <2>3, <2>4
  <2> QED BY <2>1, <2>5, EmptySeq
<1>5. ASSUME NEW w \in Crew(batch) PROVE verifiers[w].pc \in {"idle", "gone"}
  <2>1. Carried[w] \notin Inputs
    BY <1>1, <1>3 DEF HeaderInOnePlace, OnePlace
  <2>2. verifiers[w].pc \notin {"verify", "report"}
    BY <1>1, <2>1, CarriedFits
  <2> QED BY <1>1, <2>2 DEF BatchInv, BatchShape
<1> QED BY <1>2, <1>3, <1>4, <1>5

\* While it has results to come, the batch never waits on itself, however
\* many goroutines share it.
THEOREM BatchCanStepHolds == BatchSpec => []BatchCanStep
<1>1. BatchPlaced => BatchCanStep BY PlacedCanStep
<1> QED BY <1>1, BatchPlacedHolds, PTL

\* The results that were sent are all there were.
THEOREM BatchDrainedHolds == BatchSpec => []BatchDrained
<1>1. BatchPlaced => BatchDrained BY PlacedIsDrained
<1> QED BY <1>1, BatchPlacedHolds, PTL

------------------------------------------------------------------------------
(***************************************************************************)
(* ChainRules: every block of the chain has its height as number and the   *)
(* block before it as parent, and each of its uncles is a child of an      *)
(* older ancestor that no other block of the chain holds. From that follow *)
(* the bounds of a reward: an uncle is at most Generations below its       *)
(* block.                                                                  *)
(***************************************************************************)

\* A header and a block.
Header == [parent : Int, number : Nat, time : Nat, difficulty : Int, gas : Nat,
           used : Nat, tag : Nat, hasUncles : BOOLEAN, sealed : BOOLEAN,
           extraOk : BOOLEAN]
Block  == [header : Header, uncles : Seq(Header), miner : Nat,
           others : Seq(Int)]

\* An uncle of block n is a child of an ancestor of block n, not of its parent.
Near(u, n) ==
  /\ u.parent \in 0..(n - 2) /\ u.parent >= n - Generations
  /\ u.number = u.parent + 1

\* A chain whose blocks have their heights as numbers and the blocks before
\* them as parents, their uncles near and rewarded for the first time.
Distinct(uncles) ==
  \A k, l \in DOMAIN uncles : uncles[k] = uncles[l] => k = l

Sound(c) ==
  /\ c \in Seq(Block) /\ Len(c) \in Nat \ {0}
  /\ \A i \in 1..Len(c) :
       /\ c[i].header.number = i - 1 /\ c[i].header.parent = i - 2
       /\ c[i].header.difficulty \in Nat
       /\ c[i].others = UncleRewards(c[i].uncles, i - 1)
       /\ Distinct(c[i].uncles)
       /\ \A u \in UnclesOf(c[i]) :
            /\ Near(u, i - 1)
            /\ \A j \in 1..Len(c) :
                 c[j].header # u /\ (u \in UnclesOf(c[j]) => j = i)

\* The inductive invariant.
ChainInv == Sound(chain) /\ Len(chain) <= MaxHeight + 1 /\ clock \in Nat

\* What the constants are.
LEMMA ConstantsAre ==
  /\ BombPeriod \in Nat \ {0} /\ BoundDivisor \in Nat \ {0}
  /\ Generations \in Nat \ {0} /\ RewardSpan \in Nat \ {0}
  /\ GenesisDiff \in Nat /\ GenesisGas \in Nat /\ MinDifficulty \in Nat
  /\ MaxHeight \in Nat
  /\ Generations < RewardSpan /\ RewardSpan <= 64
BY ChainAssumption

\* The initial chain satisfies the invariant.
LEMMA ChainInitInv == ASSUME ChainInit PROVE ChainInv
<1> USE ConstantsAre
<1> DEFINE first == [header |-> Genesis, uncles |-> <<>>, miner |-> 0,
                     others |-> <<>>]
<1>1. Genesis \in Header /\ Genesis.number = 0 /\ Genesis.parent = -1
      /\ Genesis.difficulty \in Nat
  BY DEF Genesis, Header
<1>2. first \in Block BY <1>1 DEF Block
<1>3. chain = <<first>> /\ clock = 0 BY DEF ChainInit
<1>4. /\ Len(chain) = 1 /\ chain[1] = first /\ chain \in Seq(Block)
  BY <1>2, <1>3
<1>5. /\ first.header = Genesis /\ UnclesOf(first) = {}
      /\ Distinct(first.uncles) /\ first.others = UncleRewards(first.uncles, 0)
  BY DEF UnclesOf, Distinct, UncleRewards
<1> HIDE DEF first
<1>6. Sound(chain)
  BY <1>1, <1>4, <1>5 DEF Sound
<1> QED BY <1>3, <1>4, <1>6 DEF ChainInv

\* The difficulty of a block is an integer, whatever the fork.
LEMMA DifficultyIsInt ==
  ASSUME NEW parent \in Header, NEW time \in Nat
  PROVE  CalcDifficulty(time, parent) \in Int
<1> USE ConstantsAre
<1>1. \A n \in Nat : Bomb(n) \in Int
  <2> SUFFICES ASSUME NEW n \in Nat PROVE Bomb(n) \in Int
    OBVIOUS
  <2>1. n \div BombPeriod \in Nat OBVIOUS
  <2>2. \A k \in Nat : 2^k \in Int OBVIOUS
  <2> QED BY <2>1, <2>2 DEF Bomb
<1>3. /\ parent.number \in Nat /\ parent.time \in Nat /\ parent.difficulty \in Int
      /\ parent.hasUncles \in BOOLEAN
  BY DEF Header
<1>4. parent.difficulty \div BoundDivisor \in Int BY <1>3
<1>5. \A f \in Int : Stepped(f, parent) \in Int
  <2> SUFFICES ASSUME NEW f \in Int PROVE Stepped(f, parent) \in Int
    OBVIOUS
  <2>1. AtLeast(f, -99) \in Int BY DEF AtLeast
  <2>2. (parent.difficulty \div BoundDivisor) * AtLeast(f, -99) \in Int
    BY <1>4, <2>1
  <2> QED BY <1>3, <2>2 DEF Stepped, AtLeast
<1>6. Frontier(time, parent) \in Int
  <2>1. Bomb(parent.number + 1) \in Int BY <1>1, <1>3
  <2> QED BY <1>3, <1>4, <2>1 DEF Frontier, AtLeast
<1>7. Homestead(time, parent) \in Int
  <2>1. 1 - (time - parent.time) \div 10 \in Int BY <1>3
  <2>2. Bomb(parent.number + 1) \in Int BY <1>1, <1>3
  <2> QED BY <1>5, <2>1, <2>2 DEF Homestead
<1>8. \A d \in Nat : Byzantium(d, time, parent) \in Int
  <2> SUFFICES ASSUME NEW d \in Nat PROVE Byzantium(d, time, parent) \in Int
    OBVIOUS
  <2>1. (IF parent.hasUncles THEN 2 ELSE 1) - (time - parent.time) \div 9 \in Int
    BY <1>3
  <2>2. FakeNumber(d, parent) \in Nat BY <1>3 DEF FakeNumber
  <2> QED BY <1>1, <1>5, <2>1, <2>2 DEF Byzantium
<1>9. /\ BombDelay.byzantium \in Nat /\ BombDelay.constantinople \in Nat
      /\ BombDelay.muir \in Nat
  BY ChainAssumption
<1> QED BY <1>6, <1>7, <1>8, <1>9 DEF CalcDifficulty

\* An uncle that VerifyUncles accepts is near the block.
LEMMA AcceptedIsNear ==
  ASSUME Sound(chain), NEW u \in Header, UncleAccepted(u, Len(chain))
  PROVE  Near(u, Len(chain))
<1> USE ConstantsAre
<1> DEFINE N == Len(chain)
<1>1. N \in Nat \ {0} BY DEF Sound
<1>2. PICK n \in AtLeast(N - Generations, 0)..(N - 1) :
             chain[n + 1].header.number = u.parent
  BY DEF UncleAccepted, RecentParent, Ancestors, BlockAt
<1>3. n \in 0..(N - 1) /\ n >= N - Generations BY <1>1, <1>2 DEF AtLeast
<1>4. u.parent = n BY <1>1, <1>2, <1>3 DEF Sound
<1>5. u.parent # N - 1 BY DEF UncleAccepted, RecentParent
<1>6. u.number = chain[u.parent + 1].header.number + 1
  BY DEF UncleAccepted, Accepted, BlockAt
<1> QED BY <1>1, <1>2, <1>3, <1>4, <1>5, <1>6 DEF Near

\* It is no block of the chain and no uncle of one, however old.
LEMMA AcceptedIsNew ==
  ASSUME Sound(chain), NEW u \in Header, UncleAccepted(u, Len(chain)),
         u \notin PastUncles(Len(chain)), NEW i \in 1..Len(chain)
  PROVE  chain[i].header # u /\ u \notin UnclesOf(chain[i])
<1> USE ConstantsAre
<1> DEFINE N == Len(chain)
<1>1. N \in Nat \ {0} BY DEF Sound
<1>2. /\ u.parent \in 0..(N - 2) /\ u.parent >= N - Generations
      /\ u.number = u.parent + 1
  BY AcceptedIsNear DEF Near
<1>3. CASE i - 1 >= N - Generations
  <2>1. i - 1 \in AtLeast(N - Generations, 0)..(N - 1) /\ (i - 1) + 1 = i
    BY <1>1, <1>3 DEF AtLeast
  <2>2. chain[i] \in Ancestors(N) BY <2>1 DEF Ancestors, BlockAt
  <2> QED BY <2>2 DEF UncleAccepted, PastUncles
<1>4. CASE ~(i - 1 >= N - Generations)
  <2>1. i - 1 < u.parent BY <1>1, <1>2, <1>4
  <2>2. chain[i].header.number = i - 1 BY DEF Sound
  <2>3. u \in UnclesOf(chain[i]) => u.parent \in 0..(i - 3)
    BY DEF Sound, Near
  <2> QED BY <1>2, <2>1, <2>2, <2>3
<1> QED BY <1>3, <1>4

\* A header made by Prepare is a header.
LEMMA PreparedIs ==
  ASSUME Sound(chain), NEW p \in 0..Height0, NEW delay \in Delays,
         NEW tag \in Nat, NEW uncles, NEW spoilt
  PROVE  /\ Prepared(p, delay, tag, uncles, spoilt) \in Header
         /\ Prepared(p, delay, tag, uncles, spoilt).number = p + 1
         /\ Prepared(p, delay, tag, uncles, spoilt).parent = p
<1> DEFINE parent == BlockAt(p).header
<1>1. parent \in Header /\ p \in Nat
  <2>1. chain[p + 1] \in Block /\ p \in Nat BY DEF Sound, Height0
  <2> QED BY <2>1 DEF BlockAt, Block
<1> HIDE DEF parent
<1>2. delay \in Nat BY ChainAssumption
<1>3. /\ parent.time + delay \in Nat
      /\ parent.gas \in Nat /\ 2 * parent.gas \in Nat
  BY <1>1, <1>2 DEF Header
<1>4. CalcDifficulty(parent.time + delay, parent) \in Int
  BY <1>1, <1>3, DifficultyIsInt
<1> DEFINE time == parent.time + delay
           diff == CalcDifficulty(time, parent)
                     + IF spoilt = "difficulty" THEN 1 ELSE 0
           gas == IF spoilt = "gas" THEN 2 * parent.gas ELSE parent.gas
<1>5. Prepared(p, delay, tag, uncles, spoilt) =
        [parent |-> p, number |-> p + 1, time |-> time, tag |-> tag,
         difficulty |-> diff, gas |-> gas, used |-> 0,
         hasUncles |-> uncles # <<>>, sealed |-> spoilt # "seal",
         extraOk |-> spoilt # "extra"]
  BY DEF Prepared, parent
<1>6. time \in Nat /\ diff \in Int /\ gas \in Nat BY <1>3, <1>4
<1> HIDE DEF time, diff, gas
<1>7. (uncles # <<>>) \in BOOLEAN /\ (spoilt # "seal") \in BOOLEAN
      /\ (spoilt # "extra") \in BOOLEAN
  OBVIOUS
<1> DEFINE un == uncles # <<>>
           se == spoilt # "seal"
           ex == spoilt # "extra"
<1> HIDE DEF un, se, ex
<1> QED BY <1>1, <1>5, <1>6, <1>7 DEF Header, un, se, ex

\* What InsertBlock may take for an uncle is a header.
LEMMA CandidatesAre == ASSUME Sound(chain) PROVE UncleCandidates \subseteq Header
<1>1. Delay1 \in Delays BY ChainAssumption DEF Delay1
<1>2. UncleTags \subseteq Nat BY ChainAssumption
<1>3. ASSUME NEW n \in 0..Height0 PROVE BlockAt(n).header \in Header
  <2>1. chain[n + 1] \in Block BY DEF Sound, Height0
  <2> QED BY <2>1 DEF BlockAt, Block
<1>4. ASSUME NEW tag \in Nat PROVE [Genesis EXCEPT !.tag = tag] \in Header
  <2>1. Genesis \in Header BY ConstantsAre DEF Genesis, Header
  <2> QED BY <2>1 DEF Header
<1>5. \A p \in 0..Height0, tag \in UncleTags : \A spoilt :
        Prepared(p, Delay1, tag, <<>>, spoilt) \in Header
  BY <1>1, <1>2, PreparedIs
<1> SUFFICES ASSUME NEW x \in UncleCandidates PROVE x \in Header
  OBVIOUS
<1>6. CASE x \in {Prepared(p, Delay1, tag, <<>>, spoilt) : p \in 0..Height0,
                   tag \in UncleTags, spoilt \in {"no", "seal"}}
  <2>1. PICK p \in 0..Height0, tag \in UncleTags, spoilt \in {"no", "seal"} :
               x = Prepared(p, Delay1, tag, <<>>, spoilt)
    BY <1>6
  <2> QED BY <1>5, <2>1, Zenon
<1>7. CASE x \in {BlockAt(n).header : n \in 0..Height0}
  <2>1. PICK n \in 0..Height0 : x = BlockAt(n).header BY <1>7
  <2> QED BY <1>3, <2>1, Zenon
<1>8. CASE x \in {[Genesis EXCEPT !.tag = tag] : tag \in UncleTags}
  <2>1. PICK tag \in UncleTags : x = [Genesis EXCEPT !.tag = tag] BY <1>8
  <2> QED BY <1>2, <1>4, <2>1
<1> QED BY <1>6, <1>7, <1>8 DEF UncleCandidates

\* A chain stays sound with a block whose uncles are near and new.
LEMMA AppendSound ==
  ASSUME NEW c, Sound(c), NEW b \in Block,
         b.header.number = Len(c), b.header.parent = Len(c) - 1,
         b.header.difficulty \in Nat,
         b.others = UncleRewards(b.uncles, Len(c)), Distinct(b.uncles),
         \A u \in UnclesOf(b) :
           /\ Near(u, Len(c))
           /\ \A j \in 1..Len(c) : c[j].header # u /\ u \notin UnclesOf(c[j])
  PROVE  Sound(Append(c, b))
<1> DEFINE N == Len(c) + 1
           d == Append(c, b)
<1>1. N \in Nat \ {0} /\ N - 1 = Len(c) /\ c \in Seq(Block) BY DEF Sound
<1>2. /\ d \in Seq(Block) /\ Len(d) = N /\ d[N] = b
      /\ \A i \in 1..Len(c) : d[i] = c[i]
  BY <1>1
<1> HIDE DEF d
<1>3. \A i \in 1..N : i \in 1..Len(c) \/ i = N BY <1>1
<1>4. \A u \in UnclesOf(b) : b.header # u
  BY <1>1 DEF Near
<1>5. \A i \in 1..Len(c) : \A u \in UnclesOf(c[i]) :
        Near(u, i - 1) /\ u # b.header /\ u \notin UnclesOf(b)
  <2> SUFFICES ASSUME NEW i \in 1..Len(c), NEW u \in UnclesOf(c[i])
               PROVE  Near(u, i - 1) /\ u # b.header /\ u \notin UnclesOf(b)
    OBVIOUS
  <2>1. Near(u, i - 1) BY DEF Sound
  <2>2. u.number < Len(c) BY <1>1, <2>1 DEF Near
  <2> QED BY <2>1, <2>2
<1>6. ASSUME NEW i \in 1..N
      PROVE  /\ d[i].header.number = i - 1 /\ d[i].header.parent = i - 2
             /\ d[i].header.difficulty \in Nat
             /\ d[i].others = UncleRewards(d[i].uncles, i - 1)
             /\ Distinct(d[i].uncles)
  <2>1. CASE i \in 1..Len(c) BY <1>2, <2>1 DEF Sound
  <2>2. CASE i = N
    <3>1. i - 1 = Len(c) /\ i - 2 = Len(c) - 1 /\ d[i] = b BY <1>1, <1>2, <2>2
    <3> QED BY <3>1
  <2> QED BY <1>3, <2>1, <2>2
<1>7. ASSUME NEW i \in 1..N, NEW u \in UnclesOf(d[i]), NEW j \in 1..N
      PROVE  /\ Near(u, i - 1)
             /\ d[j].header # u /\ (u \in UnclesOf(d[j]) => j = i)
  <2>1. CASE i \in 1..Len(c) /\ j \in 1..Len(c)
    <3>1. d[i] = c[i] /\ d[j] = c[j] BY <1>2, <2>1
    <3>2. u \in UnclesOf(c[i]) BY <3>1
    <3>3. \A w \in UnclesOf(c[i]) :
            /\ Near(w, i - 1)
            /\ \A k \in 1..Len(c) :
                 c[k].header # w /\ (w \in UnclesOf(c[k]) => k = i)
      BY <2>1 DEF Sound
    <3>4. /\ Near(u, i - 1)
          /\ c[j].header # u /\ (u \in UnclesOf(c[j]) => j = i)
      BY <2>1, <3>2, <3>3, Zenon
    <3> QED BY <3>1, <3>4
  <2>2. CASE i = N /\ j \in 1..Len(c) BY <1>1, <1>2, <2>2
  <2>3. CASE i \in 1..Len(c) /\ j = N BY <1>2, <1>5, <2>3
  <2>4. CASE i = N /\ j = N BY <1>1, <1>2, <1>4, <2>4
  <2> QED BY <1>3, <2>1, <2>2, <2>3, <2>4
<1> QED BY <1>1, <1>2, <1>6, <1>7 DEF Sound, d

\* The uncles of an accepted block differ.
LEMMA AcceptedDiffer ==
  ASSUME NEW uncles \in Seq(Header), NEW number,
         UnclesAccepted(uncles, number)
  PROVE  /\ Distinct(uncles)
         /\ \A u \in {uncles[i] : i \in DOMAIN uncles} :
              UncleAccepted(u, number) /\ u \notin PastUncles(number)
<1>1. DOMAIN uncles = 1..Len(uncles) /\ Len(uncles) \in Nat OBVIOUS
<1>2. \A i \in 1..Len(uncles) :
        /\ uncles[i] \notin KnownUncles(uncles, i, number)
        /\ UncleAccepted(uncles[i], number)
  BY DEF UnclesAccepted
<1>3. \A k, l \in 1..Len(uncles) : l < k => uncles[k] # uncles[l]
  <2> SUFFICES ASSUME NEW k \in 1..Len(uncles), NEW l \in 1..Len(uncles), l < k
               PROVE  uncles[k] # uncles[l]
    OBVIOUS
  <2>1. l \in 1..(k - 1) BY <1>1
  <2> QED BY <1>2, <2>1 DEF KnownUncles
<1>4. \A k, l \in 1..Len(uncles) : k < l \/ l < k \/ k = l BY <1>1
<1>5. Distinct(uncles) BY <1>1, <1>3, <1>4 DEF Distinct
<1> QED BY <1>1, <1>2, <1>5 DEF KnownUncles

\* A block that is inserted keeps the invariant.
LEMMA InsertKeeps ==
  ASSUME ChainInv, NEW delay \in Delays, NEW uncles \in Seq(Header),
         NEW spoilt, InsertBlock(delay, uncles, spoilt)
  PROVE  ChainInv'
<1> USE ConstantsAre
<1> DEFINE N == Len(chain)
           header == Prepared(Height0, delay, 0, uncles, spoilt)
           new == Rewarded(header, uncles)
<1>1. /\ N \in Nat \ {0} /\ N < MaxHeight + 1 /\ clock' = clock
      /\ Height0 = N - 1 /\ Height0 \in 0..Height0
      /\ chain' = Append(chain, new)
      /\ Accepted(header, BlockAt(Height0).header, FALSE)
      /\ UnclesAccepted(uncles, header.number)
  <2>1. N \in Nat \ {0} /\ Height0 = N - 1 BY DEF ChainInv, Sound, Height0
  <2>2. Height0 < MaxHeight BY DEF InsertBlock
  <2>3. N < MaxHeight + 1 /\ Height0 \in 0..Height0 BY <2>1, <2>2
  <2> HIDE DEF N
  <2>4. /\ clock' = clock /\ chain' = Append(chain, new)
        /\ Accepted(header, BlockAt(Height0).header, FALSE)
        /\ UnclesAccepted(uncles, header.number)
    BY Zenon DEF InsertBlock
  <2> QED BY <2>1, <2>3, <2>4, Zenon
<1>2. header \in Header /\ header.number = N /\ header.parent = N - 1
  BY <1>1, PreparedIs DEF ChainInv
<1>3. header.difficulty \in Nat
  BY <1>1, <1>2 DEF Accepted, VerifySeal, Header
<1>4. BlockReward(N) \in {64, 96, 160} BY DEF BlockReward
<1>5. /\ new.header = header /\ new.uncles = uncles
      /\ new.miner = MinerReward(uncles, N) /\ new.others = UncleRewards(uncles, N)
      /\ new = [header |-> header, uncles |-> uncles, miner |-> MinerReward(uncles, N),
                others |-> UncleRewards(uncles, N)]
  BY <1>2 DEF Rewarded
<1>6. Distinct(uncles)
      /\ \A u \in UnclesOf(new) : /\ u \in Header /\ UncleAccepted(u, N)
                                  /\ u \notin PastUncles(N)
  <2>1. UnclesAccepted(uncles, N) BY <1>1, <1>2
  <2>2. UnclesOf(new) = {uncles[i] : i \in DOMAIN uncles} BY <1>5 DEF UnclesOf
  <2>3. \A i \in DOMAIN uncles : uncles[i] \in Header OBVIOUS
  <2> QED BY <2>1, <2>2, <2>3, AcceptedDiffer
<1>7. ASSUME NEW u \in UnclesOf(new)
      PROVE  /\ Near(u, N)
             /\ \A j \in 1..N :
                  chain[j].header # u /\ u \notin UnclesOf(chain[j])
  BY <1>6, AcceptedIsNear, AcceptedIsNew DEF ChainInv
<1>8. new \in Block
  <2>1. Len(uncles) \in Nat /\ BlockReward(N) \div 32 \in Nat BY <1>4
  <2>2. Len(uncles) * (BlockReward(N) \div 32) \in Nat BY <2>1
  <2>3. MinerReward(uncles, N) \in Nat BY <1>4, <2>2 DEF MinerReward
  <2>4. \A i \in 1..Len(uncles) : UncleReward(uncles[i], N) \in Int
    <3> SUFFICES ASSUME NEW i \in 1..Len(uncles)
                 PROVE  UncleReward(uncles[i], N) \in Int
      OBVIOUS
    <3>1. uncles[i] \in Header OBVIOUS
    <3> DEFINE k == uncles[i].number
    <3>2. k \in Nat BY <3>1 DEF Header
    <3>3. N \in Nat BY <1>1
    <3> HIDE DEF k, N
    <3>4. k + RewardSpan - N \in Int BY <3>2, <3>3
    <3>5. ((k + RewardSpan - N) * BlockReward(N)) \div RewardSpan \in Int
      BY <1>4, <3>4
    <3> QED BY <3>5 DEF UncleReward, k
  <2>5. UncleRewards(uncles, N) \in Seq(Int) BY <2>1, <2>4 DEF UncleRewards
  <2> QED BY <1>2, <1>5, <2>3, <2>5 DEF Block
<1>9. Sound(Append(chain, new))
  <2> HIDE DEF new, header
  <2> QED BY <1>2, <1>3, <1>5, <1>6, <1>7, <1>8, AppendSound DEF ChainInv
<1>10. Len(chain') = N + 1
  <2> HIDE DEF new
  <2> QED BY <1>1, <1>8 DEF ChainInv, Sound
<1> QED BY <1>1, <1>9, <1>10 DEF ChainInv

\* Every step keeps the invariant.
LEMMA ChainStep == ASSUME ChainInv, [ChainNext]_chainVars PROVE ChainInv'
<1>0. UncleCandidates \subseteq Header BY CandidatesAre DEF ChainInv
<1>1. ASSUME NEW d \in Delays, NEW spoilt \in Spoilings,
             InsertBlock(d, <<>>, spoilt)
      PROVE  ChainInv'
  <2>1. <<>> \in Seq(Header) OBVIOUS
  <2> QED BY <1>1, <2>1, InsertKeeps
<1>2. ASSUME NEW d \in Delays, NEW u \in UncleCandidates,
             InsertBlock(d, <<u>>, "no")
      PROVE  ChainInv'
  <2>1. <<u>> \in Seq(Header) BY <1>0
  <2> QED BY <1>2, <2>1, InsertKeeps
<1>5. ASSUME NEW d \in Delays, NEW u \in UncleCandidates,
             NEW v \in UncleCandidates, InsertBlock(d, <<u, v>>, "no")
      PROVE  ChainInv'
  <2>1. <<u, v>> \in Seq(Header) BY <1>0
  <2> QED BY <1>5, <2>1, InsertKeeps
<1>3. CASE ClockTicks
  <2>1. clock' \in Nat /\ chain' = chain
    <3>1. BlockAt(Height0).header.time \in Nat
      <4>1. chain[Height0 + 1] \in Block
        BY DEF ChainInv, Sound, Height0
      <4> QED BY <4>1 DEF BlockAt, Block, Header
    <3>2. (CHOOSE d \in Delays : \A e \in Delays : e <= d) \in Nat
      BY ChainAssumption
    <3> QED BY <1>3, <3>1, <3>2 DEF ClockTicks
  <2> QED BY <2>1 DEF ChainInv
<1>4. CASE UNCHANGED chainVars
  BY <1>4 DEF chainVars, ChainInv
<1> QED BY <1>1, <1>2, <1>3, <1>4, <1>5 DEF ChainNext

\* The invariant holds in every reachable state.
THEOREM ChainInvariance == ChainSpec => []ChainInv
<1>1. ChainInit => ChainInv BY ChainInitInv
<1>2. ChainInv /\ [ChainNext]_chainVars => ChainInv' BY ChainStep
<1> QED BY <1>1, <1>2, PTL DEF ChainSpec

\* The numbers of a sound chain are of their types.
LEMMA ChainTypesFollow == ASSUME ChainInv PROVE ChainTypeOK
<1>1. ASSUME NEW n \in 0..Height0
      PROVE  /\ chain[n + 1].header.number = n
             /\ chain[n + 1].header.difficulty \in Nat
             /\ chain[n + 1].miner \in Nat
  <2>1. n + 1 \in 1..Len(chain) /\ (n + 1) - 1 = n
    BY DEF ChainInv, Sound, Height0
  <2>2. chain[n + 1] \in Block BY <2>1 DEF ChainInv, Sound
  <2> QED BY <2>1, <2>2 DEF ChainInv, Sound, Block
<1>2. Len(chain) \in 1..(MaxHeight + 1) /\ clock \in Nat
  BY ConstantsAre DEF ChainInv, Sound
<1> QED BY <1>1, <1>2 DEF ChainTypeOK, BlockAt

\* However the chain grows, its numbers stay in their ranges.
THEOREM ChainTypeCorrect == ChainSpec => []ChainTypeOK
BY ChainTypesFollow, ChainInvariance, PTL

\* In a sound chain no uncle is in two blocks, or one of the chain.
LEMMA SoundPaysOnce == ASSUME ChainInv PROVE UnclesPaidOnce
<1>1. ASSUME NEW n \in 0..Height0, NEW m \in 0..Height0,
             NEW u \in UnclesOf(chain[n + 1])
      PROVE  /\ chain[m + 1].header # u
             /\ u \in UnclesOf(chain[m + 1]) => m = n
  <2>1. n + 1 \in 1..Len(chain) /\ m + 1 \in 1..Len(chain)
    BY DEF ChainInv, Sound, Height0
  <2>2. /\ chain[m + 1].header # u
        /\ u \in UnclesOf(chain[m + 1]) => m + 1 = n + 1
    BY <2>1 DEF ChainInv, Sound
  <2>3. m + 1 = n + 1 => m = n BY DEF ChainInv, Sound, Height0
  <2> QED BY <2>2, <2>3
<1>2. ASSUME NEW n \in 0..Height0 PROVE Distinct(chain[n + 1].uncles)
  <2>1. n + 1 \in 1..Len(chain) BY DEF ChainInv, Sound, Height0
  <2> QED BY <2>1 DEF ChainInv, Sound
<1> QED BY <1>1, <1>2 DEF UnclesPaidOnce, BlockAt, Distinct

\* No header is paid for twice, as an uncle or as a block, on a chain of any length.
THEOREM UnclesPaidOnceHolds == ChainSpec => []UnclesPaidOnce
BY SoundPaysOnce, ChainInvariance, PTL

\* Division rounds down to something positive and below the block's reward.
LEMMA Fraction ==
  ASSUME NEW k \in Nat, NEW span \in Nat, NEW reward \in Nat,
         0 < k, k < span, span <= reward
  PROVE  0 < (k * reward) \div span /\ (k * reward) \div span < reward
<1>1. k * reward >= reward BY ONLY 0 < k, k \in Nat, reward \in Nat
<1>2. k * reward < span * reward
  BY ONLY k \in Nat, span \in Nat, reward \in Nat, k < span, 0 < k, span <= reward
<1> DEFINE q == k * reward
<1>3. q \in Nat OBVIOUS
<1>4. q >= span /\ q < span * reward BY <1>1, <1>2, <1>3
<1> HIDE DEF q
<1>5. q \div span \in Nat /\ q = span * (q \div span) + (q % span)
      /\ q % span \in 0..(span - 1)
  BY <1>3
<1>6. q \div span # 0 BY <1>3, <1>4, <1>5
<1> DEFINE r == q \div span
<1>7. r < reward
  <2>1. r \in Nat /\ span * r <= q BY <1>3, <1>4, <1>5
  <2> HIDE DEF r
  <2>2. span * r < span * reward BY <1>3, <1>4, <2>1
  <2> QED BY <2>1, <2>2
<1> QED BY <1>5, <1>6, <1>7 DEF q, r

\* In a sound chain an uncle is near enough to be paid something.
LEMMA SoundPaysFairly == ASSUME ChainInv PROVE UncleRewardsPositive
<1> USE ConstantsAre
<1> SUFFICES ASSUME NEW n \in 0..Height0, NEW i \in DOMAIN chain[n + 1].uncles
             PROVE  /\ 0 < chain[n + 1].others[i]
                    /\ chain[n + 1].others[i] < BlockReward(n)
  BY DEF UncleRewardsPositive, BlockAt
<1>7. n + 1 \in 1..Len(chain) /\ (n + 1) - 1 = n /\ n \in Nat
  BY DEF ChainInv, Sound, Height0
<1> DEFINE list == chain[n + 1].uncles
           u == list[i]
<1>8. chain[n + 1].others = UncleRewards(list, n)
  BY <1>7 DEF ChainInv, Sound
<1>9. list \in Seq(Header)
  <2>1. chain[n + 1] \in Block BY <1>7 DEF ChainInv, Sound
  <2> QED BY <2>1 DEF Block
<1>1. chain[n + 1].others[i] = UncleReward(u, n)
  <2>1. i \in 1..Len(list) BY <1>9
  <2> QED BY <1>8, <2>1 DEF UncleRewards
<1>2. Near(u, n)
  <2>1. u \in UnclesOf(chain[n + 1]) BY DEF UnclesOf
  <2> HIDE DEF u
  <2>2. Near(u, (n + 1) - 1) BY <1>7, <2>1 DEF ChainInv, Sound
  <2> QED BY <1>7, <2>2
<1>3. BlockReward(n) \in {64, 96, 160} BY DEF BlockReward
<1> DEFINE k == u.number + RewardSpan - n
<1>4. k \in Nat /\ 0 < k /\ k < RewardSpan
  <2> HIDE DEF u
  <2> QED BY <1>2, <1>7 DEF Near
<1>5. RewardSpan \in Nat /\ RewardSpan <= BlockReward(n) BY <1>3
<1> HIDE DEF k
<1>6. /\ 0 < (k * BlockReward(n)) \div RewardSpan
      /\ (k * BlockReward(n)) \div RewardSpan < BlockReward(n)
  <2>1. BlockReward(n) \in Nat BY <1>3
  <2> QED BY <1>4, <1>5, <2>1, Fraction
<1> QED BY <1>1, <1>6 DEF k, UncleReward

\* An uncle earns something, and less than a block.
THEOREM UncleRewardsPositiveHolds == ChainSpec => []UncleRewardsPositive
BY SoundPaysFairly, ChainInvariance, PTL
==============================================================================
