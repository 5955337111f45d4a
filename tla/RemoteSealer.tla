---------------------------- MODULE RemoteSealer ----------------------------
(***************************************************************************)
(* The remote sealer (ethash/sealer.go) and the API that external miners   *)
(* call (ethash/api.go): one goroutine, loop(), owns the works and the     *)
(* rates and serves one request at a time; every API call is a send on an  *)
(* unbuffered channel, given up when the loop has exited, and a reply on a *)
(* channel of the call's own.                                              *)
(*                                                                         *)
(* What the loop receives on workCh are the blocks of Tasks.  Seal's send  *)
(* of them is commented out in this tree (sealer.go:77), so only a program *)
(* that restores it exercises TakeTask.                                    *)
(***************************************************************************)
EXTENDS Integers, FiniteSets

CONSTANTS
  Tasks,   \* blocks to seal
  Height,  \* Height[b]: number of block b
  Stale,   \* staleThreshold (7 in the code)
  Callers, \* goroutines that call the API
  Ids,     \* identifiers of miners that submit a hash rate
  NotifyUrls, \* number of URLs to notify of new work
  MaxNotes \* bound: notifications under way at once

ASSUME RemoteAssumption ==
  /\ Stale \in Nat \ {0} /\ Height \in [Tasks -> Nat]
  /\ NotifyUrls \in Nat /\ MaxNotes \in Nat

VARIABLES
  loop,    \* loop(): serving, waiting for its notifications, exited
  closing, \* Close(): requestExit is closed
  current, \* currentBlock, as a set of at most one block
  works,   \* blocks of the map works
  hasRes,  \* s.results is set
  rates,   \* miners with a rate: submitted, and older than 10 seconds
  notes,   \* sendNotification goroutines
  calls,   \* each caller's request or reply
  issued,  \* history: blocks received on workCh
  taken    \* history: blocks whose solution went to the results channel

remoteVars == <<loop, closing, current, works, hasRes, rates, notes, calls,
                issued, taken>>

Idle     == [op |-> "idle"]
Requests == {[op |-> "getWork"], [op |-> "getRate"]}
              \union [op : {"submit"}, block : Tasks, valid : BOOLEAN]
              \union [op : {"rate"}, id : Ids]
Replies  == [op : {"done"}, of : {"getWork", "getRate", "submit", "rate"},
             ok : BOOLEAN, block : SUBSET Tasks]

RemoteTypeOK ==
  /\ loop \in {"serving", "exiting", "exited"} /\ closing \in BOOLEAN
  /\ current \subseteq Tasks /\ Cardinality(current) <= 1
  /\ works \subseteq Tasks /\ hasRes \in BOOLEAN
  /\ rates.fresh \subseteq Ids /\ rates.old \subseteq Ids
  /\ notes \in 0..MaxNotes
  /\ calls \in [Callers -> {Idle} \union Requests \union Replies]

RemoteInit ==
  /\ loop = "serving" /\ closing = FALSE
  /\ current = {} /\ works = {} /\ hasRes = FALSE
  /\ rates = [fresh |-> {}, old |-> {}] /\ notes = 0
  /\ calls = [c \in Callers |-> Idle]
  /\ issued = {} /\ taken = {}

stateVars == <<current, works, hasRes, rates, notes, issued, taken>>
-----------------------------------------------------------------------------
(* loop().                                                                 *)

\* makeWork and notifyWork.
TakeTask(b) ==
  /\ loop = "serving" /\ notes + NotifyUrls <= MaxNotes
  /\ current' = {b} /\ works' = works \union {b}
  /\ hasRes' = TRUE
  /\ notes' = notes + NotifyUrls
  /\ issued' = issued \union {b}
  /\ UNCHANGED <<loop, closing, rates, calls, taken>>

Reply(c, ok, blocks) ==
  calls' = [calls EXCEPT ![c] = [op |-> "done", of |-> calls[c].op,
                                 ok |-> ok, block |-> blocks]]

\* fetchWorkCh: the current work, or an error before there is one.
ServeGetWork(c) ==
  /\ loop = "serving" /\ calls[c].op = "getWork"
  /\ Reply(c, current # {}, current)
  /\ UNCHANGED <<loop, closing, stateVars>>

\* Mutant of Acceptable: the depth is not looked at.
AcceptableAnyDepth(b) == current # {} /\ b \in works /\ hasRes

\* What submitWork asks of a block before it hands the solution over.
Acceptable(b) ==
  /\ current # {} /\ b \in works /\ hasRes
  /\ \A n \in current : Height[b] + Stale > Height[n]

\* Mutant of Handover: a solution nobody reads counts as accepted.
HandoverLost(b) == {[ok |-> TRUE, taken |-> taken \union {b}],
                    [ok |-> TRUE, taken |-> taken]}

\* The send on the results channel does not wait for a reader.
Handover(b) == {[ok |-> TRUE, taken |-> taken \union {b}],
                [ok |-> FALSE, taken |-> taken]}

\* submitWorkCh: the seal is verified against the full DAG.
ServeSubmit(c) ==
  /\ loop = "serving" /\ calls[c].op = "submit"
  /\ LET b == calls[c].block
     IN  IF calls[c].valid /\ Acceptable(b)
         THEN \E h \in Handover(b) : Reply(c, h.ok, {b}) /\ taken' = h.taken
         ELSE Reply(c, FALSE, {b}) /\ UNCHANGED taken
  /\ UNCHANGED <<loop, closing, current, works, hasRes, rates, notes, issued>>

\* submitRateCh: the time of the last report is reset.
ServeRate(c) ==
  /\ loop = "serving" /\ calls[c].op = "rate"
  /\ rates' = [fresh |-> rates.fresh \union {calls[c].id},
               old |-> rates.old \ {calls[c].id}]
  /\ Reply(c, TRUE, {})
  /\ UNCHANGED <<loop, closing, current, works, hasRes, notes, issued, taken>>

\* fetchRateCh.
ServeGetRate(c) ==
  /\ loop = "serving" /\ calls[c].op = "getRate"
  /\ Reply(c, TRUE, {})
  /\ UNCHANGED <<loop, closing, stateVars>>

\* Ten seconds pass without a report of the miner.
RateAges(id) ==
  /\ id \in rates.fresh
  /\ rates' = [fresh |-> rates.fresh \ {id}, old |-> rates.old \union {id}]
  /\ UNCHANGED <<loop, closing, current, works, hasRes, notes, calls, issued,
                 taken>>

\* Every five seconds: old rates, and blocks too deep to be accepted.
Tick ==
  /\ loop = "serving"
  /\ rates' = [rates EXCEPT !.old = {}]
  /\ works' = {b \in works : \A n \in current : Height[b] + Stale > Height[n]}
  /\ UNCHANGED <<loop, closing, current, hasRes, notes, calls, issued, taken>>

\* A notification is answered, fails or times out.
NotifyEnds ==
  /\ notes > 0
  /\ notes' = notes - 1
  /\ UNCHANGED <<loop, closing, current, works, hasRes, rates, calls, issued,
                 taken>>

\* Ethash.Close closes requestExit; the loop leaves when it receives that,
\* cancels its notifications, waits for them and closes exitCh.
Close ==
  /\ ~closing
  /\ closing' = TRUE
  /\ UNCHANGED <<loop, stateVars, calls>>

LoopReturns ==
  /\ loop = "serving" /\ closing
  /\ loop' = "exiting"
  /\ UNCHANGED <<closing, stateVars, calls>>

\* Mutant of LoopExits: exitCh is closed only if nothing was ever notified.
LoopExitsUnlessNotified ==
  /\ loop = "exiting" /\ issued = {}
  /\ loop' = "exited"
  /\ UNCHANGED <<closing, stateVars, calls>>

LoopExits ==
  /\ loop = "exiting" /\ notes = 0
  /\ loop' = "exited"
  /\ UNCHANGED <<closing, stateVars, calls>>
-----------------------------------------------------------------------------
(* API calls.                                                              *)

Call(c) ==
  /\ calls[c] = Idle
  /\ \E r \in Requests : calls' = [calls EXCEPT ![c] = r]
  /\ UNCHANGED <<loop, closing, stateVars>>

\* The request was not taken and exitCh is closed: ethash stopped, or false.
CallStopped(c) ==
  /\ loop = "exited" /\ calls[c] \in Requests
  /\ Reply(c, FALSE, {})
  /\ UNCHANGED <<loop, closing, stateVars>>

CallReturns(c) ==
  /\ calls[c] \in Replies
  /\ calls' = [calls EXCEPT ![c] = Idle]
  /\ UNCHANGED <<loop, closing, stateVars>>

Serve(c) ==
  ServeGetWork(c) \/ ServeSubmit(c) \/ ServeRate(c) \/ ServeGetRate(c)

RemoteNext ==
  \/ \E b \in Tasks : TakeTask(b)
  \/ \E c \in Callers :
       \/ ServeGetWork(c) \/ ServeSubmit(c) \/ ServeRate(c) \/ ServeGetRate(c)
       \/ Call(c) \/ CallStopped(c) \/ CallReturns(c)
  \/ \E id \in Ids : RateAges(id)
  \/ Tick \/ NotifyEnds \/ Close \/ LoopReturns \/ LoopExits

\* select takes any of the requests that wait, at random: none waits for ever
\* while the loop serves.  Nobody needs to call or to close.
RemoteFairness ==
  /\ WF_remoteVars(LoopReturns) /\ WF_remoteVars(LoopExits)
  /\ WF_remoteVars(NotifyEnds)
  /\ \A c \in Callers : WF_remoteVars(Serve(c) \/ CallStopped(c))
                        /\ WF_remoteVars(CallReturns(c))

RemoteSpec == RemoteInit /\ [][RemoteNext]_remoteVars /\ RemoteFairness
-----------------------------------------------------------------------------
(* Properties.                                                             *)

\* The loop, its map of works that the ticker thins out and the calls that
\* race with Close together keep the promise of WorkRegistry.
Registry == INSTANCE WorkRegistry WITH open <- loop = "serving",
                                       newest <- current

KeepsRegistry == Registry!RegistrySpec

\* SubmitWork returns true only for a solution that the sealing side got.
AcceptedIsTaken ==
  \A c \in Callers :
    (calls[c].op = "done" /\ calls[c].of = "submit" /\ calls[c].ok) =>
      calls[c].block \subseteq taken

\* An API call returns, whether the sealer serves it or is closed meanwhile.
CallsReturn ==
  \A c \in Callers : calls[c].op \in {"getWork", "getRate", "submit", "rate"}
                       ~> calls[c].op \in {"done", "idle"}
=============================================================================
