------------------------------ MODULE RpcClient ------------------------------
(***************************************************************************)
(* The JSON-RPC client of the farm mode (rpc/rpc.go) and who uses it: the  *)
(* poll for work of Farm() with the decoding of its answer (farm.go,       *)
(* util.go), and onSolutionFound of farmMineByDevice, which submits a      *)
(* share.                                                                  *)
(*                                                                         *)
(* A poster is a goroutine inside doPost.  Only the health counters are    *)
(* behind the client's mutex; URL and urlIdx are read and moved bare, so   *)
(* every access to them is a step of its own.                              *)
(***************************************************************************)
EXTENDS Integers, FiniteSets

CONSTANTS
  UrlCount,  \* length of backupURLs
  SickLimit, \* errors that make a server sick (5 in the code)
  Sharers,   \* goroutines that may submit a share at the same time
  SeedEpochs     \* epochs a seed hash may be of

Poller  == "poll"
Posters == {Poller} \union Sharers
Urls    == 0..(UrlCount - 1)

ASSUME RpcAssumption ==
  /\ UrlCount \in Nat \ {0} /\ SickLimit \in Nat \ {0}
  /\ Poller \notin Sharers /\ SeedEpochs \subseteq Nat

VARIABLES
  process, \* the program: running, ended by log.Crit or by a panic
  url,     \* r.URL, as an index of backupURLs
  urlIdx,  \* r.urlIdx
  sick,    \* r.sick
  sickRate,\* r.sickRate, counted up to SickLimit
  down,    \* servers that do not answer any more
  post,    \* each poster: where it is
  started, \* Farm() has its first work and polls for the next
  number,  \* block number of the last work, -1 before the first
  shareRes,\* what the last share of a sharer came to
  overlap  \* history: two posters were moving the URL at once

healthVars == <<sick, sickRate>>
moveVars   == <<url, urlIdx, overlap>>
rpcVars    == <<process, url, urlIdx, sick, sickRate, down, post, started,
                number, shareRes, overlap>>

Moving == {"move", "inc", "wrap", "clear"}

RpcTypeOK ==
  /\ process \in {"running", "exit", "panic"}
  /\ url \in Urls /\ urlIdx \in Int
  /\ sick \in BOOLEAN /\ sickRate \in 0..SickLimit /\ overlap \in BOOLEAN
  /\ down \subseteq Urls
  /\ post \in [Posters -> {"idle", "check", "send"} \union Moving]
  /\ started \in BOOLEAN /\ number \in {-1} \union Nat
  /\ shareRes \in [Sharers -> {"none", "accepted", "rejected", "unsent"}]

RpcInit ==
  /\ process = "running"
  /\ url = 0 /\ urlIdx = 0 /\ sick = FALSE /\ sickRate = 0
  /\ down = {} /\ overlap = FALSE
  /\ post = [p \in Posters |-> "idle"]
  /\ started = FALSE /\ number = -1
  /\ shareRes = [s \in Sharers |-> "none"]

Goto(p, where) == post' = [post EXCEPT ![p] = where]
-----------------------------------------------------------------------------
(* doPost: failover.                                                       *)

Post(p) ==
  /\ process = "running" /\ post[p] = "idle"
  /\ Goto(p, "check")
  /\ UNCHANGED <<process, moveVars, healthVars, down, started, number,
                 shareRes>>

\* The poll fires.
PollFires == Post(Poller)

\* A GPU found a share: onSolutionFound submits it.
ShareFound(s) == started /\ Post(s)

\* Sick() && len(backupURLs) > urlIdx+1.
CheckSick(p) ==
  /\ process = "running" /\ post[p] = "check"
  /\ Goto(p, IF sick /\ UrlCount > urlIdx + 1 THEN "move" ELSE "send")
  /\ overlap' = (overlap \/ /\ sick /\ UrlCount > urlIdx + 1
                            /\ \E q \in Posters : post[q] \in Moving)
  /\ UNCHANGED <<process, url, urlIdx, healthVars, down, started, number,
                 shareRes>>

\* Mutant of MoveUrl: it moves the index as well, which IncIdx then does too.
MoveUrlAndIdx(p) ==
  /\ process = "running" /\ post[p] = "move"
  /\ url' = (urlIdx + 1) % UrlCount
  /\ urlIdx' = urlIdx + 1
  /\ Goto(p, "inc")
  /\ UNCHANGED <<process, overlap, healthVars, down, started, number,
                 shareRes>>

\* r.URL = r.backupURLs[r.urlIdx+1] panics past the end of the list.
MoveUrl(p) ==
  /\ process = "running" /\ post[p] = "move"
  /\ IF urlIdx + 1 \in Urls
     THEN url' = urlIdx + 1 /\ UNCHANGED process
     ELSE process' = "panic" /\ UNCHANGED url
  /\ Goto(p, "inc")
  /\ UNCHANGED <<urlIdx, overlap, healthVars, down, started, number, shareRes>>

IncIdx(p) ==
  /\ process = "running" /\ post[p] = "inc"
  /\ urlIdx' = urlIdx + 1
  /\ Goto(p, "wrap")
  /\ UNCHANGED <<process, url, overlap, healthVars, down, started, number,
                 shareRes>>

\* Mutant of WrapIdx: the index never wraps to the first server.
WrapIdxLate(p) ==
  /\ process = "running" /\ post[p] = "wrap"
  /\ urlIdx' = IF urlIdx = UrlCount THEN -1 ELSE urlIdx
  /\ Goto(p, "clear")
  /\ UNCHANGED <<process, url, overlap, healthVars, down, started, number,
                 shareRes>>

WrapIdx(p) ==
  /\ process = "running" /\ post[p] = "wrap"
  /\ urlIdx' = IF urlIdx + 1 = UrlCount THEN -1 ELSE urlIdx
  /\ Goto(p, "clear")
  /\ UNCHANGED <<process, url, overlap, healthVars, down, started, number,
                 shareRes>>

ClearStats(p) ==
  /\ process = "running" /\ post[p] = "clear"
  /\ sick' = FALSE /\ sickRate' = 0
  /\ Goto(p, "send")
  /\ UNCHANGED <<process, moveVars, down, started, number, shareRes>>
-----------------------------------------------------------------------------
(* doPost: the request and what its callers make of the answer.            *)

markSick ==
  /\ sickRate' = IF sickRate < SickLimit THEN sickRate + 1 ELSE sickRate
  /\ sick' = (sick \/ sickRate + 1 >= SickLimit)

\* The seed hash of epochs 0 to 2047 is found, by hashing from zero.
Number(epoch) == IF epoch < 2048 THEN epoch * 30000 ELSE -1

\* Farm() starts again, with a new client.
NewClient ==
  /\ url' = 0 /\ urlIdx' = 0 /\ sick' = FALSE /\ sickRate' = 0
  /\ UNCHANGED <<process, overlap>>

\* A panic in Farm() before the goroutines start is recovered; in any other
\* goroutine it ends the program.
Panic(p) ==
  IF p = Poller /\ ~started
  THEN NewClient
  ELSE process' = "panic" /\ UNCHANGED <<moveVars, healthVars>>

\* The first request of Farm() could not get work: log.Crit.
StartFails == process' = "exit"

\* A poll that cannot get work goes on.
PollFails ==
  /\ IF started THEN UNCHANGED process ELSE StartFails
  /\ UNCHANGED <<moveVars, number, started>>

\* "network error never rejected": SubmitWork returns true.
ShareUnsent(s) == shareRes' = [shareRes EXCEPT ![s] = "unsent"]

\* No answer: connection refused, time-out.
Unreachable(p) ==
  /\ process = "running" /\ post[p] = "send"
  /\ markSick
  /\ Goto(p, "idle")
  /\ IF p = Poller THEN PollFails /\ UNCHANGED shareRes
     ELSE ShareUnsent(p) /\ UNCHANGED <<process, number, started, moveVars>>
  /\ UNCHANGED down

\* An answer that is not JSON: an error, but the server is not marked sick.
Garbage(p) ==
  /\ process = "running" /\ post[p] = "send" /\ url \notin down
  /\ Goto(p, "idle")
  /\ IF p = Poller THEN PollFails /\ UNCHANGED shareRes
     ELSE ShareUnsent(p) /\ UNCHANGED <<process, number, started, moveVars>>
  /\ UNCHANGED <<healthVars, down>>

\* An answer with an error object.
ErrorReply(p) ==
  /\ process = "running" /\ post[p] = "send" /\ url \notin down
  /\ Goto(p, "idle")
  /\ \/ p = Poller /\ markSick /\ PollFails /\ UNCHANGED shareRes
     \/ /\ p = Poller /\ ~started        \* no work available: 5 s later
        /\ NewClient
        /\ UNCHANGED <<number, started, shareRes>>
     \/ /\ p \in Sharers /\ markSick
        /\ shareRes' = [shareRes EXCEPT ![p] = "rejected"]
        /\ UNCHANGED <<process, number, started, moveVars>>
     \/ Panic(p) /\ UNCHANGED <<number, started, shareRes>> \* no text in it
  /\ UNCHANGED down

\* Neither result nor error, or a work package of fewer than three parts:
\* the caller dereferences nil or indexes past the end.
ShortReply(p) ==
  /\ process = "running" /\ post[p] = "send" /\ url \notin down
  /\ Goto(p, "idle")
  /\ Panic(p)
  /\ UNCHANGED <<down, number, started, shareRes>>

\* A work package; its seed hash may be of no known epoch.
WorkReply ==
  /\ process = "running" /\ post[Poller] = "send" /\ url \notin down
  /\ Goto(Poller, "idle")
  /\ \E e \in SeedEpochs :
       IF Number(e) >= 0
       THEN /\ number' = Number(e) /\ started' = TRUE
            /\ UNCHANGED <<process, moveVars>>
       ELSE PollFails
  /\ UNCHANGED <<healthVars, down, shareRes>>

\* The answer to a share.
ShareReply(s) ==
  /\ process = "running" /\ post[s] = "send" /\ url \notin down
  /\ Goto(s, "idle")
  /\ \E r \in {"accepted", "rejected"} : shareRes' = [shareRes EXCEPT ![s] = r]
  /\ UNCHANGED <<process, moveVars, healthVars, down, started, number>>

\* A server goes down for good.
ServerDies(u) ==
  /\ process = "running" /\ u \notin down
  /\ down' = down \union {u}
  /\ UNCHANGED <<process, moveVars, healthVars, post, started, number,
                 shareRes>>

RpcNext ==
  \/ \E p \in Posters :
       \/ CheckSick(p) \/ MoveUrl(p) \/ IncIdx(p) \/ WrapIdx(p)
       \/ ClearStats(p) \/ Unreachable(p) \/ Garbage(p) \/ ErrorReply(p)
       \/ ShortReply(p)
  \/ WorkReply
  \/ PollFires
  \/ \E s \in Sharers : ShareFound(s) \/ ShareReply(s)
  \/ \E u \in Urls : ServerDies(u)

\* The poll goes on; a request that was begun ends, with an answer or a
\* time-out.  That a share is found is not assumed.
Proceed(p) ==
  \/ CheckSick(p) \/ MoveUrl(p) \/ IncIdx(p) \/ WrapIdx(p) \/ ClearStats(p)
  \/ Unreachable(p) \/ Garbage(p) \/ ErrorReply(p) \/ ShortReply(p)
  \/ p = Poller /\ WorkReply
  \/ p \in Sharers /\ ShareReply(p)

RpcFairness ==
  WF_rpcVars(PollFires) /\ \A p \in Posters : WF_rpcVars(Proceed(p))

RpcSpec == RpcInit /\ [][RpcNext]_rpcVars /\ RpcFairness
-----------------------------------------------------------------------------
(* Properties.                                                             *)

\* As long as no two goroutines fail over at the same time, the index stays
\* one before a server of the list, and no request panics on it.
FailoverInRange ==
  ~overlap => /\ urlIdx \in -1..(UrlCount - 1)
              /\ \A p \in Posters : post[p] = "move" => urlIdx + 1 \in Urls

\* A server that died is left for the next one, unless two goroutines failed
\* over at once, the program ended or there is no other server.
DeadServerLeft ==
  \A u \in Urls :
    (url = u /\ u \in down /\ started)
      ~> (url # u \/ overlap \/ process # "running" \/ UrlCount = 1)
=============================================================================
