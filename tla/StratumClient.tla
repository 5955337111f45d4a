--------------------------- MODULE StratumClient ---------------------------
(***************************************************************************)
(* The pool connection of stratum/stratum.go: requests and their response  *)
(* channels, the Read goroutine of every connection, time-outs, failover,  *)
(* reconnection and Close.  Goroutines interleave at every point where the *)
(* code can block: the client's mutex, an unbuffered channel, the network. *)
(*                                                                         *)
(* Goroutines.  Main is the goroutine that runs Stratum(); reader n is the *)
(* Read goroutine that the n-th successful Dial starts; callers are the    *)
(* goroutines that use the client (reportHashRate, getWork, submissions);  *)
(* helpers run the fire-and-forget mining.extranonce.subscribe request.    *)
(* The pool answers a request at most once, after any delay or never, and  *)
(* may push notifications or drop the connection at any time.              *)
(***************************************************************************)
EXTENDS Integers, FiniteSets

CONSTANTS
  Callers,     \* goroutines that use the connected client
  Helpers,     \* goroutines available for the extranonce subscription
  NServers,    \* length of backupServers
  Scheme,      \* the mode that the URL of each server selects in Dial
  MaxDials,    \* bound: successful Dials of one behaviour
  MaxId,       \* bound: requests sent on one connection
  Threshold,   \* 5 in markSick and in markAlive
  NoOne,       \* no goroutine
  NoMsg        \* no message

Main    == 0
Readers == 1..MaxDials
Dialers == {Main} \cup Readers
Procs   == Dialers \cup Callers \cup Helpers
Modes   == {"etherproxy", "stratum", "etherstratum"}
Ids     == 1..MaxId
Slots   == 0..(NServers - 1)

ASSUME BoundsAssumption ==
  /\ MaxDials \in Nat \ {0}
  /\ MaxId \in Nat \ {0}
  /\ Threshold \in Nat \ {0}
  /\ NServers \in Nat \ {0}
  /\ Scheme \in [Slots -> Modes]
ASSUME GoroutinesAssumption ==
  /\ Callers \cap Dialers = {}
  /\ Helpers \cap Dialers = {}
  /\ Callers \cap Helpers = {}
  /\ NoOne \notin Procs

VARIABLES
  lock,          \* holder of the client's RWMutex
  ID,            \* the request counter, reset by Dial
  conn,          \* number of the latest connection, in c.reader and c.writer
  hasConn,       \* whether c.conn is not nil
  open,          \* connections whose socket is open on this side
  wire,          \* requests written and not answered by the pool yet
  closed, noReconnect, mode,
  server, serverIdx,
  sick, sickRate, successRate,
  callBackCh,    \* request id -> goroutine whose response channel is stored
  chClosed,      \* goroutines whose current response channel is closed
  pc,            \* where each dialer is outside request()
  stage,         \* where each goroutine is inside request() and send()
  result,        \* what its last request returned
  method, reqId, \* method and id of its request
  reqConn,       \* the connection whose counter gave that id
  rd,            \* the connection each reader is reading
  msg,           \* the response a reader is delivering
  to, todo,      \* goroutine it is sending to, and those it still has to
  listener,      \* checkNewWork, the receiver of the notify_Work channel
  mining         \* the device goroutines, which receive the changed work

netVars    == <<conn, hasConn, open, wire>>
flagVars   == <<closed, noReconnect, mode>>
serverVars == <<server, serverIdx>>
healthVars == <<sick, sickRate, successRate>>
tableVars  == <<callBackCh, chClosed>>
reqVars    == <<stage, result, method, reqId, reqConn>>
readVars   == <<rd, msg, to, todo>>
workVars   == <<listener, mining>>
vars == <<lock, ID, netVars, flagVars, serverVars, healthVars, tableVars,
          reqVars, readVars, pc, workVars>>

Methods  == {"login", "eth_getWork", "other"}
Messages == [conn : 0..MaxDials, id : Ids, from : Procs,
             drawn : 0..MaxDials, method : Methods]
ASSUME NoMsgAssumption == NoMsg \notin Messages

\* Inside request(): the callback is stored from "write" to "cleanup".
Stored == {"write", "writing", "wait", "cleanup"}
\* Between the loss of a connection and the end of the next login.
Reconnecting == {"reconnect", "closing", "sweep", "rotate", "pick", "inc",
                 "wrap", "dial", "pickDial", "incDial", "wrapDial",
                 "subscribe", "auth"}
Places == Reconnecting \cup
  {"unborn", "loop", "reading", "read", "response", "noteWork", "noteDefault",
   "deliver", "notify", "running", "changing", "generating", "interrupted",
   "stopping", "closed", "gone", "crit", "exit"}

ConnectionTypes ==
  /\ lock \in Procs \cup {NoOne}
  /\ ID \in 0..MaxId
  /\ conn \in 0..MaxDials /\ hasConn \in BOOLEAN
  /\ open \subseteq 1..MaxDials
  /\ wire \subseteq Messages
  /\ closed \in BOOLEAN /\ noReconnect \in BOOLEAN /\ mode \in Modes
ServerTypes ==
  /\ server \in Slots
  /\ serverIdx \in Int /\ serverIdx >= -1
HealthTypes ==
  /\ sick \in BOOLEAN
  /\ sickRate \in 0..Threshold /\ successRate \in 0..Threshold
TableTypes ==
  /\ callBackCh \in [Ids -> Procs \cup {NoOne}]
  /\ chClosed \subseteq Procs
RequestTypes ==
  /\ stage \in [Procs -> {"none", "register"} \cup Stored]
  /\ result \in [Procs -> {"none", "ok", "refused", "error"}]
  /\ method \in [Procs -> Methods]
  /\ reqId \in [Procs -> 0..MaxId]
  /\ reqConn \in [Procs -> 0..MaxDials]
ReaderTypes ==
  /\ rd \in [Readers -> 0..MaxDials]
  /\ msg \in [Readers -> Messages \cup {NoMsg}]
  /\ to \in [Readers -> Procs \cup {NoOne}]
  /\ todo \in [Readers -> SUBSET Procs]
ControlTypes ==
  /\ pc \in [Dialers -> Places]
  /\ listener \in {"unregistered", "recv", "busy", "changeDAG",
                    "workChanged", "stopped"}
  /\ mining \in BOOLEAN
TypeOK ==
  /\ ConnectionTypes /\ ServerTypes /\ HealthTypes /\ TableTypes
  /\ RequestTypes /\ ReaderTypes /\ ControlTypes

\* New, up to the call of Dial.
Init ==
  /\ lock = NoOne
  /\ ID = 0
  /\ conn = 0 /\ hasConn = FALSE /\ open = {} /\ wire = {}
  /\ closed = FALSE /\ noReconnect = FALSE /\ mode = "etherproxy"
  /\ server = 0 /\ serverIdx = 0
  /\ sick = FALSE /\ sickRate = 0 /\ successRate = 0
  /\ callBackCh = [i \in Ids |-> NoOne] /\ chClosed = {}
  /\ pc = [d \in Dialers |-> IF d = Main THEN "dial" ELSE "unborn"]
  /\ stage = [p \in Procs |-> "none"]
  /\ result = [p \in Procs |-> "none"]
  /\ method = [p \in Procs |-> "other"]
  /\ reqId = [p \in Procs |-> 0]
  /\ reqConn = [p \in Procs |-> 0]
  /\ rd = [r \in Readers |-> 0]
  /\ msg = [r \in Readers |-> NoMsg]
  /\ to = [r \in Readers |-> NoOne]
  /\ todo = [r \in Readers |-> {}]
  /\ listener = "unregistered" /\ mining = TRUE
-----------------------------------------------------------------------------
(* markSick and markAlive.  sickRate is only compared with the threshold,  *)
(* so it saturates there; FailsCount is a statistic and is left out.       *)
markSick ==
  /\ sickRate' = IF sickRate < Threshold THEN sickRate + 1 ELSE sickRate
  /\ sick' = (sick \/ sickRate + 1 >= Threshold)
  /\ successRate' = 0

\* Mutant of markAlive: the counter of successes is not reset.
markAliveKeepsCount ==
  /\ successRate' = successRate + 1
  /\ IF successRate + 1 >= Threshold
     THEN sick' = FALSE /\ sickRate' = 0
     ELSE UNCHANGED <<sick, sickRate>>

markAlive ==
  IF successRate + 1 >= Threshold
  THEN sick' = FALSE /\ sickRate' = 0 /\ successRate' = 0
  ELSE successRate' = successRate + 1 /\ UNCHANGED <<sick, sickRate>>
\* The process ends, with every goroutine.
Exit ==
  /\ pc' = [d \in Dialers |-> "exit"]
  /\ stage' = [p \in Procs |-> "none"]
  /\ callBackCh' = [i \in Ids |-> NoOne]
  /\ lock' = NoOne
  /\ UNCHANGED <<ID, netVars, flagVars, serverVars, healthVars, chClosed,
                 result, method, reqId, reqConn, readVars, workVars>>

-----------------------------------------------------------------------------
(* request and send, as run by any goroutine p.                            *)

\* Mutant of Draw: the counter is read and written in two steps.
DrawRacy(p, m) ==
  /\ stage[p] = "none"
  /\ ID < MaxId
  /\ ID' \in {ID, ID + 1}
  /\ reqId' = [reqId EXCEPT ![p] = ID + 1]
  /\ reqConn' = [reqConn EXCEPT ![p] = conn]
  /\ method' = [method EXCEPT ![p] = m]
  /\ result' = [result EXCEPT ![p] = "none"]
  /\ stage' = [stage EXCEPT ![p] = "register"]

\* The id is drawn from the counter before the client's mutex is taken.
Draw(p, m) ==
  /\ stage[p] = "none"
  /\ ID < MaxId
  /\ ID' = ID + 1
  /\ reqId' = [reqId EXCEPT ![p] = ID + 1]
  /\ reqConn' = [reqConn EXCEPT ![p] = conn]
  /\ method' = [method EXCEPT ![p] = m]
  /\ result' = [result EXCEPT ![p] = "none"]
  /\ stage' = [stage EXCEPT ![p] = "register"]

\* Main is in the loop of Stratum(), at its select or changing the DAG, or
\* has left it.
Loop == {"running", "changing", "generating"}
Ending == {"interrupted", "stopping", "closed"}

\* GetWork, SubmitHashrate and SubmitWorkStr: the first two send nothing
\* unless the pool speaks etherproxy.
Call(p) ==
  /\ p \in Callers
  /\ pc[Main] \in Loop \cup Ending
  /\ \E m \in IF mode = "etherproxy" THEN {"eth_getWork", "other"}
              ELSE {"other"} : Draw(p, m)
  /\ UNCHANGED <<lock, netVars, flagVars, serverVars, healthVars, tableVars,
                 readVars, pc, workVars>>

\* A new unbuffered channel is stored under the request's id.
Register(p) ==
  /\ stage[p] = "register"
  /\ lock = NoOne
  /\ callBackCh' = [callBackCh EXCEPT ![reqId[p]] = p]
  /\ chClosed' = chClosed \ {p}
  /\ stage' = [stage EXCEPT ![p] = "write"]
  /\ UNCHANGED <<lock, ID, netVars, flagVars, serverVars, healthVars, result,
                 method, reqId, reqConn, readVars, pc, workVars>>

\* What p puts on the wire; "drawn" and "from" are for the properties only.
Request(p) == [conn |-> conn, id |-> reqId[p], from |-> p,
               drawn |-> reqConn[p], method |-> method[p]]

\* Write refuses when the client is closed.
WriteClosed(p) ==
  /\ stage[p] = "write"
  /\ closed
  /\ result' = [result EXCEPT ![p] = "error"]
  /\ stage' = [stage EXCEPT ![p] = "cleanup"]
  /\ UNCHANGED <<lock, ID, netVars, flagVars, serverVars, healthVars,
                 tableVars, method, reqId, reqConn, readVars, pc, workVars>>

WriteTest(p) ==
  /\ stage[p] = "write"
  /\ ~closed
  /\ stage' = [stage EXCEPT ![p] = "writing"]
  /\ UNCHANGED <<lock, ID, netVars, flagVars, serverVars, healthVars,
                 tableVars, result, method, reqId, reqConn, readVars, pc,
                 workVars>>

\* After the test the connection is whichever is there by now, if any; the
\* network may fail any write.
WriteOk(p) ==
  /\ stage[p] = "writing"
  /\ hasConn /\ conn \in open
  /\ wire' = wire \cup {Request(p)}
  /\ stage' = [stage EXCEPT ![p] = "wait"]
  /\ UNCHANGED <<lock, ID, conn, hasConn, open, flagVars, serverVars,
                 healthVars, tableVars, result, method, reqId, reqConn,
                 readVars, pc, workVars>>

WriteFails(p) ==
  /\ stage[p] = "writing"
  /\ hasConn
  /\ result' = [result EXCEPT ![p] = "error"]
  /\ stage' = [stage EXCEPT ![p] = "cleanup"]
  /\ UNCHANGED <<lock, ID, netVars, flagVars, serverVars, healthVars,
                 tableVars, method, reqId, reqConn, readVars, pc, workVars>>

\* c.conn is dereferenced, and nothing recovers in most of the goroutines.
WritePanics(p) ==
  /\ stage[p] = "writing"
  /\ ~hasConn
  /\ Exit

\* The channel was closed by reconnect: "Request cancelled".
Cancelled(p) ==
  /\ stage[p] = "wait"
  /\ p \in chClosed
  /\ result' = [result EXCEPT ![p] = "error"]
  /\ stage' = [stage EXCEPT ![p] = "cleanup"]
  /\ UNCHANGED <<lock, ID, netVars, flagVars, serverVars, healthVars,
                 tableVars, method, reqId, reqConn, readVars, pc, workVars>>

\* responseTimeout fires before a response is received.
TimeOut(p) ==
  /\ stage[p] = "wait"
  /\ markSick
  /\ result' = [result EXCEPT ![p] = "error"]
  /\ stage' = [stage EXCEPT ![p] = "cleanup"]
  /\ UNCHANGED <<lock, ID, netVars, flagVars, serverVars, tableVars, method,
                 reqId, reqConn, readVars, pc, workVars>>

\* The locals of request() go out of scope; a login looks at the result.
Return(p) ==
  /\ stage' = [stage EXCEPT ![p] = "none"]
  /\ result' = [result EXCEPT ![p] = IF p \in Dialers THEN @ ELSE "none"]
  /\ method' = [method EXCEPT ![p] = "other"]
  /\ reqId' = [reqId EXCEPT ![p] = 0]
  /\ reqConn' = [reqConn EXCEPT ![p] = 0]
  /\ chClosed' = chClosed \ {p}

\* Mutant of Cleanup: a request that failed returns without the delete.
CleanupOnlyOk(p) ==
  /\ stage[p] = "cleanup"
  /\ lock = NoOne
  /\ callBackCh' = IF result[p] = "error" THEN callBackCh
                   ELSE [callBackCh EXCEPT ![reqId[p]] = NoOne]
  /\ Return(p)
  /\ UNCHANGED <<lock, ID, netVars, flagVars, serverVars, healthVars,
                 readVars, pc, workVars>>

\* The deferred deleteCallback(id), whosever callback is there by now.
Cleanup(p) ==
  /\ stage[p] = "cleanup"
  /\ lock = NoOne
  /\ callBackCh' = [callBackCh EXCEPT ![reqId[p]] = NoOne]
  /\ Return(p)
  /\ UNCHANGED <<lock, ID, netVars, flagVars, serverVars, healthVars,
                 readVars, pc, workVars>>
-----------------------------------------------------------------------------
(* Dial, as run by Main and by a reconnecting reader.                      *)

\* The connection is up: flags, counter, reader and writer are renewed and
\* a Read goroutine starts, before the login.
DialOk(d) ==
  /\ pc[d] = "dial"
  /\ conn < MaxDials
  /\ conn' = conn + 1 /\ hasConn' = TRUE
  /\ open' = open \cup {conn + 1}
  /\ closed' = FALSE
  /\ ID' = 0
  /\ mode' = Scheme[server]
  /\ pc' = [pc EXCEPT ![d] = IF Scheme[server] = "etherproxy" THEN "auth"
                             ELSE "subscribe",
                      ![conn + 1] = "loop"]
  /\ UNCHANGED <<lock, wire, noReconnect, serverVars, healthVars, tableVars,
                 reqVars, readVars, workVars>>

Failed(d) == IF d = Main THEN "crit" ELSE "reconnect"

\* The address does not resolve, or the dial fails and leaves c.conn nil.
\* dialNextServer: either moves on to the next server, if any.
DialFails(d) ==
  /\ pc[d] = "dial"
  /\ hasConn' \in {hasConn, FALSE}
  /\ pc' = [pc EXCEPT ![d] = IF NServers > serverIdx + 1 THEN "pickDial"
                             ELSE Failed(d)]
  /\ UNCHANGED <<lock, ID, conn, open, wire, flagVars, serverVars,
                 healthVars, tableVars, reqVars, readVars, workVars>>
-----------------------------------------------------------------------------
(* The next server, as taken by dialNextServer and by reconnect.  No mutex *)
(* protects serverIdx: it is read again after the check of its range, and  *)
(* an update may be overwritten by one of another goroutine.               *)

Updating == {"inc", "incDial", "wrap", "wrapDial"}

SetServerIdx(d, idx) ==
  \/ serverIdx' = idx
  \/ /\ \E e \in Dialers \ {d} : pc[e] \in Updating
     /\ UNCHANGED serverIdx

\* c.server = c.backupServers[c.serverIdx+1]
Pick(d) ==
  /\ pc[d] \in {"pick", "pickDial"}
  /\ serverIdx + 1 \in Slots
  /\ server' = serverIdx + 1
  /\ pc' = [pc EXCEPT ![d] = IF @ = "pick" THEN "inc" ELSE "incDial"]
  /\ UNCHANGED <<lock, ID, netVars, flagVars, serverIdx, healthVars,
                 tableVars, reqVars, readVars, workVars>>

\* c.serverIdx++
Increment(d) ==
  /\ pc[d] \in {"inc", "incDial"}
  /\ SetServerIdx(d, serverIdx + 1)
  /\ pc' = [pc EXCEPT ![d] = IF @ = "inc" THEN "wrap" ELSE "wrapDial"]
  /\ UNCHANGED <<lock, ID, netVars, flagVars, server, healthVars, tableVars,
                 reqVars, readVars, workVars>>

\* Mutant of Wrapped: the last server is never followed by the first.
WrappedNever == serverIdx

\* The index goes back to -1 once it is that of the last server.
Wrapped == IF serverIdx + 1 = NServers THEN -1 ELSE serverIdx

Healthy == sick' = FALSE /\ sickRate' = 0 /\ successRate' = 0

\* Both then dial; reconnect forgets the health of the server it left.
Wrap(d) ==
  /\ pc[d] \in {"wrap", "wrapDial"}
  /\ SetServerIdx(d, Wrapped)
  /\ IF pc[d] = "wrap" THEN Healthy ELSE UNCHANGED healthVars
  /\ pc' = [pc EXCEPT ![d] = "dial"]
  /\ UNCHANGED <<lock, ID, netVars, flagVars, server, tableVars, reqVars,
                 readVars, workVars>>

\* Index out of range: nothing recovers in a goroutine of Read.
PickPanics(r) ==
  /\ pc[r] \in {"pick", "pickDial"}
  /\ serverIdx + 1 \notin Slots
  /\ Exit
-----------------------------------------------------------------------------
(* Subscribe and Auth.                                                     *)

Login(d) ==
  /\ pc[d] \in {"subscribe", "auth"}
  /\ result[d] = "none"
  /\ Draw(d, "login")
  /\ UNCHANGED <<lock, netVars, flagVars, serverVars, healthVars, tableVars,
                 readVars, pc, workVars>>

LoginFails(d) ==
  /\ pc[d] \in {"subscribe", "auth"}
  /\ stage[d] = "none"
  /\ result[d] \in {"refused", "error"}
  /\ result' = [result EXCEPT ![d] = "none"]
  /\ pc' = [pc EXCEPT ![d] = Failed(d)]
  /\ UNCHANGED <<lock, ID, netVars, flagVars, serverVars, healthVars,
                 tableVars, stage, method, reqId, reqConn, readVars, workVars>>

\* The pool's answer may announce EthereumStratum; in that mode a goroutine
\* subscribes to extranonce changes.
Subscribed(d) ==
  /\ pc[d] = "subscribe"
  /\ stage[d] = "none"
  /\ result[d] = "ok"
  /\ mode' \in {mode, "etherstratum"}
  /\ pc' = [pc EXCEPT ![d] = "auth"]
  /\ IF mode' = "etherstratum"
     THEN \E h \in Helpers :
            /\ stage[h] = "none"
            /\ ID < MaxId
            /\ ID' = ID + 1
            /\ reqId' = [reqId EXCEPT ![h] = ID + 1]
            /\ reqConn' = [reqConn EXCEPT ![h] = conn]
            /\ stage' = [stage EXCEPT ![h] = "register"]
     ELSE UNCHANGED <<ID, reqId, reqConn, stage>>
  /\ result' = [result EXCEPT ![d] = "none"]
  /\ UNCHANGED <<lock, netVars, closed, noReconnect, serverVars, healthVars,
                 tableVars, method, readVars, workVars>>

\* Auth succeeded: Dial returns nil, and a reconnecting reader ends.
Authorized(d) ==
  /\ pc[d] = "auth"
  /\ stage[d] = "none"
  /\ result[d] = "ok"
  /\ result' = [result EXCEPT ![d] = "none"]
  /\ pc' = [pc EXCEPT ![d] = IF d = Main THEN "running" ELSE "gone"]
  /\ UNCHANGED <<lock, ID, netVars, flagVars, serverVars, healthVars,
                 tableVars, stage, method, reqId, reqConn, readVars, workVars>>
-----------------------------------------------------------------------------
(* Read, handleStratumMessage and handleNotification, run by reader r.     *)

\* The test at the head of the loop.
ReadTop(r) ==
  /\ pc[r] = "loop"
  /\ pc' = [pc EXCEPT ![r] = IF closed THEN "gone" ELSE "reading"]
  /\ UNCHANGED <<lock, ID, netVars, flagVars, serverVars, healthVars,
                 tableVars, reqVars, readVars, workVars>>

\* The connection read is the one that is there by now, if any.
ReadStart(r) ==
  /\ pc[r] = "reading"
  /\ hasConn
  /\ pc' = [pc EXCEPT ![r] = "read"]
  /\ rd' = [rd EXCEPT ![r] = conn]
  /\ UNCHANGED <<lock, ID, netVars, flagVars, serverVars, healthVars,
                 tableVars, reqVars, msg, to, todo, workVars>>

ReadPanics(r) ==
  /\ pc[r] = "reading"
  /\ ~hasConn
  /\ Exit

ReadError(r) ==
  /\ pc[r] = "read"
  /\ pc' = [pc EXCEPT ![r] = IF noReconnect THEN "gone" ELSE "reconnect"]
  /\ rd' = [rd EXCEPT ![r] = 0]
  /\ UNCHANGED <<lock, ID, netVars, flagVars, serverVars, healthVars,
                 tableVars, reqVars, msg, to, todo, workVars>>

\* A line that is not JSON.
ReadGarbage(r) ==
  /\ pc[r] = "read" /\ rd[r] \in open
  /\ markSick
  /\ pc' = [pc EXCEPT ![r] = "loop"]
  /\ rd' = [rd EXCEPT ![r] = 0]
  /\ UNCHANGED <<lock, ID, netVars, flagVars, serverVars, tableVars, reqVars,
                 msg, to, todo, workVars>>

\* The answer to a request; the answer to eth_getWork may carry no id.
ReadResponse(r) ==
  /\ pc[r] = "read" /\ rd[r] \in open
  /\ \E w \in wire :
       /\ w.conn = rd[r]
       /\ wire' = wire \ {w}
       /\ msg' = [msg EXCEPT ![r] = w]
       /\ \/ pc' = [pc EXCEPT ![r] = "response"]
          \/ /\ w.method = "eth_getWork"
             /\ pc' = [pc EXCEPT ![r] = "noteDefault"]
  /\ rd' = [rd EXCEPT ![r] = 0]
  /\ UNCHANGED <<lock, ID, conn, hasConn, open, flagVars, serverVars,
                 healthVars, tableVars, reqVars, to, todo, workVars>>

\* A push of the pool: one of the mining.* methods, or a bare work package.
ReadPush(r) ==
  /\ pc[r] = "read" /\ rd[r] \in open
  /\ \E kind \in {"noteWork", "noteDefault"} :
       pc' = [pc EXCEPT ![r] = kind]
  /\ rd' = [rd EXCEPT ![r] = 0]
  /\ UNCHANGED <<lock, ID, netVars, flagVars, serverVars, healthVars,
                 tableVars, reqVars, msg, to, todo, workVars>>

\* Mutant of HandleResponse: an unknown id returns without unlocking.
HandleResponseKeepsLock(r) ==
  /\ pc[r] = "response"
  /\ lock = NoOne
  /\ LET q == callBackCh[msg[r].id]
     IN IF q = NoOne
        THEN /\ pc' = [pc EXCEPT ![r] = "loop"]
             /\ UNCHANGED <<msg, to>>
        ELSE /\ pc' = [pc EXCEPT ![r] = "deliver"]
             /\ to' = [to EXCEPT ![r] = q]
             /\ UNCHANGED msg
  /\ lock' = r
  /\ UNCHANGED <<ID, netVars, flagVars, serverVars, healthVars, tableVars,
                 reqVars, rd, todo, workVars>>

\* The mutex stays held while the response is sent on the channel.
HandleResponse(r) ==
  /\ pc[r] = "response"
  /\ lock = NoOne
  /\ LET q == callBackCh[msg[r].id]
     IN IF q = NoOne
        THEN /\ pc' = [pc EXCEPT ![r] = "loop"]
             /\ msg' = [msg EXCEPT ![r] = NoMsg]
             /\ UNCHANGED <<lock, to>>
        ELSE /\ pc' = [pc EXCEPT ![r] = "deliver"]
             /\ to' = [to EXCEPT ![r] = q]
             /\ lock' = r
             /\ UNCHANGED msg
  /\ UNCHANGED <<ID, netVars, flagVars, serverVars, healthVars, tableVars,
                 reqVars, rd, todo, workVars>>

\* callWorkCh, or the default branch: the notify_Work channel when there is
\* one, and the mutex stays held while sending on it.
HandlePush(r) ==
  /\ pc[r] \in {"noteWork", "noteDefault"}
  /\ lock = NoOne
  /\ listener # "unregistered"
  /\ markAlive
  /\ lock' = r
  /\ pc' = [pc EXCEPT ![r] = "notify"]
  /\ msg' = [msg EXCEPT ![r] = NoMsg]
  /\ UNCHANGED <<ID, netVars, flagVars, serverVars, tableVars, reqVars,
                 rd, to, todo, workVars>>

\* Mutant of WaitingGetWork: the method of a callback is not compared.
WaitingAny == {q \in Procs : \E i \in Ids : callBackCh[i] = q}

WaitingGetWork ==
  {q \in Procs : method[q] = "eth_getWork" /\
                 \E i \in Ids : callBackCh[i] = q}

\* No receiver is registered: a mining.* message ends there, as one that
\* does not decode does, and anything else is sent to every request for work
\* (searchWaitingResponses).
HandleUnclaimed(r) ==
  /\ pc[r] \in {"noteWork", "noteDefault"}
  /\ lock = NoOne
  /\ listener = "unregistered" \/ pc[r] = "noteWork"
  /\ IF pc[r] = "noteWork" \/ WaitingGetWork = {}
     THEN /\ pc' = [pc EXCEPT ![r] = "loop"]
          /\ UNCHANGED <<lock, to, todo>>
     ELSE /\ pc' = [pc EXCEPT ![r] = "deliver"]
          /\ lock' = r
          /\ \E q \in WaitingGetWork :
               /\ to' = [to EXCEPT ![r] = q]
               /\ todo' = [todo EXCEPT ![r] = WaitingGetWork \ {q}]
  /\ msg' = [msg EXCEPT ![r] = NoMsg]
  /\ UNCHANGED <<ID, netVars, flagVars, serverVars, healthVars, tableVars,
                 reqVars, rd, workVars>>

\* The receiver takes the response; the sender goes on to the next callback
\* or releases the mutex.
Deliver(r) ==
  /\ pc[r] = "deliver"
  /\ stage[to[r]] = "wait"
  /\ \E res \in {"ok", "refused"} : result' = [result EXCEPT ![to[r]] = res]
  /\ stage' = [stage EXCEPT ![to[r]] = "cleanup"]
  /\ markAlive
  /\ IF todo[r] = {}
     THEN /\ pc' = [pc EXCEPT ![r] = "loop"]
          /\ lock' = NoOne
          /\ to' = [to EXCEPT ![r] = NoOne]
          /\ msg' = [msg EXCEPT ![r] = NoMsg]
          /\ UNCHANGED todo
     ELSE /\ \E q \in todo[r] :
               /\ to' = [to EXCEPT ![r] = q]
               /\ todo' = [todo EXCEPT ![r] = @ \ {q}]
          /\ UNCHANGED <<pc, lock, msg>>
  /\ UNCHANGED <<ID, netVars, flagVars, serverVars, tableVars, method, reqId,
                 reqConn, rd, workVars>>

\* Mutant of Notify: the mutex is kept after the send.
NotifyKeepsLock(r) ==
  /\ pc[r] = "notify"
  /\ listener = "recv"
  /\ listener' = "busy"
  /\ pc' = [pc EXCEPT ![r] = "loop"]
  /\ UNCHANGED <<lock, ID, netVars, flagVars, serverVars, healthVars,
                 tableVars, reqVars, readVars, mining>>

Notify(r) ==
  /\ pc[r] = "notify"
  /\ listener = "recv"
  /\ listener' = "busy"
  /\ lock' = NoOne
  /\ pc' = [pc EXCEPT ![r] = "loop"]
  /\ UNCHANGED <<ID, netVars, flagVars, serverVars, healthVars, tableVars,
                 reqVars, readVars, mining>>
-----------------------------------------------------------------------------
(* reconnect and Close.                                                    *)

\* Mutant of Reconnect: noReconnect is not consulted.
ReconnectAlways(r) ==
  /\ pc[r] = "reconnect"
  /\ pc' = [pc EXCEPT ![r] = "closing"]
  /\ UNCHANGED <<lock, ID, netVars, flagVars, serverVars, healthVars,
                 tableVars, reqVars, readVars, workVars>>

Reconnect(r) ==
  /\ pc[r] = "reconnect"
  /\ pc' = [pc EXCEPT ![r] = IF noReconnect THEN "gone" ELSE "closing"]
  /\ UNCHANGED <<lock, ID, netVars, flagVars, serverVars, healthVars,
                 tableVars, reqVars, readVars, workVars>>

\* Close(arg) overwrites noReconnect and closes the current connection: the
\* answers still due on it are lost.
Close(arg) ==
  /\ noReconnect' = arg
  /\ IF ~closed /\ hasConn
     THEN closed' = TRUE /\ open' = open \ {conn}
     ELSE UNCHANGED <<closed, open>>
  /\ wire' = {w \in wire : w.conn \in open'}

\* Mutant of ReconnectClose: the connection is not closed before the sleep.
ReconnectKeepsOpen(r) ==
  /\ pc[r] = "closing"
  /\ pc' = [pc EXCEPT ![r] = "sweep"]
  /\ UNCHANGED <<lock, ID, netVars, flagVars, serverVars, healthVars,
                 tableVars, reqVars, readVars, workVars>>

ReconnectClose(r) ==
  /\ pc[r] = "closing"
  /\ Close(FALSE)
  /\ pc' = [pc EXCEPT ![r] = "sweep"]
  /\ UNCHANGED <<lock, ID, conn, hasConn, mode, serverVars, healthVars,
                 tableVars, reqVars, readVars, workVars>>

\* Mutant of Sweep: channels are closed but stay in the table.
SweepKeepsEntries(r) ==
  /\ pc[r] = "sweep"
  /\ lock = NoOne
  /\ chClosed' = chClosed \cup {q \in Procs : \E i \in Ids : callBackCh[i] = q}
  /\ pc' = [pc EXCEPT ![r] = "rotate"]
  /\ UNCHANGED <<lock, ID, netVars, flagVars, serverVars, healthVars,
                 callBackCh, reqVars, readVars, workVars>>

\* After connectRetryTime every pending request is cancelled.
Sweep(r) ==
  /\ pc[r] = "sweep"
  /\ lock = NoOne
  /\ chClosed' = chClosed \cup {q \in Procs : \E i \in Ids : callBackCh[i] = q}
  /\ callBackCh' = [i \in Ids |-> NoOne]
  /\ pc' = [pc EXCEPT ![r] = "rotate"]
  /\ UNCHANGED <<lock, ID, netVars, flagVars, serverVars, healthVars, reqVars,
                 readVars, workVars>>

\* A sick server is left for the next one in the list.
Rotate(r) ==
  /\ pc[r] = "rotate"
  /\ IF sick /\ NServers > serverIdx + 1
     THEN /\ pc' = [pc EXCEPT ![r] = "pick"]
          /\ UNCHANGED healthVars
     ELSE /\ pc' = [pc EXCEPT ![r] = "dial"]
          /\ Healthy
  /\ UNCHANGED <<lock, ID, netVars, flagVars, serverVars, tableVars, reqVars,
                 readVars, workVars>>
-----------------------------------------------------------------------------
(* The users of the client in Stratum(): checkNewWork and the main loop.   *)

\* log.Crit: the first Dial failed.
Crit == pc[Main] = "crit" /\ Exit

\* All that a step of checkNewWork alone leaves unchanged.
ClientUnchanged ==
  UNCHANGED <<lock, ID, netVars, flagVars, serverVars, healthVars, tableVars,
              reqVars, readVars>>

ListenerRegister ==
  /\ pc[Main] \in {"running", "interrupted"}
  /\ listener = "unregistered"
  /\ lock = NoOne
  /\ listener' = "recv"
  /\ UNCHANGED <<pc, mining>> /\ ClientUnchanged

\* The package does not decode, or its header goes on to changeDAG when the
\* size of its DAG is another, or it is set as the miner's work.
ListenerHandles ==
  /\ listener = "busy"
  /\ listener' \in {"recv", "changeDAG", "workChanged"}
  /\ UNCHANGED <<pc, mining>> /\ ClientUnchanged

\* changeDAG is received in the select of the main loop.
ChangeDAG ==
  /\ listener = "changeDAG"
  /\ pc[Main] = "running"
  /\ listener' = "workChanged"
  /\ pc' = [pc EXCEPT ![Main] = "changing"]
  /\ UNCHANGED mining /\ ClientUnchanged

\* miner.WorkChanged() returns once every device has received, which the
\* goroutines of the devices do as long as they run (WorkDelivered of
\* MiningMode).
WorkChanged ==
  /\ listener = "workChanged"
  /\ mining
  /\ listener' = "recv"
  /\ UNCHANGED <<pc, mining>> /\ ClientUnchanged

\* wg.Wait(): the goroutines of the devices ended, and none is started again
\* (MiningResumes of MiningMode).
DevicesStopped ==
  /\ pc[Main] = "changing"
  /\ mining' = FALSE
  /\ pc' = [pc EXCEPT ![Main] = "generating"]
  /\ UNCHANGED listener /\ ClientUnchanged

DagChanged ==
  /\ pc[Main] = "generating"
  /\ pc' = [pc EXCEPT ![Main] = "running"]
  /\ UNCHANGED workVars /\ ClientUnchanged

\* stopChan is received, and Main sends on stopCheckNewWork.
Interrupt ==
  /\ pc[Main] = "running"
  /\ pc' = [pc EXCEPT ![Main] = "interrupted"]
  /\ UNCHANGED workVars /\ ClientUnchanged

\* stopCheckNewWork is received; the channel stays registered.
StopListener ==
  /\ pc[Main] = "interrupted"
  /\ listener = "recv"
  /\ listener' = "stopped"
  /\ pc' = [pc EXCEPT ![Main] = "stopping"]
  /\ UNCHANGED mining /\ ClientUnchanged

\* Close(true): at the end of a stop, or when a new DAG could not be built
\* (checkNewWork is not stopped then).
MainClose ==
  /\ pc[Main] \in {"generating", "stopping"}
  /\ Close(TRUE)
  /\ pc' = [pc EXCEPT ![Main] = "closed"]
  /\ UNCHANGED <<lock, ID, conn, hasConn, mode, serverVars, healthVars,
                 tableVars, reqVars, readVars, workVars>>
-----------------------------------------------------------------------------
RequestStep(p) ==
  \/ Call(p) \/ Register(p) \/ WriteClosed(p) \/ WriteTest(p)
  \/ WriteOk(p) \/ WriteFails(p)
  \/ Cancelled(p) \/ TimeOut(p) \/ Cleanup(p)

DialStep(d) ==
  \/ DialOk(d) \/ DialFails(d) \/ Pick(d) \/ Increment(d) \/ Wrap(d)
  \/ Login(d) \/ LoginFails(d) \/ Subscribed(d) \/ Authorized(d)

ReaderStep(r) ==
  \/ ReadTop(r) \/ ReadStart(r) \/ ReadError(r) \/ ReadGarbage(r)
  \/ ReadResponse(r) \/ ReadPush(r)
  \/ HandleResponse(r) \/ HandlePush(r) \/ HandleUnclaimed(r)
  \/ Deliver(r) \/ Notify(r)
  \/ Reconnect(r) \/ ReconnectClose(r) \/ Sweep(r) \/ Rotate(r)

ExitStep ==
  \/ Crit
  \/ \E p \in Procs : WritePanics(p)
  \/ \E r \in Readers : ReadPanics(r) \/ PickPanics(r)

UserStep ==
  \/ ListenerRegister \/ ListenerHandles \/ ChangeDAG \/ WorkChanged
  \/ DevicesStopped \/ DagChanged \/ Interrupt \/ StopListener \/ MainClose

Next ==
  \/ \E p \in Procs : RequestStep(p)
  \/ \E d \in Dialers : DialStep(d)
  \/ \E r \in Readers : ReaderStep(r)
  \/ UserStep
  \/ ExitStep

Spec == Init /\ [][Next]_vars

\* A goroutine that can run does; a sync.Mutex is handed to a waiter that
\* has starved, so waiting for it is strongly fair; timers fire; sleeps end.
\* Nothing is assumed of the pool, the network or the callers.
Fairness ==
  /\ \A p \in Procs :
       /\ WF_vars(\/ WriteClosed(p) \/ WriteTest(p)
                  \/ WriteOk(p) \/ WriteFails(p) \/ WritePanics(p)
                  \/ Cancelled(p) \/ TimeOut(p))
       /\ SF_vars(Register(p) \/ Cleanup(p))
  /\ \A r \in Readers :
       /\ WF_vars(Deliver(r) \/ Notify(r) \/ Reconnect(r)
                  \/ ReconnectClose(r) \/ Rotate(r) \/ PickPanics(r)
                  \/ Pick(r) \/ Increment(r) \/ Wrap(r))
       /\ SF_vars(HandleResponse(r) \/ HandlePush(r) \/ HandleUnclaimed(r)
                  \/ Sweep(r))
  /\ WF_vars(ListenerHandles) /\ WF_vars(ChangeDAG) /\ WF_vars(WorkChanged)
  /\ WF_vars(DevicesStopped) /\ WF_vars(DagChanged \/ MainClose \/ Crit)

FairSpec == Spec /\ Fairness
-----------------------------------------------------------------------------
(* Properties.                                                             *)

\* Every stored callback belongs to the request in progress that has its id,
\* and its channel is not closed: deleteCallback and the sweep of reconnect
\* leave nothing behind that a response could still be sent to.
CallbackOwned ==
  \A i \in Ids : callBackCh[i] # NoOne =>
    /\ stage[callBackCh[i]] \in Stored
    /\ reqId[callBackCh[i]] = i
    /\ callBackCh[i] \notin chClosed

\* The reader never sends on a closed channel (which would panic), however
\* the sweep of another reader, a time-out or a new request with the same id
\* interleave with handleStratumMessage and searchWaitingResponses.
NoSendOnClosed ==
  \A r \in Readers : pc[r] = "deliver" =>
    \A q \in {to[r]} \cup todo[r] :
      q \notin chClosed /\ stage[q] \in Stored

\* A response reaches a request other than the one it answers only when the
\* ids of the two were drawn from the counters of different connections
\* (request() draws before the mutex, Dial resets the counter).
ReplyOfSameConnection ==
  \A r \in Readers :
    pc[r] = "deliver" /\ msg[r] # NoMsg /\ to[r] # msg[r].from =>
      reqConn[to[r]] # msg[r].drawn

\* A message without an id is only given to requests for work, and stays so
\* while the reader waits for its send: the requests that are left neither end
\* nor lose their place in the table to another request.
WorkGoesToGetWork ==
  \A r \in Readers : pc[r] = "deliver" /\ msg[r] = NoMsg =>
    \A q \in {to[r]} \cup todo[r] : method[q] = "eth_getWork"

\* Goroutines between the range check of a fail-over and its last update.
FailingOver == {"pick", "pickDial"} \cup Updating
Alone ==
  \A d, e \in Dialers :
    pc[d] \in FailingOver /\ pc[e] \in FailingOver => d = e
IndexOk ==
  NServers > 1 /\ pc[Main] # "exit" =>
    IF \E d \in Dialers : pc[d] \in {"wrap", "wrapDial"}
    THEN serverIdx \in Slots
    ELSE serverIdx + 1 \in Slots

\* With more than one server, a goroutine that fails over with no other doing
\* so leaves serverIdx + 1 an index of backupServers: only two fail-overs at
\* once can take it out of range, where failing over ends or panics.
FailoverAlone == [][Alone /\ IndexOk /\ Alone' => IndexOk']_vars

\* Goroutines between the Close of a reconnect and the end of its Dial.
Redialing == FailingOver \cup {"closing", "sweep", "rotate", "dial"}
OneRedials ==
  \A d, e \in Dialers : pc[d] \in Redialing /\ pc[e] \in Redialing => d = e
ConnPresent == conn > 0 => closed \/ hasConn
ConnOk ==
  /\ ConnPresent
  /\ conn > 0 => \A d \in Dialers : pc[d] \in Redialing \ {"closing"} => closed

\* As long as one goroutine at a time reconnects, it has closed the client when
\* it dials, and a failed Dial leaves no nil c.conn to a goroutine that tests
\* the client for being closed at that moment.
RedialAlone == [][OneRedials /\ ConnOk /\ OneRedials' => ConnOk']_vars

\* After Close(true) with no goroutine reconnecting at that moment, no
\* goroutine ever starts to reconnect or dials again, until the process ends.
Quiet ==
  /\ pc[Main] = "closed" /\ closed /\ noReconnect
  /\ \A d \in Dialers : pc[d] \notin Reconnecting \ {"reconnect"}
CloseSticks == [][Quiet => Quiet' \/ pc'[Main] = "exit"]_vars

\* checkNewWork receives no more: it was stopped, with its channel still
\* registered; it tells devices whose goroutines ended with a DAG change; or
\* it announces a DAG change to a main loop that is being stopped or has ended.
ListenerStuck ==
  \/ listener = "stopped"
  \/ listener = "workChanged" /\ ~mining
  \/ listener = "changeDAG" /\ pc[Main] \in Ending

\* A reader that holds the mutex and sends to a goroutine that receives no
\* more: the requester has timed out and waits for the mutex to delete its
\* callback, or checkNewWork is stuck.
Wedged ==
  \E r \in Readers :
    \/ pc[r] = "deliver" /\ stage[to[r]] = "cleanup"
    \/ pc[r] = "notify" /\ ListenerStuck

\* Every request returns (response, time-out or cancellation), whatever the
\* pool does, unless a reader is stuck in one of these sends.
RequestReturns ==
  \A p \in Procs :
    stage[p] # "none" ~> (stage[p] = "none" \/ Wedged)

\* A reader that lost its connection dials again, or ends because of
\* Close(true), unless a reader is stuck in one of these sends.
ReconnectDials ==
  \A r \in Readers :
    pc[r] = "reconnect" ~> (pc[r] \in {"dial", "gone", "exit"} \/ Wedged)

\* What "10 sec for response timeout" promises: a request that waits for its
\* response returns, at least while nobody stops the client.
ResponseTimeout ==
  \A p \in Callers :
    stage[p] = "wait" ~> (stage[p] = "none" \/ pc[Main] \notin Loop)

\* What "clients with failover" promises: the server that a goroutine is about
\* to fail over to is one of the list.
FailoverFinds ==
  \A d \in Dialers : pc[d] \in {"pick", "pickDial"} => serverIdx + 1 \in Slots

\* What Close promises with noReconnect set: no connection is opened any
\* more once Close(true) has returned.
ClosedForGood == [][pc[Main] = "closed" => conn' = conn]_vars
=============================================================================
