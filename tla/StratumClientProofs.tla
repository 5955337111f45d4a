------------------------ MODULE StratumClientProofs ------------------------
(***************************************************************************)
(* Theorems about StratumClient for every number of goroutines, servers,   *)
(* connections and requests.  They rest on one inductive invariant, Inv:   *)
(* the mutex is held by the reader that sends, an id of one connection is  *)
(* drawn once, and a stored callback is that of a request in progress.     *)
(***************************************************************************)
EXTENDS StratumClient, TLAPS

\* A crash or os.Exit ends every goroutine at once.
ExitIsFinal ==
  (\E d \in Dialers : pc[d] = "exit") => \A d \in Dialers : pc[d] = "exit"

\* Reader n is started by the n-th Dial.
UnbornReaders ==
  \A r \in Readers : r > conn => pc[r] \in {"unborn", "exit"}

\* A reader that sends on a channel holds the mutex.
LockHeld ==
  \A r \in Readers : pc[r] \in {"deliver", "notify"} => lock = r

\* Only a reader in searchWaitingResponses has callbacks left to send to.
NothingLeftTodo ==
  \A r \in Readers : pc[r] \notin {"deliver", "exit"} => todo[r] = {}

\* A response is sent to the request whose id it carries; what a reader
\* sends to several requests carries none.
DeliveryOk ==
  \A r \in Readers :
    /\ pc[r] = "response" => msg[r] \in Messages
    /\ pc[r] = "deliver" =>
         /\ to[r] \in Procs
         /\ todo[r] # {} => msg[r] = NoMsg
         /\ msg[r] # NoMsg => reqId[to[r]] = msg[r].id

\* The ids of a connection count up and no two requests in progress share one.
RequestNumbers ==
  \A p \in Procs : stage[p] # "none" =>
    /\ reqId[p] \in Ids
    /\ reqConn[p] <= conn
    /\ reqConn[p] = conn => reqId[p] <= ID
    /\ \A q \in Procs : q # p /\ stage[q] # "none" /\ reqConn[q] = reqConn[p]
                          => reqId[q] # reqId[p]

\* An answer that is due or being handled was asked for under an id already
\* drawn, and only its own request can have that id of that connection.
Known(w) ==
  /\ w.drawn <= conn
  /\ w.drawn = conn => w.id <= ID
  /\ \A q \in Procs :
       stage[q] # "none" /\ reqConn[q] = w.drawn /\ reqId[q] = w.id
         => q = w.from

\* The answers on the wire and in the hands of a reader are such.
AnswerNumbers ==
  /\ \A w \in wire : Known(w)
  /\ \A r \in Readers : msg[r] # NoMsg => Known(msg[r])

\* The inductive invariant.
Inv ==
  /\ TypeOK /\ ExitIsFinal /\ UnbornReaders /\ LockHeld /\ NothingLeftTodo
  /\ DeliveryOk /\ RequestNumbers /\ AnswerNumbers
  /\ CallbackOwned /\ NoSendOnClosed /\ WorkGoesToGetWork
-----------------------------------------------------------------------------
(* Types, one lemma for each group of variables.                           *)

\* A crash ends every goroutine at once, whichever goroutine it is in.
LEMMA ExitStepExits == ASSUME ExitStep PROVE Exit
<1> QED
  BY DEF ExitStep, Crit, WritePanics, ReadPanics, PickPanics

\* The response channel table is typed after every step.
LEMMA TableTypesStep == ASSUME TypeOK, Next PROVE TableTypes'
<1> USE BoundsAssumption DEF TableTypes, tableVars, TypeOK
<1>1. ASSUME NEW p \in Procs, Register(p) PROVE TableTypes'
  BY <1>1 DEF Register, RequestTypes, Ids
<1>2. ASSUME NEW p \in Procs, Cleanup(p) PROVE TableTypes'
  BY <1>2 DEF Cleanup, Return, RequestTypes, Ids
<1>3. ASSUME NEW r \in Readers, Sweep(r) PROVE TableTypes'
  BY <1>3 DEF Sweep
<1>4. CASE Exit
  BY <1>4 DEF Exit, Ids
<1>5. CASE UNCHANGED tableVars
  BY <1>5
<1> QED
  BY <1>1, <1>2, <1>3, <1>4, <1>5
  DEF Next, RequestStep, DialStep, ReaderStep, UserStep, Call, WriteClosed,
      WriteTest, WriteOk, WriteFails, Cancelled, TimeOut, DialOk, DialFails,
      Pick, Increment, Wrap, Login, LoginFails, Subscribed, Authorized,
      ReadTop, ReadStart, ReadError, ReadGarbage, ReadResponse, ReadPush,
      HandleResponse, HandlePush, HandleUnclaimed, Deliver, Notify, Reconnect,
      ReconnectClose, Rotate, ExitStep, WritePanics, ReadPanics, PickPanics,
      Crit, Exit, ListenerRegister, ListenerHandles, ChangeDAG, WorkChanged,
      DevicesStopped, DagChanged, Interrupt, ClientUnchanged, StopListener,
      MainClose

\* server and serverIdx are typed after every step: the index only moves up by
\* one, or back to -1 by a goroutine that wraps it around.
LEMMA ServerTypesStep == ASSUME TypeOK, Next PROVE ServerTypes'
<1> USE DEF ServerTypes, serverVars, TypeOK
<1>1. ASSUME NEW d \in Dialers, Pick(d) PROVE ServerTypes'
  BY <1>1 DEF Pick
<1>2. ASSUME NEW d \in Dialers, Increment(d) PROVE ServerTypes'
  <2>1. serverIdx' \in {serverIdx, serverIdx + 1} /\ UNCHANGED server
    BY <1>2 DEF Increment, SetServerIdx
  <2> QED
    BY <2>1
<1>3. ASSUME NEW d \in Dialers, Wrap(d) PROVE ServerTypes'
  <2>1. serverIdx' \in {serverIdx, -1} /\ UNCHANGED server
    BY <1>3 DEF Wrap, SetServerIdx, Wrapped
  <2> QED
    BY <2>1
<1>4. CASE UNCHANGED serverVars
  BY <1>4
<1> QED
  BY <1>1, <1>2, <1>3, <1>4
  DEF Next, RequestStep, DialStep, ReaderStep, UserStep, Call, Register,
      WriteClosed, WriteTest, WriteOk, WriteFails, Cancelled, TimeOut, Cleanup,
      DialOk, DialFails, Login, LoginFails, Subscribed, Authorized, ReadTop,
      ReadStart, ReadError, ReadGarbage, ReadResponse, ReadPush,
      HandleResponse, HandlePush, HandleUnclaimed, Deliver, Notify, Reconnect,
      ReconnectClose, Sweep, Rotate, ExitStep, WritePanics, ReadPanics,
      PickPanics, Crit, Exit, ListenerRegister, ListenerHandles, ChangeDAG,
      WorkChanged, DevicesStopped, DagChanged, Interrupt, ClientUnchanged,
      StopListener, MainClose

\* markSick, markAlive and the reset in reconnect keep the counters in range.
LEMMA HealthTypesStep == ASSUME TypeOK, Next PROVE HealthTypes'
<1> USE BoundsAssumption DEF HealthTypes, TypeOK
<1>1. ASSUME markSick PROVE HealthTypes'
  <2>1. sick' \in BOOLEAN
    BY <1>1 DEF markSick
  <2>2. sickRate' \in 0..Threshold /\ successRate' \in 0..Threshold
    BY <1>1 DEF markSick
  <2> QED
    BY <2>1, <2>2
<1>2. ASSUME markAlive PROVE HealthTypes'
  <2>1. sick' \in BOOLEAN
    BY <1>2 DEF markAlive
  <2>2. sickRate' \in 0..Threshold
    BY <1>2 DEF markAlive
  <2>3. successRate' \in 0..Threshold
    BY <1>2 DEF markAlive
  <2> QED
    BY <2>1, <2>2, <2>3
<1>3. ASSUME Healthy PROVE HealthTypes'
  <2>1. sick' \in BOOLEAN
    BY <1>3 DEF Healthy
  <2>2. sickRate' \in 0..Threshold /\ successRate' \in 0..Threshold
    BY <1>3 DEF Healthy
  <2> QED
    BY <2>1, <2>2
<1>4. CASE UNCHANGED healthVars
  BY <1>4 DEF healthVars
<1>5. markSick \/ markAlive \/ Healthy \/ UNCHANGED healthVars
  BY
    DEF Next, RequestStep, DialStep, ReaderStep, UserStep, Call, Register,
        WriteClosed, WriteTest, WriteOk, WriteFails, Cancelled, TimeOut,
        Cleanup, DialOk, DialFails, Pick, Increment, Wrap, Login, LoginFails,
        Subscribed, Authorized, ReadTop, ReadStart, ReadError, ReadGarbage,
        ReadResponse, ReadPush, HandleResponse, HandlePush, HandleUnclaimed,
        Deliver, Notify, Reconnect, ReconnectClose, Sweep, Rotate, ExitStep,
        WritePanics, ReadPanics, PickPanics, Crit, Exit, ListenerRegister,
        ListenerHandles, ChangeDAG, WorkChanged, DevicesStopped, DagChanged,
        Interrupt, ClientUnchanged, StopListener, MainClose
<1> QED
  BY <1>1, <1>2, <1>3, <1>4, <1>5

\* The mutex, the counter, the connections and the flags are typed.
LEMMA ConnectionTypesStep ==
  ASSUME TypeOK, RequestNumbers, Next
  PROVE  ConnectionTypes'
<1> USE BoundsAssumption DEF ConnectionTypes, TypeOK
<1>1. lock' \in Procs \cup {NoOne}
  <2>1. lock' \in {lock, NoOne} \cup Readers
    BY
    DEF Next, RequestStep, DialStep, ReaderStep, UserStep, Call, Register,
        WriteClosed, WriteTest, WriteOk, WriteFails, Cancelled, TimeOut,
        Cleanup, DialOk, DialFails, Pick, Increment, Wrap, Login, LoginFails,
        Subscribed, Authorized, ReadTop, ReadStart, ReadError, ReadGarbage,
        ReadResponse, ReadPush, HandleResponse, HandlePush, HandleUnclaimed,
        Deliver, Notify, Reconnect, ReconnectClose, Sweep, Rotate, ExitStep,
        WritePanics, ReadPanics, PickPanics, Crit, Exit, ListenerRegister,
        ListenerHandles, ChangeDAG, WorkChanged, DevicesStopped, DagChanged,
        Interrupt, ClientUnchanged, StopListener, MainClose
  <2> QED
    BY <2>1 DEF Procs, Dialers
<1>2. ID' \in 0..MaxId
  <2>1. ID' = ID \/ (ID < MaxId /\ ID' = ID + 1) \/ ID' = 0
    BY
    DEF Next, RequestStep, DialStep, ReaderStep, UserStep, Call, Register,
        WriteClosed, WriteTest, WriteOk, WriteFails, Cancelled, TimeOut,
        Cleanup, DialOk, DialFails, Pick, Increment, Wrap, Login, LoginFails,
        Subscribed, Authorized, ReadTop, ReadStart, ReadError, ReadGarbage,
        ReadResponse, ReadPush, HandleResponse, HandlePush, HandleUnclaimed,
        Deliver, Notify, Reconnect, ReconnectClose, Sweep, Rotate, ExitStep,
        WritePanics, ReadPanics, PickPanics, Crit, Exit, ListenerRegister,
        ListenerHandles, ChangeDAG, WorkChanged, DevicesStopped, DagChanged,
        Interrupt, ClientUnchanged, StopListener, MainClose, Draw
  <2> QED
    BY <2>1
<1>7. hasConn' \in BOOLEAN
  <2>1. hasConn' \in {hasConn, TRUE, FALSE}
    BY
  DEF Next, RequestStep, DialStep, ReaderStep, UserStep, Call, Register,
      WriteClosed, WriteTest, WriteOk, WriteFails, Cancelled, TimeOut, Cleanup,
      DialOk, DialFails, Pick, Increment, Wrap, Login, LoginFails, Subscribed,
      Authorized, ReadTop, ReadStart, ReadError, ReadGarbage, ReadResponse,
      ReadPush, HandleResponse, HandlePush, HandleUnclaimed, Deliver, Notify,
      Reconnect, ReconnectClose, Sweep, Rotate, ExitStep, WritePanics,
      ReadPanics, PickPanics, Crit, ListenerRegister, ListenerHandles,
      ChangeDAG, WorkChanged, DevicesStopped, DagChanged, Interrupt,
      ClientUnchanged, StopListener, MainClose, Exit, netVars
  <2> QED
    BY <2>1
<1>3. conn' \in 0..MaxDials /\ open' \subseteq 1..MaxDials
  <2>1. \/ UNCHANGED conn /\ open' \subseteq open
        \/ conn < MaxDials /\ conn' = conn + 1 /\ open' = open \cup {conn + 1}
    <3>1. ASSUME NEW d \in Dialers, DialOk(d)
          PROVE  /\ conn < MaxDials /\ conn' = conn + 1
                 /\ open' = open \cup {conn + 1}
      BY <3>1 DEF DialOk
    <3>2. ASSUME NEW arg, Close(arg) PROVE open' \subseteq open
      BY <3>2 DEF Close
    <3>3. ASSUME NEW r \in Readers, ReaderStep(r)
          PROVE  UNCHANGED conn /\ open' \subseteq open
      BY <3>2, <3>3
      DEF ReaderStep, ReadTop, ReadStart, ReadError, ReadGarbage, ReadResponse,
          ReadPush, HandleResponse, HandlePush, HandleUnclaimed, Deliver,
          Notify, Reconnect, ReconnectClose, Sweep, Rotate, netVars
    <3>4. ASSUME NEW d \in Dialers, DialStep(d), ~ DialOk(d)
          PROVE  UNCHANGED <<conn, open>>
      BY <3>4
      DEF DialStep, DialFails, Pick, Increment, Wrap, Login, LoginFails,
          Subscribed, Authorized, netVars
    <3>5. ASSUME NEW p \in Procs, RequestStep(p)
          PROVE  UNCHANGED <<conn, open>>
      BY <3>5
      DEF RequestStep, Call, Register, WriteClosed, WriteTest, WriteOk,
          WriteFails, Cancelled, TimeOut, Cleanup, netVars
    <3>6. CASE UserStep
      BY <3>2, <3>6
      DEF UserStep, ListenerRegister, ListenerHandles, ChangeDAG, WorkChanged,
          DevicesStopped, DagChanged, Interrupt, ClientUnchanged, StopListener,
          MainClose, netVars
    <3>7. CASE Exit
      BY <3>7 DEF Exit, netVars
    <3> QED
      BY <3>1, <3>3, <3>4, <3>5, <3>6, <3>7, ExitStepExits DEF Next
  <2>2. conn' \in 0..MaxDials
    BY <2>1
  <2>3. open' \subseteq 1..MaxDials
    <3>1. CASE open' \subseteq open
      BY <3>1
    <3>2. CASE conn < MaxDials /\ open' = open \cup {conn + 1}
      <4>1. conn + 1 \in 1..MaxDials
        BY <3>2
      <4> QED
        BY <3>2, <4>1
    <3> QED
      BY <2>1, <3>1, <3>2
  <2> QED
    BY <2>2, <2>3
<1>4. wire' \subseteq Messages
  <2>1. ASSUME NEW p \in Procs, WriteOk(p) PROVE wire' \subseteq Messages
    <3>1. stage[p] # "none"
      BY <2>1 DEF WriteOk
    <3>2. reqId[p] \in Ids
      BY <3>1 DEF RequestNumbers
    <3>3. reqConn[p] \in 0..MaxDials /\ method[p] \in Methods
      BY DEF RequestTypes
    <3>4. Request(p) \in Messages
      BY <3>2, <3>3 DEF Request, Messages
    <3> QED
      BY <2>1, <3>4 DEF WriteOk
  <2>2. ASSUME NEW r \in Readers, ReadResponse(r) PROVE wire' \subseteq Messages
    BY <2>2 DEF ReadResponse
  <2>3. ASSUME NEW arg, Close(arg) PROVE wire' \subseteq Messages
    BY <2>3 DEF Close
  <2>4. CASE UNCHANGED wire
    BY <2>4
  <2> QED
    BY <2>1, <2>2, <2>3, <2>4
    DEF Next, RequestStep, DialStep, ReaderStep, UserStep, Call, Register,
        WriteClosed, WriteTest, WriteFails, Cancelled, TimeOut, Cleanup,
        DialOk, DialFails, Pick, Increment, Wrap, Login, LoginFails,
        Subscribed, Authorized, ReadTop, ReadStart, ReadError, ReadGarbage,
        ReadPush, HandleResponse, HandlePush, HandleUnclaimed, Deliver, Notify,
        Reconnect, ReconnectClose, Sweep, Rotate, ExitStep, WritePanics,
        ReadPanics, PickPanics, Crit, Exit, ListenerRegister, ListenerHandles,
        ChangeDAG, WorkChanged, DevicesStopped, DagChanged, Interrupt,
        ClientUnchanged, StopListener, MainClose, netVars
<1>5. closed' \in BOOLEAN /\ noReconnect' \in BOOLEAN
  <2>1. /\ closed' \in {closed, TRUE, FALSE}
        /\ noReconnect' \in {noReconnect, TRUE, FALSE}
    BY
    DEF Next, RequestStep, DialStep, ReaderStep, UserStep, Call, Register,
        WriteClosed, WriteTest, WriteOk, WriteFails, Cancelled, TimeOut,
        Cleanup, DialOk, DialFails, Pick, Increment, Wrap, Login, LoginFails,
        Subscribed, Authorized, ReadTop, ReadStart, ReadError, ReadGarbage,
        ReadResponse, ReadPush, HandleResponse, HandlePush, HandleUnclaimed,
        Deliver, Notify, Reconnect, ReconnectClose, Sweep, Rotate, ExitStep,
        WritePanics, ReadPanics, PickPanics, Crit, Exit, ListenerRegister,
        ListenerHandles, ChangeDAG, WorkChanged, DevicesStopped, DagChanged,
        Interrupt, ClientUnchanged, StopListener, MainClose, Close, flagVars
  <2> QED
    BY <2>1
<1>6. mode' \in Modes
  <2>1. ASSUME NEW d \in Dialers, DialOk(d) PROVE mode' \in Modes
    BY <2>1 DEF DialOk, ServerTypes
  <2>2. ASSUME NEW d \in Dialers, Subscribed(d) PROVE mode' \in Modes
    BY <2>2 DEF Subscribed, Modes
  <2>3. CASE UNCHANGED mode
    BY <2>3
  <2> QED
    BY <2>1, <2>2, <2>3
    DEF Next, RequestStep, DialStep, ReaderStep, UserStep, Call, Register,
        WriteClosed, WriteTest, WriteOk, WriteFails, Cancelled, TimeOut,
        Cleanup, DialFails, Pick, Increment, Wrap, Login, LoginFails,
        Authorized, ReadTop, ReadStart, ReadError, ReadGarbage, ReadResponse,
        ReadPush, HandleResponse, HandlePush, HandleUnclaimed, Deliver, Notify,
        Reconnect, ReconnectClose, Sweep, Rotate, ExitStep, WritePanics,
        ReadPanics, PickPanics, Crit, Exit, ListenerRegister, ListenerHandles,
        ChangeDAG, WorkChanged, DevicesStopped, DagChanged, Interrupt,
        ClientUnchanged, StopListener, MainClose, flagVars
<1> QED
  BY <1>1, <1>2, <1>3, <1>4, <1>5, <1>6, <1>7

\* What request() keeps of every goroutine is typed after every step.
LEMMA RequestTypesStep == ASSUME TypeOK, Next PROVE RequestTypes'
<1> USE BoundsAssumption DEF RequestTypes, TypeOK
<1>1. ASSUME NEW p \in Procs, NEW m \in Methods, Draw(p, m)
      PROVE  RequestTypes'
  <2>1. ID + 1 \in 0..MaxId /\ conn \in 0..MaxDials
    BY <1>1 DEF Draw, ConnectionTypes
  <2> QED
    BY <1>1, <2>1 DEF Draw
<1>2. ASSUME NEW d \in Dialers, Subscribed(d) PROVE RequestTypes'
  <2>1. CASE mode' = "etherstratum"
    <3>1. ID < MaxId => ID + 1 \in 0..MaxId
      BY DEF ConnectionTypes
    <3>2. conn \in 0..MaxDials
      BY DEF ConnectionTypes
    <3> QED
      BY <1>2, <2>1, <3>1, <3>2 DEF Subscribed
  <2>2. CASE mode' # "etherstratum"
    BY <1>2, <2>2 DEF Subscribed
  <2> QED
    BY <2>1, <2>2
<1>3. ASSUME NEW p \in Procs, Return(p),
             UNCHANGED <<ID>>
      PROVE  RequestTypes'
  <2>1. 0 \in 0..MaxId /\ 0 \in 0..MaxDials
    OBVIOUS
  <2>2. "other" \in Methods
    BY DEF Methods
  <2> QED
    BY <1>3, <2>1, <2>2 DEF Return
<1>4. ASSUME NEW r \in Readers, Deliver(r) PROVE RequestTypes'
  <2>1. stage' \in [Procs -> {"none", "register"} \cup Stored]
    BY <1>4 DEF Deliver, Stored
  <2>2. result' \in [Procs -> {"none", "ok", "refused", "error"}]
    BY <1>4 DEF Deliver
  <2>3. UNCHANGED <<method, reqId, reqConn>>
    BY <1>4 DEF Deliver
  <2> QED
    BY <2>1, <2>2, <2>3
<1>5. CASE Exit
  BY <1>5 DEF Exit
<1>6. ASSUME NEW p \in Procs,
             \/ Register(p) \/ WriteClosed(p) \/ WriteTest(p)
             \/ WriteOk(p) \/ WriteFails(p)
             \/ Cancelled(p) \/ TimeOut(p)
      PROVE  RequestTypes'
  BY <1>6
    DEF Register, WriteClosed, WriteTest, WriteOk, WriteFails, Cancelled,
        TimeOut, Stored
<1>7. ASSUME NEW d \in Dialers, LoginFails(d) \/ Authorized(d)
      PROVE  RequestTypes'
  BY <1>7 DEF LoginFails, Authorized
<1>8. CASE UNCHANGED reqVars
  BY <1>8 DEF reqVars
<1>9. ASSUME NEW p \in Procs, Call(p) PROVE RequestTypes'
  BY <1>1, <1>9 DEF Call, Methods
<1>10. ASSUME NEW d \in Dialers, Login(d) PROVE RequestTypes'
  BY <1>1, <1>10 DEF Login, Methods, Procs
<1>11. ASSUME NEW p \in Procs, Cleanup(p) PROVE RequestTypes'
  BY <1>3, <1>11 DEF Cleanup
<1> QED
  BY <1>2, <1>4, <1>5, <1>6, <1>7, <1>8, <1>9, <1>10, <1>11
  DEF Next, RequestStep, DialStep, ReaderStep, UserStep, DialOk, DialFails,
      Pick, Increment, Wrap, ReadTop, ReadStart, ReadError, ReadGarbage,
      ReadResponse, ReadPush, HandleResponse, HandlePush, HandleUnclaimed,
      Notify, Reconnect, ReconnectClose, Sweep, Rotate, ExitStep, WritePanics,
      ReadPanics, PickPanics, Crit, ListenerRegister, ListenerHandles,
      ChangeDAG, WorkChanged, DevicesStopped, DagChanged, Interrupt,
      ClientUnchanged, StopListener, MainClose

\* What the readers keep is typed after every step: a response is only looked
\* up under an id of the table.
LEMMA ReaderTypesStep ==
  ASSUME TypeOK, DeliveryOk, Next
  PROVE  ReaderTypes'
<1> USE DEF ReaderTypes, TypeOK
<1>1. ASSUME NEW r \in Readers, ReadStart(r) PROVE ReaderTypes'
  BY <1>1 DEF ReadStart, ConnectionTypes
<1>2. ASSUME NEW r \in Readers,
             ReadError(r) \/ ReadGarbage(r) \/ ReadPush(r)
      PROVE  ReaderTypes'
  <2>1. 0 \in 0..MaxDials
    BY BoundsAssumption
  <2> QED
    BY <1>2, <2>1 DEF ReadError, ReadGarbage, ReadPush
<1>3. ASSUME NEW r \in Readers, ReadResponse(r) PROVE ReaderTypes'
  <2>1. 0 \in 0..MaxDials
    BY BoundsAssumption
  <2> QED
    BY <1>3, <2>1 DEF ReadResponse, ConnectionTypes
<1>4. ASSUME NEW r \in Readers, HandleResponse(r) PROVE ReaderTypes'
  <2>1. msg[r] \in Messages
    BY <1>4 DEF HandleResponse, DeliveryOk
  <2>2. msg[r].id \in Ids
    BY <2>1 DEF Messages
  <2>3. callBackCh[msg[r].id] \in Procs \cup {NoOne}
    BY <2>2 DEF TableTypes
  <2> QED
    BY <1>4, <2>3 DEF HandleResponse
<1>5. ASSUME NEW r \in Readers, HandlePush(r) PROVE ReaderTypes'
  BY <1>5 DEF HandlePush
<1>6. ASSUME NEW r \in Readers, HandleUnclaimed(r) PROVE ReaderTypes'
  BY <1>6 DEF HandleUnclaimed, WaitingGetWork
<1>7. ASSUME NEW r \in Readers, Deliver(r) PROVE ReaderTypes'
  BY <1>7 DEF Deliver
<1>8. CASE UNCHANGED readVars
  BY <1>8 DEF readVars
<1> QED
  BY <1>1, <1>2, <1>3, <1>4, <1>5, <1>6, <1>7, <1>8
  DEF Next, RequestStep, DialStep, ReaderStep, UserStep, Call, Register,
      WriteClosed, WriteTest, WriteOk, WriteFails, Cancelled, TimeOut, Cleanup,
      DialOk, DialFails, Pick, Increment, Wrap, Login, LoginFails, Subscribed,
      Authorized, Notify, ReadTop, Reconnect, ReconnectClose, Sweep, Rotate,
      ExitStep, WritePanics, ReadPanics, PickPanics, Crit, ListenerRegister,
      ListenerHandles, ChangeDAG, WorkChanged, DevicesStopped, DagChanged,
      Interrupt, ClientUnchanged, StopListener, MainClose, Exit

\* Every goroutine is at one of its places after every step.
LEMMA ControlTypesStep == ASSUME TypeOK, Next PROVE ControlTypes'
<1> USE DEF ControlTypes, TypeOK, Places, Reconnecting, workVars
<1>1. ASSUME NEW d \in Dialers, DialStep(d) PROVE ControlTypes'
  BY <1>1
  DEF DialStep, DialOk, DialFails, Pick, Increment, Wrap, Login, LoginFails,
      Subscribed, Authorized, Failed
<1>2. ASSUME NEW r \in Readers, ReaderStep(r) PROVE ControlTypes'
  BY <1>2
  DEF ReaderStep, ReadTop, ReadStart, ReadError, ReadGarbage, ReadResponse,
      ReadPush, HandleResponse, HandlePush, HandleUnclaimed, Deliver, Notify,
      Reconnect, ReconnectClose, Sweep, Rotate, Exit
<1>3. CASE UserStep
  BY <1>3
  DEF UserStep, Exit, ListenerRegister, ListenerHandles, ChangeDAG,
      WorkChanged, DevicesStopped, DagChanged, Interrupt, ClientUnchanged,
      StopListener, MainClose
<1>4. ASSUME NEW p \in Procs, RequestStep(p) PROVE ControlTypes'
  BY <1>4
  DEF RequestStep, Call, Register, WriteClosed, WriteTest, WriteOk, WriteFails,
      Cancelled, TimeOut, Cleanup
<1>5. CASE ExitStep
  BY <1>5, ExitStepExits DEF Exit
<1> QED
  BY <1>1, <1>2, <1>3, <1>4, <1>5 DEF Next

-----------------------------------------------------------------------------
(* What a step does to a goroutine that it is not about.                   *)

\* Only a dialer that runs changes its own place; DialOk also starts a reader
\* and Exit ends the process.
LEMMA PlaceStep ==
  ASSUME TypeOK, Next
  PROVE  \/ Exit
         \/ \E d \in Dialers : DialOk(d)
         \/ /\ UNCHANGED conn
            /\ \E d \in Dialers :
                 /\ pc[d] \notin {"unborn", "exit"}
                 /\ pc'[d] \notin {"unborn", "exit"}
                 /\ \A e \in Dialers \ {d} : pc'[e] = pc[e]
         \/ UNCHANGED <<conn, pc>>
<1> USE DEF TypeOK, ControlTypes
<1> DEFINE Moves(d) == /\ UNCHANGED conn
                       /\ pc[d] \notin {"unborn", "exit"}
                       /\ pc'[d] \notin {"unborn", "exit"}
                       /\ \A e \in Dialers \ {d} : pc'[e] = pc[e]
<1>1. ASSUME NEW r \in Readers, ReaderStep(r) PROVE Moves(r)
  <2>1. r \in Dialers
    BY DEF Dialers
  <2> QED
    BY <1>1, <2>1
    DEF ReaderStep, ReadTop, ReadStart, ReadError, ReadGarbage, ReadResponse,
        ReadPush, HandleResponse, HandlePush, HandleUnclaimed, Deliver, Notify,
        Reconnect, ReconnectClose, Sweep, Rotate, netVars
<1>2. ASSUME NEW d \in Dialers, DialStep(d)
      PROVE  DialOk(d) \/ Moves(d)
  BY <1>2
  DEF DialStep, DialFails, Pick, Increment, Wrap, Login, LoginFails,
      Subscribed, Authorized, Failed, netVars, Draw
<1>3. CASE UserStep
  <2>1. Main \in Dialers
    BY DEF Dialers
  <2> QED
    BY <1>3, <2>1
    DEF UserStep, ListenerRegister, ListenerHandles, ChangeDAG, WorkChanged,
        DevicesStopped, DagChanged, Interrupt, ClientUnchanged, StopListener,
        MainClose, netVars
<1>4. ASSUME NEW p \in Procs, RequestStep(p) PROVE UNCHANGED <<conn, pc>>
  BY <1>4
  DEF RequestStep, Call, Register, WriteClosed, WriteTest, WriteOk, WriteFails,
      Cancelled, TimeOut, Cleanup, netVars
<1>5. Readers \subseteq Dialers
  BY DEF Dialers
<1> QED
  BY <1>1, <1>2, <1>3, <1>4, <1>5, ExitStepExits DEF Next

\* Only the reader itself starts to send, and only a send changes what is sent.
LEMMA SendingStep ==
  ASSUME TypeOK, ExitIsFinal, UnbornReaders, Next,
         NEW r \in Readers, pc'[r] = "deliver"
  PROVE  \/ HandleResponse(r) \/ HandleUnclaimed(r) \/ Deliver(r)
         \/ /\ pc[r] = "deliver"
            /\ to'[r] = to[r] /\ todo'[r] = todo[r] /\ msg'[r] = msg[r]
<1> USE DEF TypeOK, ControlTypes, ReaderTypes
<1> DEFINE Same == /\ pc[r] = "deliver"
                   /\ to'[r] = to[r] /\ todo'[r] = todo[r] /\ msg'[r] = msg[r]
<1>0. r \in Dialers
  BY DEF Dialers
<1>1. ASSUME NEW s \in Readers \ {r}, ReaderStep(s) PROVE Same
  BY <1>0, <1>1
  DEF ReaderStep, ReadTop, ReadStart, ReadError, ReadGarbage, ReadResponse,
      ReadPush, HandleResponse, HandlePush, HandleUnclaimed, Deliver, Notify,
      Reconnect, ReconnectClose, Sweep, Rotate, Exit, readVars
<1>2. ASSUME ReaderStep(r)
      PROVE  HandleResponse(r) \/ HandleUnclaimed(r) \/ Deliver(r)
  BY <1>0, <1>2
  DEF ReaderStep, ReadTop, ReadStart, ReadError, ReadGarbage, ReadResponse,
      ReadPush, HandlePush, Notify, Reconnect, ReconnectClose, Sweep, Rotate,
      Exit
<1>3. ASSUME NEW d \in Dialers, DialStep(d) PROVE Same
  BY <1>0, <1>3
  DEF DialStep, DialOk, DialFails, Pick, Increment, Wrap, Login, LoginFails,
      Subscribed, Authorized, Failed, readVars
<1>4. CASE UserStep
  BY <1>0, <1>4
  DEF UserStep, Exit, ListenerRegister, ListenerHandles, ChangeDAG,
      WorkChanged, DevicesStopped, DagChanged, Interrupt, ClientUnchanged,
      StopListener, MainClose, readVars
<1>5. ASSUME NEW p \in Procs, RequestStep(p) PROVE Same
  BY <1>5
  DEF RequestStep, Call, Register, WriteClosed, WriteTest, WriteOk, WriteFails,
      Cancelled, TimeOut, Cleanup, readVars
<1>6. ~ Exit
  BY <1>0 DEF Exit
<1> QED
  BY <1>1, <1>2, <1>3, <1>4, <1>5, <1>6, ExitStepExits DEF Next

\* A request keeps its id, its method and its callback until it deletes it.
LEMMA StoredStep ==
  ASSUME TypeOK, Next, NEW q \in Procs, stage[q] \in Stored
  PROVE  \/ Exit
         \/ Cleanup(q)
         \/ /\ stage'[q] \in Stored
            /\ reqId'[q] = reqId[q] /\ method'[q] = method[q]
<1> USE DEF TypeOK, RequestTypes
<1> DEFINE Same == /\ stage'[q] \in Stored
                   /\ reqId'[q] = reqId[q] /\ method'[q] = method[q]
<1>0. stage[q] # "none" /\ stage[q] # "register"
  BY DEF Stored
<1>1. ASSUME NEW p \in Procs, NEW m, Draw(p, m) PROVE Same
  BY <1>0, <1>1 DEF Draw
<1>2. ASSUME NEW p \in Procs, RequestStep(p), ~ Call(p) PROVE Cleanup(q) \/ Same
  BY <1>2
  DEF RequestStep, Register, WriteClosed, WriteTest, WriteOk, WriteFails,
      Cancelled, TimeOut, Cleanup, Return, Stored
<1>3. ASSUME NEW p \in Procs, Call(p) PROVE Same
  BY <1>1, <1>3 DEF Call
<1>4. ASSUME NEW d \in Dialers, DialStep(d) PROVE Same
  <2>1. CASE Login(d)
    BY <1>1, <2>1 DEF Login, Procs
  <2>2. CASE Subscribed(d)
    BY <1>0, <2>2 DEF Subscribed
  <2>3. CASE UNCHANGED <<stage, reqId, method>>
    BY <2>3
  <2> QED
    BY <1>4, <2>1, <2>2, <2>3
    DEF DialStep, DialOk, DialFails, Pick, Increment, Wrap, LoginFails,
        Authorized, reqVars
<1>5. ASSUME NEW r \in Readers, ReaderStep(r) PROVE Same
  <2>1. CASE Deliver(r)
    BY <2>1 DEF Deliver, Stored
  <2>2. CASE UNCHANGED <<stage, reqId, method>>
    BY <2>2
  <2> QED
    BY <1>5, <2>1, <2>2
    DEF ReaderStep, ReadTop, ReadStart, ReadError, ReadGarbage, ReadResponse,
        ReadPush, HandleResponse, HandlePush, HandleUnclaimed, Notify,
        Reconnect, ReconnectClose, Sweep, Rotate, reqVars
<1>6. CASE UserStep
  BY <1>6
  DEF UserStep, ListenerRegister, ListenerHandles, ChangeDAG, WorkChanged,
      DevicesStopped, DagChanged, Interrupt, ClientUnchanged, StopListener,
      MainClose, reqVars
<1> QED
  BY <1>2, <1>3, <1>4, <1>5, <1>6, ExitStepExits DEF Next

-----------------------------------------------------------------------------
(* Control: the process exit, the started readers, the mutex.              *)

\* After os.Exit no step brings a goroutine back.
LEMMA ExitIsFinalStep ==
  ASSUME TypeOK, ExitIsFinal, Next
  PROVE  ExitIsFinal'
<1> USE DEF TypeOK, ControlTypes, ExitIsFinal
<1>1. CASE Exit
  BY <1>1 DEF Exit
<1>2. ASSUME NEW d \in Dialers, DialOk(d) PROVE ExitIsFinal'
  <2>1. pc[d] = "dial"
    BY <1>2 DEF DialOk
  <2>2. \A e \in Dialers : pc[e] # "exit"
    BY <2>1
  <2>3. \A e \in Dialers : pc'[e] \in {pc[e], "auth", "subscribe", "loop"}
    BY <1>2 DEF DialOk
  <2> QED
    BY <2>2, <2>3
<1>3. ASSUME NEW d \in Dialers, pc[d] # "exit", pc'[d] # "exit",
             \A e \in Dialers \ {d} : pc'[e] = pc[e]
      PROVE  ExitIsFinal'
  BY <1>3
<1>4. CASE UNCHANGED pc
  BY <1>4
<1> QED
  BY <1>1, <1>2, <1>3, <1>4, PlaceStep

\* A reader that no Dial has started yet takes no step.
LEMMA UnbornReadersStep ==
  ASSUME TypeOK, UnbornReaders, Next
  PROVE  UnbornReaders'
<1> USE DEF TypeOK, ControlTypes, UnbornReaders
<1>1. CASE Exit
  BY <1>1 DEF Exit, Dialers
<1>2. ASSUME NEW d \in Dialers, DialOk(d) PROVE UnbornReaders'
  <2> SUFFICES ASSUME NEW r \in Readers, r > conn'
               PROVE  pc'[r] \in {"unborn", "exit"}
    BY DEF UnbornReaders
  <2>1. conn \in Int /\ conn' = conn + 1 /\ r \in Int
    BY <1>2 DEF DialOk, ConnectionTypes, Readers
  <2>2. r > conn /\ r # conn + 1
    BY <2>1
  <2>3. pc[r] \in {"unborn", "exit"}
    BY <2>2
  <2>4. r # d
    BY <2>3, <1>2 DEF DialOk
  <2> QED
    BY <1>2, <2>2, <2>3, <2>4 DEF DialOk, Dialers
<1>3. ASSUME NEW d \in Dialers, pc[d] \notin {"unborn", "exit"},
             UNCHANGED conn,
             \A e \in Dialers \ {d} : pc'[e] = pc[e]
      PROVE  UnbornReaders'
  BY <1>3 DEF Dialers
<1>4. CASE UNCHANGED <<conn, pc>>
  BY <1>4
<1> QED
  BY <1>1, <1>2, <1>3, <1>4, PlaceStep

\* The reader that a successful Dial starts did not run before.
LEMMA StartedReader ==
  ASSUME TypeOK, ExitIsFinal, UnbornReaders, NEW d \in Dialers, DialOk(d)
  PROVE  conn + 1 \in Readers /\ pc[conn + 1] = "unborn"
<1>1. conn \in Nat /\ conn < MaxDials /\ pc[d] = "dial"
  BY DEF DialOk, TypeOK, ConnectionTypes
<1>2. conn + 1 \in Readers /\ conn + 1 > conn
  BY <1>1, BoundsAssumption DEF Readers
<1>3. pc[conn + 1] \in {"unborn", "exit"}
  BY <1>2 DEF UnbornReaders
<1>4. pc[conn + 1] # "exit"
  BY <1>1, <1>2 DEF ExitIsFinal, Dialers
<1> QED
  BY <1>2, <1>3, <1>4

\* Whoever starts to send has just locked the mutex, and nobody else unlocks it.
LEMMA LockHeldStep ==
  ASSUME TypeOK, LockHeld, Next
  PROVE  LockHeld'
<1> USE DEF TypeOK, ControlTypes, LockHeld
<1> DEFINE Sending(r) == pc[r] \in {"deliver", "notify"}
           Frame == /\ UNCHANGED lock
                    /\ \A s \in Readers : Sending(s)' => Sending(s)
<1>0. Readers \subseteq Dialers /\ NoOne \notin Readers
  BY GoroutinesAssumption DEF Dialers, Procs
<1>1. ASSUME NEW r \in Readers,
             HandleResponse(r) \/ HandlePush(r) \/ HandleUnclaimed(r)
      PROVE  LockHeld'
  <2>1. lock = NoOne
    BY <1>1 DEF HandleResponse, HandlePush, HandleUnclaimed
  <2>2. \A s \in Readers : ~ Sending(s)
    BY <1>0, <2>1
  <2>3. \A s \in Readers \ {r} : pc'[s] = pc[s]
    BY <1>0, <1>1 DEF HandleResponse, HandlePush, HandleUnclaimed
  <2>4. Sending(r)' => lock' = r
    BY <1>0, <1>1 DEF HandleResponse, HandlePush, HandleUnclaimed
  <2> QED
    BY <2>2, <2>3, <2>4
<1>2. ASSUME NEW r \in Readers, Deliver(r) \/ Notify(r)
      PROVE  LockHeld'
  <2>1. lock = r
    BY <1>2 DEF Deliver, Notify
  <2>2. \A s \in Readers \ {r} : ~ Sending(s) /\ pc'[s] = pc[s]
    BY <1>0, <1>2, <2>1 DEF Deliver, Notify
  <2>3. Sending(r)' => lock' = r
    BY <1>0, <1>2, <2>1 DEF Deliver, Notify
  <2> QED
    BY <2>2, <2>3
<1>3. CASE Exit
  BY <1>0, <1>3 DEF Exit
<1>4. CASE Frame
  BY <1>4
<1>5. ASSUME NEW d \in Dialers, DialStep(d) PROVE Frame
  BY <1>0, <1>5
  DEF DialStep, DialOk, DialFails, Pick, Increment, Wrap, Login, LoginFails,
      Subscribed, Authorized, Failed
<1>6. ASSUME NEW p \in Procs, RequestStep(p) PROVE Frame
  BY <1>6
  DEF RequestStep, Call, Register, WriteClosed, WriteTest, WriteOk, WriteFails,
      Cancelled, TimeOut, Cleanup
<1>7. CASE UserStep
  <2>1. Main \notin Readers
    BY DEF Main, Readers
  <2> QED
    BY <1>0, <1>7, <2>1
    DEF UserStep, ListenerRegister, ListenerHandles, ChangeDAG, WorkChanged,
        DevicesStopped, DagChanged, Interrupt, ClientUnchanged, StopListener,
        MainClose
<1>8. ASSUME NEW r \in Readers,
             ReaderStep(r) PROVE Frame \/ LockHeld'
  <2>1. CASE \/ HandleResponse(r) \/ HandlePush(r) \/ HandleUnclaimed(r)
             \/ Deliver(r) \/ Notify(r)
    BY <1>1, <1>2, <2>1
  <2>2. CASE ~ (\/ HandleResponse(r) \/ HandlePush(r) \/ HandleUnclaimed(r)
                \/ Deliver(r) \/ Notify(r))
    BY <1>0, <1>8, <2>2
    DEF ReaderStep, ReadTop, ReadStart, ReadError, ReadGarbage, ReadResponse,
        ReadPush, Reconnect, ReconnectClose, Sweep, Rotate
  <2> QED
    BY <2>1, <2>2
<1> QED
  BY <1>3, <1>4, <1>5, <1>6, <1>7, <1>8, ExitStepExits DEF Next, UserStep

\* Callbacks left to send to appear and are used up while sending.
LEMMA NothingLeftTodoStep ==
  ASSUME TypeOK, ExitIsFinal, UnbornReaders, NothingLeftTodo, Next
  PROVE  NothingLeftTodo'
<1> USE DEF TypeOK, ControlTypes, ReaderTypes, NothingLeftTodo
<1> DEFINE Idle(s) == pc[s] \notin {"deliver", "exit"}
           Frame == UNCHANGED todo /\ \A s \in Readers : Idle(s)' => Idle(s)
<1>0. Readers \subseteq Dialers
  BY DEF Dialers
<1>1. ASSUME NEW r \in Readers, HandleUnclaimed(r) PROVE NothingLeftTodo'
  BY <1>0, <1>1 DEF HandleUnclaimed
<1>2. ASSUME NEW r \in Readers, Deliver(r) PROVE NothingLeftTodo'
  BY <1>0, <1>2 DEF Deliver
<1>3. CASE Exit
  BY <1>0, <1>3 DEF Exit
<1>4. CASE Frame
  BY <1>4
<1>5. ASSUME NEW d \in Dialers, DialOk(d) PROVE Frame
  <2>1. Idle(conn + 1) /\ conn + 1 \in Dialers
    BY <1>0, <1>5, StartedReader
  <2> QED
    BY <1>0, <1>5, <2>1 DEF DialOk, readVars
<1>6. ASSUME NEW d \in Dialers, DialStep(d), ~ DialOk(d) PROVE Frame
  BY <1>0, <1>6
  DEF DialStep, DialFails, Pick, Increment, Wrap, Login, LoginFails,
      Subscribed, Authorized, Failed, readVars
<1>7. ASSUME NEW p \in Procs, RequestStep(p) PROVE Frame
  BY <1>7
  DEF RequestStep, Call, Register, WriteClosed, WriteTest, WriteOk, WriteFails,
      Cancelled, TimeOut, Cleanup, readVars
<1>8. CASE UserStep
  BY <1>0, <1>8
  DEF UserStep, ListenerRegister, ListenerHandles, ChangeDAG, WorkChanged,
      DevicesStopped, DagChanged, Interrupt, ClientUnchanged, StopListener,
      MainClose, readVars
<1>9. ASSUME NEW r \in Readers, ReaderStep(r),
             ~ HandleUnclaimed(r), ~ Deliver(r)
      PROVE  Frame
  BY <1>0, <1>9
  DEF ReaderStep, ReadTop, ReadStart, ReadError, ReadGarbage, ReadResponse,
      ReadPush, HandleResponse, HandlePush, Notify, Reconnect, ReconnectClose,
      Sweep, Rotate, readVars
<1> QED
  BY <1>1, <1>2, <1>3, <1>4, <1>5, <1>6, <1>7, <1>8, <1>9,
     ExitStepExits
  DEF Next, UserStep

-----------------------------------------------------------------------------
(* Requests, the callback table and what is sent to whom.                  *)

\* A new id is drawn, or the requests in progress are those there were.
LEMMA NumberStep ==
  ASSUME TypeOK, Next
  PROVE  \/ \E p \in Procs :
              /\ ID' = ID + 1 /\ conn' = conn
              /\ reqId' = [reqId EXCEPT ![p] = ID + 1]
              /\ reqConn' = [reqConn EXCEPT ![p] = conn]
              /\ \A q \in Procs \ {p} : stage'[q] = stage[q]
              /\ ID < MaxId
         \/ /\ \/ ID' = ID /\ conn' = conn
               \/ conn' = conn + 1
            /\ \A q \in Procs : stage'[q] # "none" =>
                 /\ stage[q] # "none"
                 /\ reqId'[q] = reqId[q] /\ reqConn'[q] = reqConn[q]
<1> USE DEF TypeOK, RequestTypes
<1> DEFINE Drawn(p) == /\ ID' = ID + 1 /\ conn' = conn
                       /\ reqId' = [reqId EXCEPT ![p] = ID + 1]
                       /\ reqConn' = [reqConn EXCEPT ![p] = conn]
                       /\ \A q \in Procs \ {p} : stage'[q] = stage[q]
                       /\ ID < MaxId
           Kept == \A q \in Procs : stage'[q] # "none" =>
                     /\ stage[q] # "none"
                     /\ reqId'[q] = reqId[q] /\ reqConn'[q] = reqConn[q]
           Frame == ID' = ID /\ conn' = conn /\ Kept
<1>1. ASSUME NEW p \in Procs, Call(p) PROVE Drawn(p)
  BY <1>1 DEF Call, Draw, netVars
<1>2. ASSUME NEW p \in Procs, RequestStep(p), ~ Call(p) PROVE Frame
  BY <1>2
  DEF RequestStep, Register, WriteClosed, WriteTest, WriteOk, WriteFails,
      Cancelled, TimeOut, Cleanup, Return, netVars
<1>3. ASSUME NEW d \in Dialers, Login(d) PROVE Drawn(d)
  BY <1>3 DEF Login, Draw, netVars
<1>4. ASSUME NEW d \in Dialers, Subscribed(d)
      PROVE  Frame \/ \E p \in Procs : Drawn(p)
  <2>1. CASE mode' = "etherstratum"
    <3>1. PICK h \in Helpers : /\ ID < MaxId /\ ID' = ID + 1
                               /\ reqId' = [reqId EXCEPT ![h] = ID + 1]
                               /\ reqConn' = [reqConn EXCEPT ![h] = conn]
                               /\ stage' = [stage EXCEPT ![h] = "register"]
      BY <1>4, <2>1 DEF Subscribed
    <3>2. conn' = conn /\ h \in Procs
      BY <1>4 DEF Subscribed, netVars, Procs
    <3>3. Drawn(h)
      BY <3>1, <3>2
    <3> QED
      BY <3>2, <3>3
  <2>2. CASE mode' # "etherstratum"
    BY <1>4, <2>2 DEF Subscribed, netVars
  <2> QED
    BY <2>1, <2>2
<1>5. ASSUME NEW d \in Dialers, DialOk(d) PROVE conn' = conn + 1 /\ Kept
  BY <1>5 DEF DialOk, reqVars
<1>6. ASSUME NEW d \in Dialers,
             \/ DialFails(d) \/ Pick(d) \/ Increment(d) \/ Wrap(d)
             \/ LoginFails(d) \/ Authorized(d)
      PROVE  Frame
  BY <1>6
  DEF DialFails, Pick, Increment, Wrap, LoginFails, Authorized, netVars,
      reqVars
<1>7. ASSUME NEW r \in Readers, Deliver(r) PROVE Frame
  BY <1>7 DEF Deliver, netVars
<1>8. ASSUME NEW r \in Readers, ReaderStep(r), ~ Deliver(r) PROVE Frame
  BY <1>8
  DEF ReaderStep, ReadTop, ReadStart, ReadError, ReadGarbage, ReadResponse,
      ReadPush, HandleResponse, HandlePush, HandleUnclaimed, Notify, Reconnect,
      ReconnectClose, Sweep, Rotate, Exit, netVars, reqVars
<1>9. ASSUME UserStep PROVE Frame
  BY <1>9
  DEF UserStep, Exit, ListenerRegister, ListenerHandles, ChangeDAG,
      WorkChanged, DevicesStopped, DagChanged, Interrupt, ClientUnchanged,
      StopListener, MainClose, netVars, reqVars
<1>11. ASSUME Exit PROVE Frame
  BY <1>11 DEF Exit, netVars
<1>10. Dialers \subseteq Procs
  BY DEF Procs
<1> QED
  BY <1>1, <1>2, <1>3, <1>4, <1>5, <1>6, <1>7, <1>8, <1>9, <1>10,
     <1>11, ExitStepExits
  DEF Next, DialStep

\* Drawing ID + 1 gives a number that no request of this connection has, and
\* Dial resets the counter on a connection that no request was drawn for.
LEMMA RequestNumbersStep ==
  ASSUME TypeOK, RequestNumbers, Next
  PROVE  RequestNumbers'
<1>1. conn \in Nat /\ ID \in Nat /\ MaxId \in Nat
  BY BoundsAssumption DEF TypeOK, ConnectionTypes
<1>2. \A q \in Procs : reqId[q] \in Int /\ reqConn[q] \in Int
  BY BoundsAssumption DEF TypeOK, RequestTypes
<1>3. ASSUME NEW p \in Procs, ID' = ID + 1, conn' = conn,
             reqId' = [reqId EXCEPT ![p] = ID + 1],
             reqConn' = [reqConn EXCEPT ![p] = conn],
             \A q \in Procs \ {p} : stage'[q] = stage[q],
             ID < MaxId
      PROVE  RequestNumbers'
  <2>1. reqId'[p] = ID + 1 /\ reqConn'[p] = conn
    BY <1>3 DEF TypeOK, RequestTypes
  <2>2. \A q \in Procs \ {p} : reqId'[q] = reqId[q] /\ reqConn'[q] = reqConn[q]
    BY <1>3 DEF TypeOK, RequestTypes
  <2>3. ID + 1 \in Ids
    BY <1>1, <1>3 DEF Ids
  <2>4. \A q \in Procs \ {p} :
          stage'[q] # "none" /\ reqConn'[q] = conn => reqId'[q] <= ID
    BY <1>3, <2>2 DEF RequestNumbers
  <2> SUFFICES ASSUME NEW q \in Procs, stage'[q] # "none"
               PROVE  /\ reqId'[q] \in Ids
                      /\ reqConn'[q] <= conn
                      /\ reqConn'[q] = conn => reqId'[q] <= ID + 1
                      /\ \A s \in Procs :
                           s # q /\ stage'[s] # "none" /\
                           reqConn'[s] = reqConn'[q]
                             => reqId'[s] # reqId'[q]
    BY <1>3 DEF RequestNumbers
  <2>5. CASE q = p
    BY <1>1, <1>2, <2>1, <2>2, <2>3, <2>4, <2>5
  <2>6. CASE q # p
    <3>1. stage[q] # "none" /\ reqId'[q] = reqId[q] /\ reqConn'[q] = reqConn[q]
      BY <1>3, <2>2, <2>6
    <3>2. /\ reqId'[q] \in Ids
          /\ reqConn'[q] <= conn
          /\ reqConn'[q] = conn => reqId'[q] <= ID + 1
      BY <1>1, <1>2, <3>1 DEF RequestNumbers
    <3>3. ASSUME NEW s \in Procs, s # q, stage'[s] # "none",
                 reqConn'[s] = reqConn'[q]
          PROVE  reqId'[s] # reqId'[q]
      <4>1. CASE s = p
        BY <1>1, <1>2, <2>1, <2>4, <2>6, <3>1, <3>3, <4>1
      <4>2. CASE s # p
        BY <1>3, <2>2, <3>1, <3>3, <4>2 DEF RequestNumbers
      <4> QED
        BY <4>1, <4>2
    <3> QED
      BY <3>2, <3>3
  <2> QED
    BY <2>5, <2>6
<1>4. ASSUME (ID' = ID /\ conn' = conn) \/ conn' = conn + 1,
             \A q \in Procs : stage'[q] # "none" =>
               /\ stage[q] # "none"
               /\ reqId'[q] = reqId[q] /\ reqConn'[q] = reqConn[q]
      PROVE  RequestNumbers'
  BY <1>1, <1>2, <1>4 DEF RequestNumbers
<1> QED
  BY <1>3, <1>4, NumberStep

\* Answers come from requests written, and readers take them from the wire.
LEMMA WireStep ==
  ASSUME TypeOK, Next
  PROVE  /\ \A w \in wire' :
              w \in wire \/ \E p \in Procs : WriteOk(p) /\ w = Request(p)
         /\ \A r \in Readers : msg'[r] \in wire \cup {msg[r], NoMsg}
<1> USE DEF TypeOK, ReaderTypes
<1> DEFINE NoneNew == wire' \subseteq wire
           MsgOk == \A r \in Readers : msg'[r] \in wire \cup {msg[r], NoMsg}
<1>1. ASSUME NEW p \in Procs, WriteOk(p)
      PROVE  wire' = wire \cup {Request(p)} /\ MsgOk
  BY <1>1 DEF WriteOk, readVars
<1>2. ASSUME NEW p \in Procs, RequestStep(p), ~ WriteOk(p)
      PROVE  NoneNew /\ MsgOk
  BY <1>2
  DEF RequestStep, Call, Register, WriteClosed, WriteTest, WriteFails,
      Cancelled, TimeOut, Cleanup, netVars, readVars
<1>3. ASSUME NEW d \in Dialers, DialStep(d) PROVE NoneNew /\ MsgOk
  BY <1>3
  DEF DialStep, DialOk, DialFails, Pick, Increment, Wrap, Login, LoginFails,
      Subscribed, Authorized, netVars, readVars
<1>4. ASSUME NEW r \in Readers, ReaderStep(r) PROVE NoneNew /\ MsgOk
  BY <1>4
  DEF ReaderStep, ReadTop, ReadStart, ReadError, ReadGarbage, ReadResponse,
      ReadPush, HandleResponse, HandlePush, HandleUnclaimed, Deliver, Notify,
      Reconnect, ReconnectClose, Sweep, Rotate, Exit, Close, netVars, readVars
<1>5. ASSUME UserStep PROVE NoneNew /\ MsgOk
  BY <1>5
  DEF UserStep, Exit, ListenerRegister, ListenerHandles, ChangeDAG,
      WorkChanged, DevicesStopped, DagChanged, Interrupt, ClientUnchanged,
      StopListener, MainClose, Close, netVars, readVars
<1>6. ASSUME Exit PROVE NoneNew /\ MsgOk
  BY <1>6 DEF Exit, netVars, readVars
<1> QED
  BY <1>1, <1>2, <1>3, <1>4, <1>5, <1>6, ExitStepExits DEF Next

\* What is known of an answer stays true: only its own request has its id.
LEMMA KnownStep ==
  ASSUME TypeOK, Next, NEW w \in Messages, Known(w)
  PROVE  Known(w)'
<1>1. conn \in Nat /\ ID \in Nat /\ w.drawn \in Int /\ w.id \in Int
  BY BoundsAssumption DEF TypeOK, ConnectionTypes, Messages, Ids
<1>2. \A q \in Procs : reqId[q] \in Int /\ reqConn[q] \in Int
  BY BoundsAssumption DEF TypeOK, RequestTypes
<1>3. ASSUME NEW p \in Procs, ID' = ID + 1, conn' = conn,
             reqId' = [reqId EXCEPT ![p] = ID + 1],
             reqConn' = [reqConn EXCEPT ![p] = conn],
             \A q \in Procs \ {p} : stage'[q] = stage[q]
      PROVE  Known(w)'
  <2>1. reqId'[p] = ID + 1 /\ reqConn'[p] = conn
    BY <1>3 DEF TypeOK, RequestTypes
  <2>2. \A q \in Procs \ {p} : reqId'[q] = reqId[q] /\ reqConn'[q] = reqConn[q]
    BY <1>3 DEF TypeOK, RequestTypes
  <2>3. w.drawn <= conn' /\ (w.drawn = conn' => w.id <= ID')
    BY <1>1, <1>3 DEF Known
  <2>4. ASSUME NEW q \in Procs, stage'[q] # "none", reqConn'[q] = w.drawn,
               reqId'[q] = w.id
        PROVE  q = w.from
    <3>1. CASE q = p
      BY <1>1, <2>1, <2>4, <3>1 DEF Known
    <3>2. CASE q # p
      BY <1>3, <2>2, <2>4, <3>2 DEF Known
    <3> QED
      BY <3>1, <3>2
  <2> QED
    BY <2>3, <2>4 DEF Known
<1>4. ASSUME (ID' = ID /\ conn' = conn) \/ conn' = conn + 1,
             \A q \in Procs : stage'[q] # "none" =>
               /\ stage[q] # "none"
               /\ reqId'[q] = reqId[q] /\ reqConn'[q] = reqConn[q]
      PROVE  Known(w)'
  BY <1>1, <1>2, <1>4 DEF Known
<1> QED
  BY <1>3, <1>4, NumberStep

\* A request that is written is known from then on.
LEMMA AnswerNumbersStep ==
  ASSUME TypeOK, RequestNumbers, AnswerNumbers, Next
  PROVE  AnswerNumbers'
<1>1. wire \subseteq Messages /\ wire' \subseteq Messages
  BY ConnectionTypesStep DEF TypeOK, ConnectionTypes
<1>2. ASSUME NEW p \in Procs, WriteOk(p) PROVE Known(Request(p))
  <2>1. stage[p] # "none"
    BY <1>2 DEF WriteOk
  <2>2. /\ reqConn[p] <= conn
        /\ reqConn[p] = conn => reqId[p] <= ID
        /\ \A q \in Procs :
             stage[q] # "none" /\ reqConn[q] = reqConn[p] /\ reqId[q] = reqId[p]
               => q = p
    BY <2>1 DEF RequestNumbers
  <2> QED
    BY <2>2 DEF Known, Request
<1>3. ASSUME NEW w \in wire' PROVE Known(w)'
  <2>1. w \in Messages
    BY <1>1, <1>3
  <2>2. Known(w)
    BY <1>2, <1>3, WireStep DEF AnswerNumbers
  <2> QED
    BY <2>1, <2>2, KnownStep
<1>4. ASSUME NEW r \in Readers, NEW w, w = msg'[r], w # NoMsg PROVE Known(w)'
  <2>1. w \in Messages /\ Known(w)
    BY <1>1, <1>4, WireStep DEF TypeOK, ReaderTypes, AnswerNumbers
  <2> QED
    BY <2>1, KnownStep
<1> QED
  BY <1>3, <1>4 DEF AnswerNumbers, Known

\* Register stores a goroutine that was not in the table, Cleanup removes the
\* only callback of its goroutine, and the sweep empties the table.
LEMMA CallbackOwnedStep ==
  ASSUME TypeOK, CallbackOwned, Next
  PROVE  CallbackOwned'
<1>1. callBackCh \in [Ids -> Procs \cup {NoOne}] /\ NoOne \notin Procs
  BY GoroutinesAssumption DEF TypeOK, TableTypes
<1>2. /\ stage \in [Procs -> {"none", "register"} \cup Stored]
      /\ reqId \in [Procs -> 0..MaxId]
  BY DEF TypeOK, RequestTypes
<1>3. ASSUME NEW p \in Procs, Register(p) PROVE CallbackOwned'
  <2> SUFFICES ASSUME NEW i \in Ids, callBackCh'[i] # NoOne
               PROVE  /\ stage'[callBackCh'[i]] \in Stored
                      /\ reqId'[callBackCh'[i]] = i
                      /\ callBackCh'[i] \notin chClosed'
    BY DEF CallbackOwned
  <2>1. CASE i = reqId[p]
    <3>1. callBackCh'[i] = p
      BY <1>1, <1>3, <2>1 DEF Register
    <3> QED
      BY <1>2, <1>3, <2>1, <3>1 DEF Register, Stored
  <2>2. CASE i # reqId[p]
    <3>1. callBackCh'[i] = callBackCh[i] /\ callBackCh[i] \in Procs
      BY <1>1, <1>3, <2>2 DEF Register
    <3>2. /\ stage[callBackCh[i]] \in Stored
          /\ reqId[callBackCh[i]] = i
          /\ callBackCh[i] \notin chClosed
      BY <3>1 DEF CallbackOwned
    <3>3. callBackCh[i] # p
      BY <2>2, <3>2
    <3> QED
      BY <1>2, <1>3, <3>1, <3>2, <3>3 DEF Register
  <2> QED
    BY <2>1, <2>2
<1>4. ASSUME NEW p \in Procs, Cleanup(p) PROVE CallbackOwned'
  <2> SUFFICES ASSUME NEW i \in Ids, callBackCh'[i] # NoOne
               PROVE  /\ stage'[callBackCh'[i]] \in Stored
                      /\ reqId'[callBackCh'[i]] = i
                      /\ callBackCh'[i] \notin chClosed'
    BY DEF CallbackOwned
  <2>1. /\ i # reqId[p]
        /\ callBackCh'[i] = callBackCh[i] /\ callBackCh[i] \in Procs
    BY <1>1, <1>4 DEF Cleanup
  <2>2. /\ stage[callBackCh[i]] \in Stored
        /\ reqId[callBackCh[i]] = i
        /\ callBackCh[i] \notin chClosed
    BY <2>1 DEF CallbackOwned
  <2>3. callBackCh[i] # p
    BY <2>1, <2>2
  <2> QED
    BY <1>2, <1>4, <2>1, <2>2, <2>3 DEF Cleanup, Return
<1>5. ASSUME callBackCh' = [i \in Ids |-> NoOne] PROVE CallbackOwned'
  BY <1>5 DEF CallbackOwned
<1>6. ASSUME UNCHANGED tableVars, ~ Exit, \A p \in Procs : ~ Cleanup(p)
      PROVE  CallbackOwned'
  BY <1>1, <1>6, StoredStep DEF CallbackOwned, tableVars
<1> QED
  BY <1>3, <1>4, <1>5, <1>6
  DEF Next, RequestStep, DialStep, ReaderStep, UserStep, Call, WriteClosed,
      WriteTest, WriteOk, WriteFails, Cancelled, TimeOut, DialOk, DialFails,
      Pick, Increment, Wrap, Login, LoginFails, Subscribed, Authorized,
      ReadTop, ReadStart, ReadError, ReadGarbage, ReadResponse, ReadPush,
      HandleResponse, HandlePush, HandleUnclaimed, Deliver, Notify, Reconnect,
      ReconnectClose, Sweep, Rotate, ExitStep, WritePanics, ReadPanics,
      PickPanics, Crit, ListenerRegister, ListenerHandles, ChangeDAG,
      WorkChanged, DevicesStopped, DagChanged, Interrupt, ClientUnchanged,
      StopListener, MainClose, Exit

\* Channels are closed, and callbacks deleted, only by who holds the mutex.
LEMMA ClosedStep ==
  ASSUME TypeOK, lock # NoOne, Next
  PROVE  Exit \/ (chClosed' \subseteq chClosed /\ \A p \in Procs : ~ Cleanup(p))
<1>1. \A p \in Procs : ~ Register(p) /\ ~ Cleanup(p)
  BY DEF Register, Cleanup
<1>2. \A r \in Readers : ~ Sweep(r)
  BY DEF Sweep
<1> QED
  BY <1>1, <1>2
  DEF Next, RequestStep, DialStep, ReaderStep, UserStep, Call, WriteClosed,
      WriteTest, WriteOk, WriteFails, Cancelled, TimeOut, DialOk, DialFails,
      Pick, Increment, Wrap, Login, LoginFails, Subscribed, Authorized,
      ReadTop, ReadStart, ReadError, ReadGarbage, ReadResponse, ReadPush,
      HandleResponse, HandlePush, HandleUnclaimed, Deliver, Notify, Reconnect,
      ReconnectClose, Rotate, ExitStep, WritePanics, ReadPanics, PickPanics,
      Crit, ListenerRegister, ListenerHandles, ChangeDAG, WorkChanged,
      DevicesStopped, DagChanged, Interrupt, ClientUnchanged, StopListener,
      MainClose, tableVars

\* The requests in the table when a reader starts to send keep their channels
\* until it releases the mutex.
LEMMA NoSendOnClosedStep ==
  ASSUME TypeOK, ExitIsFinal, UnbornReaders, LockHeld, NothingLeftTodo,
         DeliveryOk, CallbackOwned, NoSendOnClosed, Next
  PROVE  NoSendOnClosed'
<1> SUFFICES ASSUME NEW r \in Readers, pc'[r] = "deliver",
                    NEW q \in {to'[r]} \cup todo'[r]
             PROVE  q \notin chClosed' /\ stage'[q] \in Stored
  BY DEF NoSendOnClosed
<1>0. pc \in [Dialers -> Places] /\ r \in Dialers
  BY DEF TypeOK, ControlTypes, Dialers
<1>1. /\ to \in [Readers -> Procs \cup {NoOne}]
      /\ todo \in [Readers -> SUBSET Procs]
  BY DEF TypeOK, ReaderTypes
<1>2. CASE HandleResponse(r)
  <2>1. q = callBackCh[msg[r].id] /\ q # NoOne
    <3>1. todo[r] = {} /\ todo'[r] = {}
      BY <1>2 DEF HandleResponse, NothingLeftTodo
    <3>2. callBackCh[msg[r].id] # NoOne
      BY <1>0, <1>2 DEF HandleResponse
    <3>3. to'[r] = callBackCh[msg[r].id]
      BY <1>1, <1>2, <3>2 DEF HandleResponse
    <3> QED
      BY <3>1, <3>2, <3>3
  <2>2. msg[r].id \in Ids
    BY <1>2 DEF HandleResponse, DeliveryOk, Messages
  <2> QED
    BY <1>2, <2>1, <2>2 DEF HandleResponse, CallbackOwned, tableVars, reqVars
<1>3. CASE HandleUnclaimed(r)
  <2>1. q \in WaitingGetWork
    BY <1>0, <1>1, <1>3 DEF HandleUnclaimed
  <2>2. PICK i \in Ids : callBackCh[i] = q /\ q \in Procs
    BY <2>1 DEF WaitingGetWork
  <2>3. q # NoOne
    BY <2>2, GoroutinesAssumption
  <2> QED
    BY <1>3, <2>2, <2>3 DEF HandleUnclaimed, CallbackOwned, tableVars, reqVars
<1>4. CASE Deliver(r)
  <2>1. pc[r] = "deliver" /\ q \in todo[r]
    BY <1>0, <1>1, <1>4 DEF Deliver
  <2>2. q \notin chClosed /\ stage[q] \in Stored
    BY <2>1 DEF NoSendOnClosed
  <2>3. stage' = [stage EXCEPT ![to[r]] = "cleanup"] /\ chClosed' = chClosed
    BY <1>4 DEF Deliver, tableVars
  <2>4. stage \in [Procs -> {"none", "register"} \cup Stored] /\ q \in Procs
    BY <1>1, <2>1 DEF TypeOK, RequestTypes
  <2> QED
    BY <2>2, <2>3, <2>4 DEF Stored
<1>5. CASE /\ pc[r] = "deliver"
           /\ to'[r] = to[r] /\ todo'[r] = todo[r] /\ msg'[r] = msg[r]
  <2>1. q \notin chClosed /\ stage[q] \in Stored
    BY <1>5 DEF NoSendOnClosed
  <2>2. lock # NoOne
    BY <1>5, GoroutinesAssumption DEF LockHeld, Procs, Dialers
  <2>3. ~ Exit
    BY <1>0 DEF Exit
  <2>4. q \in Procs
    BY <1>1, <1>5 DEF DeliveryOk
  <2>5. chClosed' \subseteq chClosed /\ ~ Cleanup(q)
    BY <2>2, <2>3, <2>4, ClosedStep
  <2>6. stage'[q] \in Stored
    BY <2>1, <2>3, <2>4, <2>5, StoredStep
  <2> QED
    BY <2>1, <2>5, <2>6
<1> QED
  BY <1>2, <1>3, <1>4, <1>5, SendingStep

\* A response is looked up under its own id, and its request keeps that id
\* while the reader holds the mutex.
LEMMA DeliveryOkStep ==
  ASSUME TypeOK, ExitIsFinal, UnbornReaders, LockHeld, NothingLeftTodo,
         DeliveryOk, CallbackOwned, NoSendOnClosed, Next
  PROVE  DeliveryOk'
<1>0. pc \in [Dialers -> Places] /\ Readers \subseteq Dialers
  BY DEF TypeOK, ControlTypes, Dialers
<1>1. /\ to \in [Readers -> Procs \cup {NoOne}]
      /\ todo \in [Readers -> SUBSET Procs]
      /\ msg \in [Readers -> Messages \cup {NoMsg}]
  BY DEF TypeOK, ReaderTypes
<1>2. ASSUME NEW r \in Readers, pc'[r] = "response" PROVE msg'[r] \in Messages
  <2>1. \/ ReadResponse(r)
        \/ pc[r] = "response" /\ msg'[r] = msg[r]
    <3> DEFINE Same == pc[r] = "response" /\ msg'[r] = msg[r]
    <3>1. ASSUME NEW s \in Readers \ {r}, ReaderStep(s) PROVE Same
      BY <1>0, <1>1, <1>2, <3>1
      DEF ReaderStep, ReadTop, ReadStart, ReadError, ReadGarbage, ReadResponse,
          ReadPush, HandleResponse, HandlePush, HandleUnclaimed, Deliver,
          Notify, Reconnect, ReconnectClose, Sweep, Rotate, Exit, readVars
    <3>2. ASSUME ReaderStep(r) PROVE ReadResponse(r)
      BY <1>0, <1>2, <3>2
      DEF ReaderStep, ReadTop, ReadStart, ReadError, ReadGarbage, ReadPush,
          HandleResponse, HandlePush, HandleUnclaimed, Deliver, Notify,
          Reconnect, ReconnectClose, Sweep, Rotate, Exit
    <3>3. ASSUME NEW d \in Dialers, DialStep(d) PROVE Same
      BY <1>0, <1>2, <3>3
      DEF DialStep, DialOk, DialFails, Pick, Increment, Wrap, Login,
          LoginFails, Subscribed, Authorized, Failed, readVars
    <3>4. ASSUME UserStep PROVE Same
      BY <1>0, <1>2, <3>4
      DEF UserStep, Exit, ListenerRegister, ListenerHandles, ChangeDAG,
          WorkChanged, DevicesStopped, DagChanged, Interrupt, ClientUnchanged,
          StopListener, MainClose, readVars
    <3>5. ASSUME NEW p \in Procs, RequestStep(p) PROVE Same
      BY <1>2, <3>5
      DEF RequestStep, Call, Register, WriteClosed, WriteTest, WriteOk,
          WriteFails, Cancelled, TimeOut, Cleanup, readVars
    <3>6. ~ Exit
      BY <1>0, <1>2 DEF Exit
    <3> QED
      BY <3>1, <3>2, <3>3, <3>4, <3>5, <3>6, ExitStepExits DEF Next
  <2>2. ASSUME ReadResponse(r) PROVE msg'[r] \in wire
    BY <1>1, <2>2 DEF ReadResponse
  <2>3. wire \subseteq Messages
    BY DEF TypeOK, ConnectionTypes
  <2> QED
    BY <2>1, <2>2, <2>3 DEF DeliveryOk
<1>3. ASSUME NEW r \in Readers, pc'[r] = "deliver"
      PROVE  /\ to'[r] \in Procs
             /\ todo'[r] # {} => msg'[r] = NoMsg
             /\ msg'[r] # NoMsg => reqId'[to'[r]] = msg'[r].id
  <2>1. CASE HandleResponse(r)
    <3>1. msg[r] \in Messages /\ msg[r].id \in Ids
      BY <2>1 DEF HandleResponse, DeliveryOk, Messages
    <3>2. callBackCh[msg[r].id] # NoOne
      BY <1>0, <1>3, <2>1 DEF HandleResponse
    <3>3. to'[r] = callBackCh[msg[r].id] /\ msg'[r] = msg[r]
      BY <1>1, <2>1, <3>2 DEF HandleResponse
    <3>4. todo'[r] = {}
      BY <2>1 DEF HandleResponse, NothingLeftTodo
    <3>5. to'[r] \in Procs
      BY <3>1, <3>2, <3>3 DEF TypeOK, TableTypes
    <3>6. reqId'[to'[r]] = msg'[r].id
      BY <2>1, <3>1, <3>2, <3>3 DEF HandleResponse, CallbackOwned, reqVars
    <3> QED
      BY <3>4, <3>5, <3>6
  <2>2. CASE HandleUnclaimed(r)
    <3>1. to'[r] \in Procs
      BY <1>0, <1>1, <1>3, <2>2 DEF HandleUnclaimed, WaitingGetWork
    <3>2. msg'[r] = NoMsg
      BY <1>1, <2>2 DEF HandleUnclaimed
    <3> QED
      BY <3>1, <3>2
  <2>3. CASE Deliver(r)
    <3>1. /\ pc[r] = "deliver" /\ todo[r] # {}
          /\ to'[r] \in todo[r] /\ msg'[r] = msg[r]
      BY <1>0, <1>1, <1>3, <2>3 DEF Deliver
    <3>2. msg[r] = NoMsg
      BY <3>1 DEF DeliveryOk
    <3> QED
      BY <1>1, <3>1, <3>2
  <2>4. CASE /\ pc[r] = "deliver"
             /\ to'[r] = to[r] /\ todo'[r] = todo[r] /\ msg'[r] = msg[r]
    <3>1. /\ to[r] \in Procs /\ stage[to[r]] \in Stored
          /\ todo[r] # {} => msg[r] = NoMsg
          /\ msg[r] # NoMsg => reqId[to[r]] = msg[r].id
      BY <2>4 DEF DeliveryOk, NoSendOnClosed
    <3>2. ~ Exit
      BY <1>0, <1>3 DEF Exit
    <3>3. lock # NoOne
      BY <2>4, GoroutinesAssumption DEF LockHeld, Procs, Dialers
    <3>4. ~ Cleanup(to[r])
      BY <3>3 DEF Cleanup
    <3>5. reqId'[to[r]] = reqId[to[r]]
      BY <3>1, <3>2, <3>4, StoredStep
    <3> QED
      BY <2>4, <3>1, <3>5
  <2> QED
    BY <1>3, <2>1, <2>2, <2>3, <2>4, SendingStep
<1> QED
  BY <1>2, <1>3 DEF DeliveryOk

\* searchWaitingResponses holds the mutex from its look at the table to its
\* last send, so every request it sends to is still the one it saw.
LEMMA WorkGoesToGetWorkStep ==
  ASSUME TypeOK, ExitIsFinal, UnbornReaders, LockHeld, DeliveryOk,
         NoSendOnClosed, WorkGoesToGetWork, Next
  PROVE  WorkGoesToGetWork'
<1> SUFFICES ASSUME NEW r \in Readers, pc'[r] = "deliver", msg'[r] = NoMsg,
                    NEW q \in {to'[r]} \cup todo'[r]
             PROVE  method'[q] = "eth_getWork"
  BY DEF WorkGoesToGetWork
<1>0. pc \in [Dialers -> Places] /\ r \in Dialers
  BY DEF TypeOK, ControlTypes, Dialers
<1>1. /\ to \in [Readers -> Procs \cup {NoOne}]
      /\ todo \in [Readers -> SUBSET Procs]
      /\ msg \in [Readers -> Messages \cup {NoMsg}]
  BY DEF TypeOK, ReaderTypes
<1>2. CASE HandleResponse(r)
  <2>1. callBackCh[msg[r].id] # NoOne
    BY <1>0, <1>2 DEF HandleResponse
  <2>2. msg'[r] = msg[r] /\ msg[r] \in Messages
    BY <1>2, <2>1 DEF HandleResponse, DeliveryOk
  <2> QED
    BY <2>2, NoMsgAssumption
<1>3. CASE HandleUnclaimed(r)
  <2>1. q \in WaitingGetWork
    BY <1>0, <1>1, <1>3 DEF HandleUnclaimed
  <2> QED
    BY <1>3, <2>1 DEF HandleUnclaimed, WaitingGetWork, reqVars
<1>4. CASE Deliver(r)
  <2>1. pc[r] = "deliver" /\ q \in todo[r] /\ msg'[r] = msg[r]
    BY <1>0, <1>1, <1>4 DEF Deliver
  <2> QED
    BY <1>4, <2>1 DEF Deliver, WorkGoesToGetWork
<1>5. CASE /\ pc[r] = "deliver"
           /\ to'[r] = to[r] /\ todo'[r] = todo[r] /\ msg'[r] = msg[r]
  <2>1. stage[q] \in Stored /\ method[q] = "eth_getWork"
    BY <1>5 DEF NoSendOnClosed, WorkGoesToGetWork
  <2>2. q \in Procs
    BY <1>1, <1>5 DEF DeliveryOk
  <2>3. ~ Exit
    BY <1>0 DEF Exit
  <2>4. ~ Cleanup(q)
    BY <1>5, GoroutinesAssumption DEF LockHeld, Procs, Dialers, Cleanup
  <2> QED
    BY <2>1, <2>2, <2>3, <2>4, StoredStep
<1> QED
  BY <1>2, <1>3, <1>4, <1>5, SendingStep

-----------------------------------------------------------------------------
(* Failover by one goroutine at a time.                                    *)

\* Goroutines between their increment of serverIdx and its wrap-around.
Wrapping(d) == pc[d] \in {"wrap", "wrapDial"}

\* os.Exit is the end for the main goroutine too.
LEMMA MainStaysOut ==
  ASSUME TypeOK, ExitIsFinal, Next, pc[Main] = "exit"
  PROVE  pc'[Main] = "exit"
<1> USE DEF ExitIsFinal
<1>1. Main \in Dialers
  BY DEF Dialers
<1>2. \A d \in Dialers : pc[d] = "exit"
  BY <1>1
<1>3. CASE Exit
  BY <1>1, <1>3 DEF Exit
<1>4. \A d \in Dialers : ~ DialOk(d)
  BY <1>2 DEF DialOk
<1> QED
  BY <1>1, <1>2, <1>3, <1>4, PlaceStep

\* Apart from the three steps of a failover, no step changes serverIdx or lets
\* a goroutine start or end its wrap-around.
LEMMA IndexFrame ==
  ASSUME TypeOK, ExitIsFinal, UnbornReaders, Next,
         \A d \in Dialers : ~ Pick(d) /\ ~ Increment(d) /\ ~ Wrap(d)
  PROVE  \/ Exit
         \/ /\ UNCHANGED serverIdx
            /\ \A d \in Dialers : Wrapping(d)' <=> Wrapping(d)
<1> USE DEF TypeOK, ControlTypes, Wrapping
<1> DEFINE Frame == /\ UNCHANGED serverIdx
                    /\ \A d \in Dialers : Wrapping(d)' <=> Wrapping(d)
<1>0. Readers \subseteq Dialers /\ Main \in Dialers
  BY DEF Dialers
<1>1. ASSUME NEW d \in Dialers, DialOk(d) PROVE Frame
  <2>1. pc[conn + 1] = "unborn" /\ conn + 1 \in Dialers
    BY <1>0, <1>1, StartedReader
  <2> QED
    BY <1>1, <2>1 DEF DialOk, serverVars
<1>2. ASSUME NEW d \in Dialers, DialStep(d), ~ DialOk(d) PROVE Frame
  BY <1>2
  DEF DialStep, DialFails, Login, LoginFails, Subscribed, Authorized, Failed,
      serverVars
<1>3. ASSUME NEW r \in Readers, ReaderStep(r) PROVE Frame
  BY <1>0, <1>3
  DEF ReaderStep, ReadTop, ReadStart, ReadError, ReadGarbage, ReadResponse,
      ReadPush, HandleResponse, HandlePush, HandleUnclaimed, Deliver, Notify,
      Reconnect, ReconnectClose, Sweep, Rotate, serverVars
<1>4. ASSUME UserStep PROVE Frame
  BY <1>0, <1>4
  DEF UserStep, ListenerRegister, ListenerHandles, ChangeDAG, WorkChanged,
      DevicesStopped, DagChanged, Interrupt, ClientUnchanged, StopListener,
      MainClose, serverVars
<1>5. ASSUME NEW p \in Procs, RequestStep(p) PROVE Frame
  BY <1>5
  DEF RequestStep, Call, Register, WriteClosed, WriteTest, WriteOk, WriteFails,
      Cancelled, TimeOut, Cleanup, serverVars
<1> QED
  BY <1>1, <1>2, <1>3, <1>4, <1>5, ExitStepExits DEF Next

\* The index moves on by one and wraps around at the end of the list, provided
\* that nobody else moves it meanwhile.
LEMMA IndexOkStep ==
  ASSUME TypeOK, ExitIsFinal, UnbornReaders, Next, Alone, IndexOk
  PROVE  IndexOk'
<1> SUFFICES ASSUME NServers > 1, pc'[Main] # "exit"
             PROVE  IF \E d \in Dialers : Wrapping(d)'
                    THEN serverIdx' \in Slots ELSE serverIdx' + 1 \in Slots
  BY DEF IndexOk, Wrapping
<1> USE DEF TypeOK, ControlTypes
<1>1. IF \E d \in Dialers : Wrapping(d)
      THEN serverIdx \in Slots ELSE serverIdx + 1 \in Slots
  BY MainStaysOut DEF IndexOk, Wrapping
<1>2. NServers \in Nat /\ serverIdx \in Int
  BY BoundsAssumption DEF ServerTypes
<1>3. ASSUME NEW d \in Dialers, pc[d] \in FailingOver
      PROVE  /\ \A e \in Dialers \ {d} : ~ Wrapping(e)
             /\ \A e \in Dialers \ {d} : pc[e] \notin Updating
  BY <1>3 DEF Alone, FailingOver, Updating, Wrapping
<1>4. ASSUME NEW d \in Dialers, Pick(d)
      PROVE  serverIdx' + 1 \in Slots /\ \A e \in Dialers : ~ Wrapping(e)'
  <2>1. \A e \in Dialers \ {d} : ~ Wrapping(e)
    BY <1>3, <1>4 DEF Pick, FailingOver
  <2>2. \A e \in Dialers : ~ Wrapping(e)'
    BY <1>4, <2>1 DEF Pick, Wrapping
  <2> QED
    BY <1>4, <2>2 DEF Pick
<1>5. ASSUME NEW d \in Dialers, Increment(d)
      PROVE  serverIdx' \in Slots /\ Wrapping(d)'
  <2>1. /\ \A e \in Dialers \ {d} : ~ Wrapping(e)
        /\ \A e \in Dialers \ {d} : pc[e] \notin Updating
    BY <1>3, <1>5 DEF Increment, FailingOver, Updating
  <2>2. serverIdx' = serverIdx + 1
    BY <1>5, <2>1 DEF Increment, SetServerIdx
  <2>3. ~ Wrapping(d) /\ Wrapping(d)'
    BY <1>5 DEF Increment, Wrapping
  <2> QED
    BY <1>1, <2>1, <2>2, <2>3
<1>6. ASSUME NEW d \in Dialers, Wrap(d)
      PROVE  serverIdx' + 1 \in Slots /\ \A e \in Dialers : ~ Wrapping(e)'
  <2>1. /\ \A e \in Dialers \ {d} : ~ Wrapping(e)
        /\ \A e \in Dialers \ {d} : pc[e] \notin Updating
    BY <1>3, <1>6 DEF Wrap, FailingOver, Updating
  <2>2. serverIdx' = Wrapped
    BY <1>6, <2>1 DEF Wrap, SetServerIdx
  <2>3. serverIdx \in Slots
    BY <1>1, <1>6 DEF Wrap, Wrapping
  <2>4. Wrapped + 1 \in Slots
    BY <1>2, <2>3 DEF Wrapped, Slots
  <2>5. \A e \in Dialers : ~ Wrapping(e)'
    BY <1>6, <2>1 DEF Wrap, Wrapping
  <2> QED
    BY <2>2, <2>4, <2>5
<1>7. CASE \A d \in Dialers : ~ Pick(d) /\ ~ Increment(d) /\ ~ Wrap(d)
  <2>1. ~ Exit
    BY DEF Exit, Dialers
  <2> QED
    BY <1>1, <1>7, <2>1, IndexFrame
<1> QED
  BY <1>4, <1>5, <1>6, <1>7

-----------------------------------------------------------------------------
(* Reconnection by one goroutine at a time.                                *)

\* A goroutine that is the only one to reconnect has closed the client when it
\* dials, and only its own Dial opens it again.
LEMMA ConnOkStep ==
  ASSUME TypeOK, Next, OneRedials, ConnOk
  PROVE  ConnOk'
<1> USE DEF TypeOK, ControlTypes
<1> DEFINE Late(d) == pc[d] \in Redialing \ {"closing"}
           Frame == /\ UNCHANGED <<conn, hasConn, closed>>
                    /\ \A d \in Dialers : Late(d)' => Late(d)
<1>0. Readers \subseteq Dialers /\ Main \in Dialers /\ conn \in Nat
  BY BoundsAssumption DEF Dialers, ConnectionTypes
<1>1. CASE Frame
  <2>1. ConnPresent'
    BY <1>1 DEF ConnOk, ConnPresent
  <2>2. conn' > 0 => \A d \in Dialers : Late(d)' => closed'
    BY <1>1 DEF ConnOk
  <2> QED
    BY <2>1, <2>2 DEF ConnOk
<1>2. ASSUME NEW d \in Dialers, DialOk(d) PROVE ConnOk'
  <2>1. \A e \in Dialers \ {d} : ~ Late(e)
    BY <1>2 DEF DialOk, OneRedials, Redialing
  <2>2. \A e \in Dialers : ~ Late(e)'
    BY <1>2, <2>1 DEF DialOk, Redialing, FailingOver, Updating
  <2>3. hasConn' = TRUE
    BY <1>2 DEF DialOk
  <2> QED
    BY <2>2, <2>3 DEF ConnOk, ConnPresent
<1>3. ASSUME NEW d \in Dialers, DialFails(d) PROVE ConnOk'
  <2>1. UNCHANGED <<conn, closed>>
    BY <1>3 DEF DialFails, flagVars
  <2>2. Late(d) /\ \A e \in Dialers \ {d} : Late(e)' => Late(e)
    BY <1>3 DEF DialFails, Redialing
  <2>3. conn > 0 => closed
    BY <2>2 DEF ConnOk
  <2> QED
    BY <2>1, <2>3 DEF ConnOk, ConnPresent
<1>4. ASSUME NEW arg, Close(arg), UNCHANGED <<conn, hasConn>> PROVE ConnOk'
  <2>1. conn > 0 => closed'
    <3>1. CASE ~ closed /\ hasConn
      BY <1>4, <3>1 DEF Close
    <3>2. CASE ~ (~ closed /\ hasConn)
      BY <1>4, <3>2 DEF Close, ConnOk, ConnPresent
    <3> QED
      BY <3>1, <3>2
  <2> QED
    BY <1>4, <2>1 DEF ConnOk, ConnPresent
<1>5. ASSUME NEW d \in Dialers, DialStep(d), ~ DialOk(d), ~ DialFails(d)
      PROVE  Frame
  BY <1>5
  DEF DialStep, Pick, Increment, Wrap, Login, LoginFails, Subscribed,
      Authorized, Failed, Redialing, FailingOver, Updating, netVars, flagVars
<1>6. ASSUME NEW r \in Readers, ReaderStep(r), ~ ReconnectClose(r)
      PROVE  Frame
  BY <1>0, <1>6
  DEF ReaderStep, ReadTop, ReadStart, ReadError, ReadGarbage, ReadResponse,
      ReadPush, HandleResponse, HandlePush, HandleUnclaimed, Deliver, Notify,
      Reconnect, Sweep, Rotate, Redialing, FailingOver, Updating, netVars,
      flagVars
<1>7. ASSUME NEW p \in Procs, RequestStep(p) PROVE Frame
  BY <1>7
  DEF RequestStep, Call, Register, WriteClosed, WriteTest, WriteOk, WriteFails,
      Cancelled, TimeOut, Cleanup, netVars, flagVars
<1>8. ASSUME UserStep, ~ MainClose PROVE Frame
  BY <1>0, <1>8
  DEF UserStep, ListenerRegister, ListenerHandles, ChangeDAG, WorkChanged,
      DevicesStopped, DagChanged, Interrupt, ClientUnchanged, StopListener,
      Redialing, FailingOver, Updating, netVars, flagVars
<1>9. ASSUME Exit PROVE Frame
  BY <1>9 DEF Exit, Redialing, FailingOver, Updating, netVars, flagVars
<1>10. ASSUME NEW r \in Readers, ReconnectClose(r) PROVE ConnOk'
  BY <1>4, <1>10 DEF ReconnectClose
<1>11. CASE MainClose
  BY <1>4, <1>11 DEF UserStep, MainClose
<1> QED
  BY <1>1, <1>2, <1>3, <1>5, <1>6, <1>7, <1>8, <1>9, <1>10, <1>11,
     ExitStepExits
  DEF Next

-----------------------------------------------------------------------------
(* The theorems.                                                           *)

\* New leaves a client without requests, readers or connections.
LEMMA InvInit == Init => Inv
<1> SUFFICES ASSUME Init PROVE Inv
  OBVIOUS
<1> USE BoundsAssumption, GoroutinesAssumption DEF Init
<1>1. ConnectionTypes
  <2>1. /\ lock \in Procs \cup {NoOne}
        /\ open \subseteq 1..MaxDials /\ wire \subseteq Messages
    OBVIOUS
  <2>2. ID \in 0..MaxId /\ conn \in 0..MaxDials
    OBVIOUS
  <2>3. closed \in BOOLEAN /\ noReconnect \in BOOLEAN
    OBVIOUS
  <2>4. mode \in Modes
    BY DEF Modes
  <2> QED
    BY <2>1, <2>2, <2>3, <2>4 DEF ConnectionTypes
<1>2. ServerTypes /\ HealthTypes
  <2>1. ServerTypes
    BY DEF ServerTypes, Slots
  <2>2. sick \in BOOLEAN
    OBVIOUS
  <2>3. 0 \in 0..Threshold
    OBVIOUS
  <2> QED
    BY <2>1, <2>2, <2>3 DEF HealthTypes
<1>3. TableTypes /\ ReaderTypes /\ RequestTypes
  <2>1. 0 \in 0..MaxDials /\ 0 \in 0..MaxId
    OBVIOUS
  <2>2. TableTypes
    BY DEF TableTypes
  <2>3. ReaderTypes
    BY <2>1 DEF ReaderTypes
  <2>4. RequestTypes
    BY <2>1 DEF RequestTypes, Methods
  <2> QED
    BY <2>2, <2>3, <2>4
<1>4. ControlTypes
  BY DEF ControlTypes, Places, Reconnecting
<1>5. Readers \subseteq Dialers /\ Main \notin Readers /\ Main \in Dialers
  BY DEF Dialers, Main, Readers
<1>6. ExitIsFinal /\ UnbornReaders /\ LockHeld /\ NothingLeftTodo
  BY <1>5 DEF ExitIsFinal, UnbornReaders, LockHeld, NothingLeftTodo
<1>7. DeliveryOk /\ NoSendOnClosed
  BY <1>5 DEF DeliveryOk, NoSendOnClosed
<1>8. WorkGoesToGetWork
  BY <1>5 DEF WorkGoesToGetWork
<1>9. RequestNumbers /\ AnswerNumbers /\ CallbackOwned
  BY DEF RequestNumbers, AnswerNumbers, CallbackOwned
<1> QED
  BY <1>1, <1>2, <1>3, <1>4, <1>6, <1>7, <1>8, <1>9 DEF Inv, TypeOK

\* Every step of every goroutine, and every stutter, keeps the invariant.
LEMMA InvNext == Inv /\ [Next]_vars => Inv'
<1> SUFFICES ASSUME Inv, [Next]_vars PROVE Inv'
  OBVIOUS
<1>1. CASE Next
  <2>1. TypeOK'
    BY <1>1, TableTypesStep, ServerTypesStep, HealthTypesStep,
       ConnectionTypesStep, RequestTypesStep, ReaderTypesStep, ControlTypesStep
    DEF Inv, TypeOK
  <2>2. ExitIsFinal' /\ UnbornReaders' /\ LockHeld' /\ NothingLeftTodo'
    BY <1>1, ExitIsFinalStep, UnbornReadersStep, LockHeldStep,
       NothingLeftTodoStep
    DEF Inv
  <2>3. /\ DeliveryOk' /\ NoSendOnClosed' /\ CallbackOwned'
        /\ WorkGoesToGetWork'
    BY <1>1, DeliveryOkStep, NoSendOnClosedStep, CallbackOwnedStep,
       WorkGoesToGetWorkStep
    DEF Inv
  <2>4. RequestNumbers' /\ AnswerNumbers'
    BY <1>1, RequestNumbersStep, AnswerNumbersStep DEF Inv
  <2> QED
    BY <2>1, <2>2, <2>3, <2>4 DEF Inv
<1>2. CASE UNCHANGED vars
  BY <1>2
  DEF vars, netVars, flagVars, serverVars, healthVars, tableVars, reqVars,
      readVars, Inv, TypeOK, ConnectionTypes, ServerTypes, HealthTypes,
      TableTypes, RequestTypes, ReaderTypes, ControlTypes, ExitIsFinal,
      UnbornReaders, LockHeld, NothingLeftTodo, DeliveryOk, RequestNumbers,
      AnswerNumbers, Known, CallbackOwned, NoSendOnClosed, WorkGoesToGetWork,
      workVars
<1> QED
  BY <1>1, <1>2

\* In every behaviour, the invariant above holds of the callbacks, the mutex
\* and the request numbers.
THEOREM Invariance == Spec => []Inv
<1> QED
  BY InvInit, InvNext, PTL DEF Spec

\* The client's state stays within its types (TypeOK).
THEOREM TypeCorrect == Spec => []TypeOK
<1>1. Inv => TypeOK
  BY DEF Inv
<1> QED
  BY <1>1, Invariance, PTL

\* deleteCallback and the sweep of reconnect leave no callback behind whose
\* request has ended (CallbackOwned).
THEOREM TableIsOwned == Spec => []CallbackOwned
<1>1. Inv => CallbackOwned
  BY DEF Inv
<1> QED
  BY <1>1, Invariance, PTL

\* handleStratumMessage and searchWaitingResponses never send on a channel
\* that reconnect has closed (NoSendOnClosed).
THEOREM SendsAreSafe == Spec => []NoSendOnClosed
<1>1. Inv => NoSendOnClosed
  BY DEF Inv
<1> QED
  BY <1>1, Invariance, PTL

\* A response that reaches a request it does not answer carries an id that was
\* drawn on another connection (ReplyOfSameConnection).
THEOREM RepliesMatch == Spec => []ReplyOfSameConnection
<1>1. Inv => ReplyOfSameConnection
  <2> SUFFICES ASSUME Inv, NEW r \in Readers,
                      pc[r] = "deliver", msg[r] # NoMsg, to[r] # msg[r].from,
                      reqConn[to[r]] = msg[r].drawn
               PROVE  FALSE
    BY DEF ReplyOfSameConnection
  <2>1. to[r] \in Procs /\ reqId[to[r]] = msg[r].id
    BY DEF Inv, DeliveryOk
  <2>2. stage[to[r]] # "none"
    BY DEF Inv, NoSendOnClosed, Stored
  <2>3. Known(msg[r])
    BY DEF Inv, AnswerNumbers
  <2> QED
    BY <2>1, <2>2, <2>3 DEF Known
<1> QED
  BY <1>1, Invariance, PTL

\* What searchWaitingResponses passes on only reaches requests for work
\* (WorkGoesToGetWork).
THEOREM WorkReachesGetWork == Spec => []WorkGoesToGetWork
<1>1. Inv => WorkGoesToGetWork
  BY DEF Inv
<1> QED
  BY <1>1, Invariance, PTL

\* After Close(true) with no goroutine reconnecting, none ever does: every step
\* but the end of the process keeps the client closed and every dialer quiet
\* (CloseSticks).
THEOREM CloseIsFinal == Spec => CloseSticks
<1>1. ASSUME TypeOK, [Next]_vars, Quiet PROVE Quiet' \/ pc'[Main] = "exit"
  <2> USE <1>1 DEF TypeOK, ControlTypes, Quiet, Reconnecting
  <2>0. Main \in Dialers /\ Main \notin Readers /\ Readers \subseteq Dialers
    BY DEF Main, Dialers, Readers
  <2>1. ASSUME NEW r \in Readers, ReaderStep(r) PROVE Quiet'
    <3>1. pc[r] \notin {"closing", "sweep", "rotate"}
      BY <2>0
    <3>2. ~ ReconnectClose(r) /\ ~ Sweep(r) /\ ~ Rotate(r)
      BY <3>1 DEF ReconnectClose, Sweep, Rotate
    <3>4. UNCHANGED flagVars
      BY <2>1, <3>2
      DEF ReaderStep, ReadTop, ReadStart, ReadError, ReadGarbage, ReadResponse,
          ReadPush, HandleResponse, HandlePush, HandleUnclaimed, Deliver,
          Notify, Reconnect
    <3>5. pc[r] \notin Reconnecting \ {"reconnect"}
      BY <2>0
    <3>6. /\ \A e \in Dialers \ {r} : pc'[e] = pc[e]
          /\ pc'[r] \notin Reconnecting \ {"reconnect"}
      BY <2>0, <2>1, <3>2, <3>5
      DEF ReaderStep, ReadTop, ReadStart, ReadError, ReadGarbage, ReadResponse,
          ReadPush, HandleResponse, HandlePush, HandleUnclaimed, Deliver,
          Notify, Reconnect
    <3> QED
      BY <2>0, <3>4, <3>6 DEF flagVars
  <2>2. ASSUME NEW d \in Dialers, DialStep(d) PROVE FALSE
    BY <2>2
    DEF DialStep, DialOk, DialFails, Pick, Increment, Wrap, Login, LoginFails,
        Subscribed, Authorized
  <2>3. CASE UserStep
    <3>1. ListenerHandles \/ WorkChanged
      BY <2>3
      DEF UserStep, ListenerRegister, ChangeDAG, DevicesStopped, DagChanged,
          Interrupt, StopListener, MainClose
    <3>2. UNCHANGED <<pc, closed, noReconnect>>
      BY <3>1 DEF ListenerHandles, WorkChanged, ClientUnchanged, flagVars
    <3> QED
      BY <3>2
  <2>4. ASSUME NEW p \in Procs, RequestStep(p) PROVE Quiet'
    BY <2>4
    DEF RequestStep, Call, Register, WriteClosed, WriteTest, WriteOk,
        WriteFails, Cancelled, TimeOut, Cleanup, flagVars
  <2>5. CASE UNCHANGED vars
    BY <2>5 DEF vars, flagVars, workVars
  <2>6. CASE ExitStep
    BY <2>0, <2>6, ExitStepExits DEF Exit
  <2> QED
    BY <2>1, <2>2, <2>3, <2>4, <2>5, <2>6 DEF Next
<1>2. TypeOK /\ [Next]_vars => [Quiet => Quiet' \/ pc'[Main] = "exit"]_vars
  BY <1>1
<1> QED
  BY <1>2, TypeCorrect, PTL DEF Spec, CloseSticks

\* A goroutine that fails over while no other does keeps serverIdx + 1 an index
\* of backupServers (FailoverAlone).
THEOREM FailoverAloneHolds == Spec => FailoverAlone
<1>1. Inv /\ [Next]_vars => [Alone /\ IndexOk /\ Alone' => IndexOk']_vars
  BY IndexOkStep DEF Inv
<1> QED
  BY <1>1, Invariance, PTL DEF Spec, FailoverAlone

\* If no two goroutines ever fail over at once, serverIdx + 1 stays an index of
\* backupServers for ever, however often the connection is lost.
THEOREM OneAtATime == Spec /\ []Alone => []IndexOk
<1>1. Init => IndexOk
  <2> SUFFICES ASSUME Init, NServers > 1
               PROVE  IF \E d \in Dialers : pc[d] \in {"wrap", "wrapDial"}
                      THEN serverIdx \in Slots ELSE serverIdx + 1 \in Slots
    BY DEF IndexOk
  <2>1. \A d \in Dialers : pc[d] \notin {"wrap", "wrapDial"}
    BY DEF Init
  <2> QED
    BY <2>1, BoundsAssumption DEF Init, Slots
<1>2. Inv /\ [Next]_vars /\ Alone /\ IndexOk => IndexOk'
  <2>1. ASSUME UNCHANGED vars, IndexOk PROVE IndexOk'
    BY <2>1 DEF vars, serverVars, IndexOk, workVars
  <2> QED
    BY <2>1, IndexOkStep DEF Inv
<1> QED
  BY <1>1, <1>2, Invariance, PTL DEF Spec

\* A goroutine that reconnects while no other does leaves no nil c.conn behind
\* in a client that is not closed (RedialAlone).
THEOREM RedialAloneHolds == Spec => RedialAlone
<1>1. Inv /\ [Next]_vars
        => [OneRedials /\ ConnOk /\ OneRedials' => ConnOk']_vars
  BY ConnOkStep DEF Inv
<1> QED
  BY <1>1, Invariance, PTL DEF Spec, RedialAlone

\* If no two goroutines ever reconnect at once, c.conn is there whenever the
\* client is not closed.  A use of c.conn after the test of Read or Write may
\* still meet a nil one: a reconnect can close the client and fail to dial in
\* between.
THEOREM OneRedialKeepsConn == Spec /\ []OneRedials => []ConnPresent
<1>1. Init => ConnOk
  BY DEF Init, ConnOk, ConnPresent
<1>2. Inv /\ [Next]_vars /\ OneRedials /\ ConnOk => ConnOk'
  <2>1. ASSUME UNCHANGED vars, ConnOk PROVE ConnOk'
    BY <2>1 DEF vars, netVars, flagVars, ConnOk, ConnPresent, workVars
  <2> QED
    BY <2>1, ConnOkStep DEF Inv
<1>3. ConnOk => ConnPresent
  BY DEF ConnOk
<1> QED
  BY <1>1, <1>2, <1>3, Invariance, PTL DEF Spec

-----------------------------------------------------------------------------
(* Who holds the mutex, and what can stop it from being released.          *)

\* The mutex is only ever held across one of the two sends of a reader
\* (LockHeld is the converse), and checkNewWork stays registered from the main
\* loop on.
HolderSends ==
  /\ lock # NoOne => lock \in Readers /\ pc[lock] \in {"deliver", "notify"}
  /\ \A r \in Readers : pc[r] = "notify" => listener # "unregistered"
  /\ listener # "unregistered" => pc[Main] \in Loop \cup Ending \cup {"exit"}

\* checkNewWork receives, or is on its way back to its select: it handles the
\* last work, announces a DAG change to a main loop that receives it or is
\* generating the last one, or tells devices whose goroutines run.
ListenerMoves ==
  \/ listener \in {"recv", "busy"}
  \/ listener = "changeDAG" /\ pc[Main] \in Loop
  \/ listener = "workChanged" /\ mining

\* The goroutine that reader r sends to receives, or writes its request, or
\* is on its way to the receive.
SendMoves(r) ==
  \/ pc[r] = "deliver" /\ stage[to[r]] \in {"write", "writing", "wait"}
  \/ pc[r] = "notify" /\ ListenerMoves

\* Whenever the mutex is held, the receiver of the holder's send is there, or
\* on its way there by steps that need no mutex (a write, which may still fail
\* and wedge the holder; the handling of the last work, which may still run
\* into the end of the device goroutines), or the holder is wedged already.
MutexMoves == lock # NoOne /\ ~ Wedged => lock \in Readers /\ SendMoves(lock)

\* A wedged reader keeps the mutex, and the table stays as it is, until the
\* process ends.
WedgedStep == Wedged => Exit \/ (Wedged' /\ UNCHANGED <<lock, callBackCh>>)
WedgedStays == [][WedgedStep]_vars

\* A reader that sends goes on with it unless it makes the send.
LEMMA SenderStays ==
  ASSUME TypeOK, UnbornReaders, Next,
         NEW r \in Readers, pc[r] \in {"deliver", "notify"}
  PROVE  \/ Exit
         \/ Deliver(r)
         \/ Notify(r)
         \/ pc'[r] = pc[r] /\ to'[r] = to[r]
<1> USE DEF TypeOK, ControlTypes, ReaderTypes
<1> DEFINE Same == pc'[r] = pc[r] /\ to'[r] = to[r]
<1>0. r \in Dialers /\ r # Main
  BY DEF Dialers, Readers, Main
<1>1. ASSUME NEW s \in Readers \ {r}, ReaderStep(s) PROVE Same
  BY <1>0, <1>1
  DEF ReaderStep, ReadTop, ReadStart, ReadError, ReadGarbage, ReadResponse,
      ReadPush, HandleResponse, HandlePush, HandleUnclaimed, Deliver, Notify,
      Reconnect, ReconnectClose, Sweep, Rotate, readVars
<1>2. ASSUME ReaderStep(r) PROVE Deliver(r) \/ Notify(r)
  BY <1>2
  DEF ReaderStep, ReadTop, ReadStart, ReadError, ReadGarbage, ReadResponse,
      ReadPush, HandleResponse, HandlePush, HandleUnclaimed, Reconnect,
      ReconnectClose, Sweep, Rotate
<1>3. ASSUME NEW d \in Dialers, DialStep(d), ~ DialOk(d) PROVE Same
  BY <1>0, <1>3
  DEF DialStep, DialFails, Pick, Increment, Wrap, Login, LoginFails,
      Subscribed, Authorized, Failed, readVars
<1>4. ASSUME NEW d \in Dialers, DialOk(d) PROVE Same
  <2>1. r # conn + 1
    <3>1. ~ (r > conn)
      BY DEF UnbornReaders
    <3> QED
      BY <3>1, BoundsAssumption DEF ConnectionTypes, Readers
  <2>2. pc[d] = "dial"
    BY <1>4 DEF DialOk
  <2> QED
    BY <1>0, <1>4, <2>1, <2>2 DEF DialOk, readVars
<1>5. CASE UserStep
  BY <1>0, <1>5
  DEF UserStep, ListenerRegister, ListenerHandles, ChangeDAG, WorkChanged,
      DevicesStopped, DagChanged, Interrupt, ClientUnchanged, StopListener,
      MainClose, readVars
<1>6. ASSUME NEW p \in Procs, RequestStep(p) PROVE Same
  BY <1>6
  DEF RequestStep, Call, Register, WriteClosed, WriteTest, WriteOk, WriteFails,
      Cancelled, TimeOut, Cleanup, readVars
<1> QED
  BY <1>1, <1>2, <1>3, <1>4, <1>5, <1>6, ExitStepExits DEF Next

\* A request at "cleanup" waits for the mutex, so while it is held it stays.
LEMMA CleanupWaits ==
  ASSUME TypeOK, Next, lock # NoOne, NEW q \in Procs, stage[q] = "cleanup"
  PROVE  Exit \/ stage'[q] = "cleanup"
<1> USE DEF TypeOK, RequestTypes
<1>1. ASSUME NEW p \in Procs, RequestStep(p) PROVE stage'[q] = "cleanup"
  BY <1>1
  DEF RequestStep, Call, Draw, Register, WriteClosed, WriteTest, WriteOk,
      WriteFails, Cancelled, TimeOut, Cleanup
<1>2. ASSUME NEW d \in Dialers, DialStep(d) PROVE stage'[q] = "cleanup"
  BY <1>2
  DEF DialStep, DialOk, DialFails, Pick, Increment, Wrap, Login, LoginFails,
      Subscribed, Authorized, Draw, reqVars
<1>3. ASSUME NEW r \in Readers, ReaderStep(r) PROVE stage'[q] = "cleanup"
  <2>1. CASE Deliver(r)
    BY <2>1 DEF Deliver
  <2>2. CASE UNCHANGED stage
    BY <2>2
  <2> QED
    BY <1>3, <2>1, <2>2
    DEF ReaderStep, ReadTop, ReadStart, ReadError, ReadGarbage, ReadResponse,
        ReadPush, HandleResponse, HandlePush, HandleUnclaimed, Notify,
        Reconnect, ReconnectClose, Sweep, Rotate, reqVars
<1>4. CASE UserStep
  BY <1>4
  DEF UserStep, ListenerRegister, ListenerHandles, ChangeDAG, WorkChanged,
      DevicesStopped, DagChanged, Interrupt, ClientUnchanged, StopListener,
      MainClose, reqVars
<1> QED
  BY <1>1, <1>2, <1>3, <1>4, ExitStepExits DEF Next

\* Outside the steps of Stratum() and of the end of the process, only a push
\* of the pool moves checkNewWork, and a main loop that is reached stays.
LEMMA UserFrame ==
  ASSUME TypeOK, Next, ~ Exit, ~ UserStep
  PROVE  /\ UNCHANGED mining
         /\ UNCHANGED listener \/ (listener = "recv" /\ listener' = "busy")
         /\ pc[Main] \in Loop \cup Ending => pc'[Main] = pc[Main]
<1> USE DEF TypeOK, ControlTypes, Loop, Ending
<1>0. /\ Main \in Dialers
      /\ \A r \in Readers : r # Main /\ r \in Dialers
      /\ conn + 1 # Main
  BY DEF Dialers, Readers, Main, ConnectionTypes
<1>1. ASSUME NEW p \in Procs, RequestStep(p) PROVE UNCHANGED <<pc, workVars>>
  BY <1>1
  DEF RequestStep, Call, Register, WriteClosed, WriteTest, WriteOk, WriteFails,
      Cancelled, TimeOut, Cleanup
<1>2. ASSUME NEW d \in Dialers, DialStep(d)
      PROVE  /\ UNCHANGED workVars
             /\ pc[Main] \in Loop \cup Ending => pc'[Main] = pc[Main]
  BY <1>0, <1>2
  DEF DialStep, DialOk, DialFails, Pick, Increment, Wrap, Login, LoginFails,
      Subscribed, Authorized
<1>3. ASSUME NEW r \in Readers, ReaderStep(r), ~ Notify(r)
      PROVE  UNCHANGED workVars /\ pc'[Main] = pc[Main]
  BY <1>0, <1>3
  DEF ReaderStep, ReadTop, ReadStart, ReadError, ReadGarbage, ReadResponse,
      ReadPush, HandleResponse, HandlePush, HandleUnclaimed, Deliver,
      Reconnect, ReconnectClose, Sweep, Rotate
<1>4. ASSUME NEW r \in Readers, Notify(r)
      PROVE  /\ UNCHANGED mining /\ listener = "recv" /\ listener' = "busy"
             /\ pc'[Main] = pc[Main]
  BY <1>0, <1>4 DEF Notify
<1> QED
  BY <1>1, <1>2, <1>3, <1>4, ExitStepExits DEF Next, workVars

\* Once it is registered checkNewWork stays so, while Main is in its loop or
\* after it, and once stuck it stays stuck.
LEMMA ListenerStays ==
  ASSUME TypeOK, Next, ~ Exit
  PROVE  /\ listener # "unregistered" => listener' # "unregistered"
         /\ listener' # "unregistered" =>
              \/ listener # "unregistered"
              \/ pc'[Main] \in Loop \cup Ending
         /\ pc[Main] \in Loop \cup Ending => pc'[Main] \in Loop \cup Ending
         /\ ListenerStuck => ListenerStuck'
<1> USE DEF TypeOK, ControlTypes, ListenerStuck, Loop, Ending
<1>0. Main \in Dialers
  BY DEF Dialers, Main
<1>1. CASE UserStep
  <2>1. CASE \/ ListenerRegister \/ ListenerHandles \/ ChangeDAG
             \/ WorkChanged \/ DevicesStopped
    BY <1>0, <2>1
    DEF ListenerRegister, ListenerHandles, ChangeDAG, WorkChanged,
        DevicesStopped
  <2>2. CASE DagChanged \/ Interrupt
    BY <1>0, <2>2 DEF DagChanged, Interrupt, workVars
  <2>3. CASE StopListener
    BY <1>0, <2>3 DEF StopListener
  <2>4. CASE MainClose
    BY <1>0, <2>4 DEF MainClose, workVars
  <2> QED
    BY <1>1, <2>1, <2>2, <2>3, <2>4 DEF UserStep
<1>2. CASE ~ UserStep
  BY <1>2, UserFrame
<1> QED
  BY <1>1, <1>2

\* While the mutex is held, no step but the holder's own send releases it or
\* touches the callbacks.
LEMMA HeldStays ==
  ASSUME TypeOK, LockHeld, Next, lock # NoOne
  PROVE  \/ Exit
         \/ Deliver(lock) \/ Notify(lock)
         \/ UNCHANGED <<lock, callBackCh>>
<1> DEFINE Same == UNCHANGED <<lock, callBackCh>>
<1>1. ASSUME NEW p \in Procs, RequestStep(p) PROVE Same
  BY <1>1
  DEF RequestStep, Call, Register, WriteClosed, WriteTest, WriteOk, WriteFails,
      Cancelled, TimeOut, Cleanup, tableVars
<1>2. ASSUME NEW d \in Dialers, DialStep(d) PROVE Same
  BY <1>2
  DEF DialStep, DialOk, DialFails, Pick, Increment, Wrap, Login, LoginFails,
      Subscribed, Authorized, tableVars
<1>3. ASSUME NEW r \in Readers, ReaderStep(r)
      PROVE  Deliver(lock) \/ Notify(lock) \/ Same
  <2>1. CASE Deliver(r) \/ Notify(r)
    <3>1. lock = r
      BY <2>1 DEF Deliver, Notify, LockHeld
    <3> QED
      BY <2>1, <3>1
  <2>2. CASE ~ (Deliver(r) \/ Notify(r))
    BY <1>3, <2>2
    DEF ReaderStep, ReadTop, ReadStart, ReadError, ReadGarbage, ReadResponse,
        ReadPush, HandleResponse, HandlePush, HandleUnclaimed, Reconnect,
        ReconnectClose, Sweep, Rotate, tableVars
  <2> QED
    BY <2>1, <2>2
<1>4. CASE UserStep
  BY <1>4
  DEF UserStep, ListenerRegister, ListenerHandles, ChangeDAG, WorkChanged,
      DevicesStopped, DagChanged, Interrupt, ClientUnchanged, StopListener,
      MainClose, tableVars
<1> QED
  BY <1>1, <1>2, <1>3, <1>4, ExitStepExits DEF Next

\* A step that takes the mutex is a reader's, which sends next; a reader that
\* begins to notify has found checkNewWork registered.
LEMMA HolderSendsStep ==
  ASSUME Inv, HolderSends, Next
  PROVE  HolderSends'
<1> USE DEF Inv, TypeOK, ControlTypes
<1>0. Readers \subseteq Dialers /\ NoOne \notin Readers /\ Main \notin Readers
  BY GoroutinesAssumption DEF Dialers, Procs, Main, Readers
<1>1. CASE Exit
  <2>1. Main \in Dialers
    BY DEF Dialers
  <2> QED
    BY <1>0, <1>1, <2>1 DEF Exit, HolderSends
<1>2. ASSUME ~ Exit
      PROVE  lock' # NoOne =>
               lock' \in Readers /\ pc'[lock'] \in {"deliver", "notify"}
  <2>1. CASE lock # NoOne
    <3>1. lock \in Readers /\ pc[lock] \in {"deliver", "notify"}
      BY <2>1 DEF HolderSends
    <3>2. CASE Deliver(lock) \/ Notify(lock)
      BY <1>0, <3>1, <3>2 DEF Deliver, Notify
    <3>3. CASE ~ (Deliver(lock) \/ Notify(lock))
      <4>1. pc'[lock] = pc[lock]
        BY <1>2, <3>1, <3>3, SenderStays
      <4>2. lock' = lock
        BY <1>2, <2>1, <3>3, HeldStays
      <4> QED
        BY <3>1, <4>1, <4>2
    <3> QED
      BY <3>2, <3>3
  <2>2. CASE lock = NoOne
    <3>1. ASSUME NEW r \in Readers, ReaderStep(r)
          PROVE  \/ lock' = lock
                 \/ lock' = r /\ pc'[r] \in {"deliver", "notify"}
      BY <1>0, <2>2, <3>1
      DEF ReaderStep, ReadTop, ReadStart, ReadError, ReadGarbage, ReadResponse,
          ReadPush, HandleResponse, HandlePush, HandleUnclaimed, Deliver,
          Notify, Reconnect, ReconnectClose, Sweep, Rotate
    <3>2. ASSUME NEW p \in Procs, RequestStep(p) PROVE lock' = lock
      BY <3>2
      DEF RequestStep, Call, Register, WriteClosed, WriteTest, WriteOk,
          WriteFails, Cancelled, TimeOut, Cleanup
    <3>3. ASSUME NEW d \in Dialers, DialStep(d) PROVE lock' = lock
      BY <3>3
      DEF DialStep, DialOk, DialFails, Pick, Increment, Wrap, Login,
          LoginFails, Subscribed, Authorized
    <3>4. CASE UserStep
      BY <2>2, <3>4
      DEF UserStep, ListenerRegister, ListenerHandles, ChangeDAG, WorkChanged,
          DevicesStopped, DagChanged, Interrupt, ClientUnchanged, StopListener,
          MainClose
    <3> QED
      BY <1>2, <2>2, <3>1, <3>2, <3>3, <3>4, ExitStepExits DEF Next
  <2> QED
    BY <2>1, <2>2
<1>3. ASSUME ~ Exit, NEW r \in Readers, pc'[r] = "notify"
      PROVE  listener' # "unregistered"
  <2>1. listener # "unregistered"
    <3>1. CASE pc[r] = "notify"
      BY <3>1 DEF HolderSends
    <3>2. CASE pc[r] # "notify"
      <4>1. ASSUME NEW s \in Readers, ReaderStep(s), ~ HandlePush(s)
            PROVE  pc'[r] = pc[r] \/ pc'[r] # "notify"
        BY <1>0, <4>1
        DEF ReaderStep, ReadTop, ReadStart, ReadError, ReadGarbage,
            ReadResponse, ReadPush, HandleResponse, HandleUnclaimed, Deliver,
            Notify, Reconnect, ReconnectClose, Sweep, Rotate
      <4>2. ASSUME NEW s \in Readers, HandlePush(s)
            PROVE  listener # "unregistered"
        BY <4>2 DEF HandlePush
      <4>3. ASSUME NEW d \in Dialers, DialStep(d)
            PROVE  pc'[r] = pc[r] \/ pc'[r] # "notify"
        BY <1>0, <4>3
        DEF DialStep, DialOk, DialFails, Pick, Increment, Wrap, Login,
            LoginFails, Subscribed, Authorized, Failed
      <4>4. ASSUME NEW p \in Procs, RequestStep(p) PROVE pc' = pc
        BY <4>4
        DEF RequestStep, Call, Register, WriteClosed, WriteTest, WriteOk,
            WriteFails, Cancelled, TimeOut, Cleanup
      <4>5. CASE UserStep
        BY <1>0, <1>3, <3>2, <4>5
        DEF UserStep, ListenerRegister, ListenerHandles, ChangeDAG,
            WorkChanged, DevicesStopped, DagChanged, Interrupt,
            ClientUnchanged, StopListener, MainClose
      <4> QED
        BY <1>3, <3>2, <4>1, <4>2, <4>3, <4>4, <4>5, ExitStepExits DEF Next
    <3> QED
      BY <3>1, <3>2
  <2> QED
    BY <1>3, <2>1, ListenerStays
<1>4. ASSUME ~ Exit, listener' # "unregistered"
      PROVE  pc'[Main] \in Loop \cup Ending \cup {"exit"}
  BY <1>4, ListenerStays, MainStaysOut DEF HolderSends
<1> QED
  BY <1>1, <1>2, <1>3, <1>4 DEF HolderSends

\* The mutex is never left locked by a goroutine that does not send
\* (HolderSends): handleStratumMessage and its helpers unlock on every path.
THEOREM HolderSendsHolds == Spec => []HolderSends
<1>1. Init => HolderSends
  BY DEF Init, HolderSends, Main, Readers, Dialers
<1>2. Inv /\ HolderSends /\ [Next]_vars => HolderSends'
  <2>1. CASE Next
    BY <2>1, HolderSendsStep
  <2>2. CASE UNCHANGED vars
    BY <2>2
      DEF vars, HolderSends, netVars, flagVars, serverVars, healthVars,
          tableVars, reqVars, readVars, workVars
  <2> QED
    BY <2>1, <2>2
<1> QED
  BY <1>1, <1>2, Invariance, PTL DEF Spec

\* The mutex is never held for a receiver that is lost, unless a reader is
\* wedged: in every other state in which it is held, the receiver of the send is
\* there or on its way by steps that need no mutex (MutexMoves).
THEOREM MutexMovesHolds == Spec => []MutexMoves
<1>1. Inv /\ HolderSends => MutexMoves
  <2> SUFFICES ASSUME Inv, HolderSends, lock # NoOne, ~ Wedged
               PROVE  lock \in Readers /\ SendMoves(lock)
    BY DEF MutexMoves
  <2>1. lock \in Readers /\ pc[lock] \in {"deliver", "notify"}
    BY DEF HolderSends
  <2>2. CASE pc[lock] = "deliver"
    <3>1. stage[to[lock]] \in Stored
      BY <2>1, <2>2 DEF Inv, NoSendOnClosed
    <3>2. stage[to[lock]] # "cleanup"
      BY <2>1, <2>2 DEF Wedged
    <3> QED
      BY <2>1, <2>2, <3>1, <3>2 DEF Stored, SendMoves
  <2>3. CASE pc[lock] = "notify"
    <3>1. listener # "unregistered" /\ ~ ListenerStuck
      BY <2>1, <2>3 DEF HolderSends, Wedged
    <3>2. pc[Main] # "exit"
      BY <2>1, <2>3 DEF Inv, ExitIsFinal, Dialers
    <3>3. ListenerMoves
      BY <3>1, <3>2
      DEF ListenerMoves, ListenerStuck, HolderSends, Inv, TypeOK, ControlTypes
    <3> QED
      BY <2>1, <2>3, <3>3 DEF SendMoves
  <2> QED
    BY <2>1, <2>2, <2>3
<1> QED
  BY <1>1, Invariance, HolderSendsHolds, PTL

\* A reader that sends to a request which has timed out, or to checkNewWork
\* when that receives no more, never lets go of the mutex: no request, push or
\* reconnect gets through any more until the process ends (WedgedStays).
THEOREM WedgedStaysHolds == Spec => WedgedStays
<1>1. ASSUME Inv, Next, Wedged PROVE WedgedStep
  <2> SUFFICES ASSUME ~ Exit
               PROVE  Wedged' /\ UNCHANGED <<lock, callBackCh>>
    BY DEF WedgedStep
  <2>1. PICK r \in Readers :
          \/ pc[r] = "deliver" /\ stage[to[r]] = "cleanup"
          \/ pc[r] = "notify" /\ ListenerStuck
    BY <1>1 DEF Wedged
  <2>2. lock = r /\ lock # NoOne
    BY <1>1, <2>1, GoroutinesAssumption DEF Inv, LockHeld, Procs, Dialers
  <2>3. ~ Deliver(r) /\ ~ Notify(r)
    BY <2>1 DEF Deliver, Notify, ListenerStuck
  <2>4. pc'[r] = pc[r] /\ to'[r] = to[r]
    BY <1>1, <2>1, <2>3, SenderStays DEF Inv
  <2>5. UNCHANGED <<lock, callBackCh>>
    BY <1>1, <2>2, <2>3, HeldStays DEF Inv
  <2>6. CASE pc[r] = "deliver" /\ stage[to[r]] = "cleanup"
    <3>1. to[r] \in Procs
      BY <1>1, <2>6 DEF Inv, DeliveryOk
    <3>2. stage'[to[r]] = "cleanup"
      BY <1>1, <2>2, <2>6, <3>1, CleanupWaits DEF Inv
    <3> QED
      BY <2>4, <2>5, <2>6, <3>2 DEF Wedged
  <2>7. CASE pc[r] = "notify" /\ ListenerStuck
    <3>1. ListenerStuck'
      BY <1>1, <2>7, ListenerStays DEF Inv
    <3> QED
      BY <2>4, <2>5, <2>7, <3>1 DEF Wedged
  <2> QED
    BY <2>1, <2>6, <2>7
<1>2. Inv /\ [Next]_vars => [WedgedStep]_vars
  BY <1>1 DEF WedgedStep
<1> QED
  BY <1>2, Invariance, PTL DEF Spec, WedgedStays

=============================================================================
