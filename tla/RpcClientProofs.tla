--------------------------- MODULE RpcClientProofs ---------------------------
(***************************************************************************)
(* Theorems about RpcClient for every length of the list of servers and    *)
(* every number of goroutines that submit shares: its index leaves the     *)
(* list only when two goroutines move it at the same time.                 *)
(***************************************************************************)
EXTENDS RpcClient, TLAPS

\* Nobody submits a share before Farm() has its first work, and who moves the
\* index alone keeps it where the next server is.
MovesAlone ==
  /\ ~started => \A s \in Sharers : post[s] = "idle"
  /\ ~overlap =>
       /\ \A p, q \in Posters : post[p] \in Moving /\ post[q] \in Moving => p = q
       /\ urlIdx \in -1..(UrlCount - 1)
       /\ \A p \in Posters : post[p] \in {"move", "inc"} => urlIdx + 1 \in Urls

\* The inductive invariant.
RpcInv == RpcTypeOK /\ MovesAlone

\* The initial states satisfy the invariant.
LEMMA RpcInitInv == ASSUME RpcInit PROVE RpcInv
<1> USE RpcAssumption
<1>1. RpcTypeOK
  <2>1. /\ url \in Urls /\ urlIdx \in Int /\ sickRate \in 0..SickLimit
        /\ number \in {-1} \union Nat /\ down \subseteq Urls
    BY DEF RpcInit, Urls
  <2>2. /\ post \in [Posters -> {"idle", "check", "send"} \union Moving]
        /\ shareRes \in [Sharers -> {"none", "accepted", "rejected", "unsent"}]
    BY DEF RpcInit
  <2>3. /\ sick \in BOOLEAN /\ overlap \in BOOLEAN /\ started \in BOOLEAN
        /\ process = "running"
    BY DEF RpcInit
  <2> QED BY <2>1, <2>2, <2>3 DEF RpcTypeOK
<1>2. MovesAlone BY DEF RpcInit, MovesAlone, Moving, Posters
<1> QED BY <1>1, <1>2 DEF RpcInv

\* The poster goes on, the others stay where they are.
LEMMA GotoShape ==
  ASSUME RpcTypeOK, NEW p \in Posters,
         NEW where \in {"idle", "check", "send"} \union Moving, Goto(p, where)
  PROVE  /\ post' \in [Posters -> {"idle", "check", "send"} \union Moving]
         /\ post'[p] = where
         /\ \A q \in Posters \ {p} : post'[q] = post[q]
BY DEF Goto, RpcTypeOK

\* What an answer, or none, may do to the index: nothing, or start a client
\* anew, which only happens to the poll before anybody submits.
LEMMA AnswerShape ==
  ASSUME RpcTypeOK, NEW p \in Posters,
         Unreachable(p) \/ Garbage(p) \/ ErrorReply(p) \/ ShortReply(p)
  PROVE  /\ post[p] = "send" /\ Goto(p, "idle")
         /\ started' = started /\ overlap' = overlap
         /\ \/ UNCHANGED <<url, urlIdx>>
            \/ p = Poller /\ ~started /\ url' = 0 /\ urlIdx' = 0
<1>1. CASE Unreachable(p)
  BY <1>1 DEF Unreachable, PollFails, StartFails, moveVars
<1>2. CASE Garbage(p)
  BY <1>2 DEF Garbage, PollFails, StartFails, moveVars
<1>3. CASE ErrorReply(p)
  BY <1>3 DEF ErrorReply, PollFails, StartFails, NewClient, Panic, moveVars
<1>4. CASE ShortReply(p)
  BY <1>4 DEF ShortReply, Panic, NewClient, moveVars
<1> QED BY <1>1, <1>2, <1>3, <1>4

\* The steps that leave the index alone, and do not start to move it.
LEMMA IndexKept ==
  ASSUME RpcInv, RpcTypeOK', started => started', overlap' = overlap,
         urlIdx' = urlIdx, NEW p \in Posters,
         \A q \in Posters \ {p} : post'[q] = post[q],
         post'[p] \in Moving => post[p] = post'[p],
         started \/ (p = Poller \/ post'[p] = "idle")
  PROVE  MovesAlone'
<1> USE DEF RpcInv
<1>1. ~started' => \A s \in Sharers : post'[s] = "idle"
  BY RpcAssumption DEF MovesAlone, Posters
<1>2. \A q \in Posters : post'[q] \in Moving => post[q] = post'[q]
  OBVIOUS
<1>3. {"move", "inc"} \subseteq Moving BY DEF Moving
<1>4. ASSUME ~overlap'
      PROVE  /\ \A x, q \in Posters :
                  post'[x] \in Moving /\ post'[q] \in Moving => x = q
             /\ urlIdx' \in -1..(UrlCount - 1)
             /\ \A q \in Posters :
                  post'[q] \in {"move", "inc"} => urlIdx' + 1 \in Urls
  BY <1>2, <1>3, <1>4 DEF MovesAlone
<1> QED BY <1>1, <1>4 DEF MovesAlone

\* Every step keeps the types.
LEMMA RpcTypeStep == ASSUME RpcTypeOK, [RpcNext]_rpcVars PROVE RpcTypeOK'
<1> USE RpcAssumption
<1>1. ASSUME NEW p \in Posters,
             \/ CheckSick(p) \/ MoveUrl(p) \/ IncIdx(p) \/ WrapIdx(p)
             \/ ClearStats(p)
      PROVE  RpcTypeOK'
  <2>1. post' \in [Posters -> {"idle", "check", "send"} \union Moving]
    BY <1>1, GotoShape DEF CheckSick, MoveUrl, IncIdx, WrapIdx, ClearStats,
                           Moving
  <2>2. process' \in {"running", "exit", "panic"} /\ url' \in Urls
    BY <1>1 DEF CheckSick, MoveUrl, IncIdx, WrapIdx, ClearStats, moveVars,
                RpcTypeOK
  <2>3. urlIdx' \in Int
    BY <1>1 DEF CheckSick, MoveUrl, IncIdx, WrapIdx, ClearStats, moveVars,
                RpcTypeOK
  <2>4. /\ sick' \in {sick, FALSE} /\ sickRate' \in {sickRate, 0}
        /\ overlap' \in BOOLEAN
    <3>1. CASE CheckSick(p) BY <3>1 DEF CheckSick, healthVars, RpcTypeOK
    <3>2. CASE MoveUrl(p) \/ IncIdx(p) \/ WrapIdx(p) \/ ClearStats(p)
      BY <3>2 DEF MoveUrl, IncIdx, WrapIdx, ClearStats, healthVars, moveVars,
                  RpcTypeOK
    <3> QED BY <1>1, <3>1, <3>2
  <2>5. UNCHANGED <<down, started, number, shareRes>>
    BY <1>1 DEF CheckSick, MoveUrl, IncIdx, WrapIdx, ClearStats
  <2>6. sick' \in BOOLEAN
    BY <2>4 DEF RpcTypeOK
  <2>7. sickRate' \in 0..SickLimit
    BY <2>4 DEF RpcTypeOK
  <2> QED BY <2>1, <2>2, <2>3, <2>4, <2>5, <2>6, <2>7 DEF RpcTypeOK
<1>2. ASSUME NEW p \in Posters,
             Unreachable(p) \/ Garbage(p) \/ ErrorReply(p) \/ ShortReply(p)
      PROVE  RpcTypeOK'
  <2>1. post' \in [Posters -> {"idle", "check", "send"} \union Moving]
    BY <1>2, AnswerShape, GotoShape
  <2>2. /\ url' \in Urls /\ urlIdx' \in Int /\ started' \in BOOLEAN
        /\ overlap' \in BOOLEAN
    BY <1>2, AnswerShape DEF RpcTypeOK, Urls
  <2>3. process' \in {"running", "exit", "panic"}
    BY <1>2 DEF Unreachable, Garbage, ErrorReply, ShortReply, PollFails,
                StartFails, NewClient, Panic, RpcTypeOK
  <2>4. sick' \in BOOLEAN /\ sickRate' \in 0..SickLimit
    <3>1. markSick => sick' \in BOOLEAN BY DEF markSick
    <3>2. markSick => sickRate' \in 0..SickLimit BY DEF markSick, RpcTypeOK
    <3>3. \/ markSick \/ UNCHANGED <<sick, sickRate>>
          \/ sick' = FALSE /\ sickRate' = 0
      BY <1>2 DEF Unreachable, Garbage, ErrorReply, ShortReply, NewClient,
                  Panic, healthVars
    <3>4. sick' \in BOOLEAN BY <3>1, <3>3 DEF RpcTypeOK
    <3>5. sickRate' \in 0..SickLimit BY <3>2, <3>3 DEF RpcTypeOK
    <3> QED BY <3>4, <3>5
  <2>5. UNCHANGED <<down, number>>
    BY <1>2 DEF Unreachable, Garbage, ErrorReply, ShortReply, PollFails
  <2>6. shareRes' \in [Sharers -> {"none", "accepted", "rejected", "unsent"}]
    BY <1>2 DEF Unreachable, Garbage, ErrorReply, ShortReply, ShareUnsent,
                Posters, RpcTypeOK
  <2> QED BY <2>1, <2>2, <2>3, <2>4, <2>5, <2>6 DEF RpcTypeOK
<1>3. CASE WorkReply
  <2>1. post' \in [Posters -> {"idle", "check", "send"} \union Moving]
    BY <1>3, GotoShape DEF WorkReply, Posters
  <2>2. PICK e \in SeedEpochs :
          IF Number(e) >= 0
          THEN /\ number' = Number(e) /\ started' = TRUE
               /\ UNCHANGED <<process, moveVars>>
          ELSE PollFails
    BY <1>3 DEF WorkReply
  <2>3. Number(e) \in Int BY DEF Number
  <2>4. /\ number' \in {-1} \union Nat /\ started' \in BOOLEAN
        /\ process' \in {"running", "exit", "panic"}
        /\ UNCHANGED moveVars
    <3>1. CASE Number(e) >= 0 BY <2>2, <2>3, <3>1 DEF RpcTypeOK
    <3>2. CASE ~(Number(e) >= 0)
      BY <2>2, <3>2 DEF PollFails, StartFails, RpcTypeOK
    <3> QED BY <3>1, <3>2
  <2>5. UNCHANGED <<healthVars, down, shareRes>> BY <1>3 DEF WorkReply
  <2> QED BY <2>1, <2>4, <2>5 DEF RpcTypeOK, moveVars, healthVars
<1>4. ASSUME NEW p \in Posters, Post(p) PROVE RpcTypeOK'
  <2>1. post' \in [Posters -> {"idle", "check", "send"} \union Moving]
    BY <1>4, GotoShape DEF Post
  <2> QED BY <1>4, <2>1 DEF Post, RpcTypeOK, moveVars, healthVars
<1>5. ASSUME NEW s \in Sharers, ShareReply(s) PROVE RpcTypeOK'
  <2>1. post' \in [Posters -> {"idle", "check", "send"} \union Moving]
    BY <1>5, GotoShape DEF ShareReply, Posters
  <2>2. shareRes' \in [Sharers -> {"none", "accepted", "rejected", "unsent"}]
    BY <1>5 DEF ShareReply, RpcTypeOK
  <2> QED BY <1>5, <2>1, <2>2 DEF ShareReply, RpcTypeOK, moveVars, healthVars
<1>6. ASSUME NEW u \in Urls, ServerDies(u) PROVE RpcTypeOK'
  BY <1>6 DEF ServerDies, RpcTypeOK, moveVars, healthVars
<1>7. CASE UNCHANGED rpcVars
  BY <1>7 DEF rpcVars, RpcTypeOK
<1> QED BY <1>1, <1>2, <1>3, <1>4, <1>5, <1>6, <1>7
        DEF RpcNext, PollFires, ShareFound, Posters

\* Every step keeps the index in the list while a lone goroutine moves it.
LEMMA MovesStep == ASSUME RpcInv, [RpcNext]_rpcVars PROVE MovesAlone'
<1> USE RpcAssumption DEF RpcInv
<1>0. RpcTypeOK' BY RpcTypeStep
<1>1. ASSUME NEW p \in Posters, CheckSick(p) PROVE MovesAlone'
  <2>1. /\ post[p] = "check" /\ started' = started /\ urlIdx' = urlIdx
        /\ Goto(p, IF sick /\ UrlCount > urlIdx + 1 THEN "move" ELSE "send")
    BY <1>1 DEF CheckSick
  <2>2. CASE sick /\ UrlCount > urlIdx + 1
    <3>1. post'[p] = "move" /\ \A q \in Posters \ {p} : post'[q] = post[q]
      BY <2>1, <2>2, GotoShape DEF Moving
    <3>2. overlap' = (overlap \/ \E q \in Posters : post[q] \in Moving)
      BY <1>1, <2>2 DEF CheckSick
    <3>3. p \in Sharers => started BY <2>1 DEF MovesAlone
    <3>4. ~overlap' => urlIdx + 1 \in Urls
      <4>1. ~overlap' => urlIdx \in -1..(UrlCount - 1)
        BY <3>2 DEF MovesAlone
      <4> QED BY <2>2, <4>1 DEF Urls
    <3>5. ~overlap' => \A q \in Posters \ {p} : post'[q] \notin Moving
      BY <3>1, <3>2
    <3>6. ~started' => \A s \in Sharers : post'[s] = "idle"
      BY <2>1, <3>1, <3>3 DEF MovesAlone, Posters
    <3>7. ~overlap' => /\ urlIdx' \in -1..(UrlCount - 1)
                       /\ \A q \in Posters :
                            post'[q] \in {"move", "inc"} => urlIdx' + 1 \in Urls
      BY <2>1, <3>1, <3>2, <3>4, <3>5 DEF MovesAlone, Moving
    <3> QED BY <3>5, <3>6, <3>7 DEF MovesAlone
  <2>3. CASE ~(sick /\ UrlCount > urlIdx + 1)
    <3>1. post'[p] = "send" /\ \A q \in Posters \ {p} : post'[q] = post[q]
      BY <2>1, <2>3, GotoShape
    <3>2. overlap' = overlap
      <4>1. overlap' = (overlap \/ FALSE) BY <1>1, <2>3 DEF CheckSick
      <4> QED BY <4>1 DEF RpcTypeOK
    <3>3. started \/ p = Poller BY <2>1 DEF MovesAlone, Posters
    <3>4. "send" \notin Moving BY DEF Moving
    <3> QED BY <1>0, <2>1, <3>1, <3>2, <3>3, <3>4, IndexKept
  <2> QED BY <2>2, <2>3
<1>2. ASSUME NEW p \in Posters, MoveUrl(p) \/ ClearStats(p) PROVE MovesAlone'
  <2>1. /\ started' = started /\ overlap' = overlap /\ urlIdx' = urlIdx
        /\ \/ post[p] = "move" /\ Goto(p, "inc")
           \/ post[p] = "clear" /\ Goto(p, "send")
    BY <1>2 DEF MoveUrl, ClearStats, moveVars
  <2>2. CASE post[p] = "clear" /\ Goto(p, "send")
    <3>1. post'[p] = "send" /\ \A q \in Posters \ {p} : post'[q] = post[q]
      BY <2>2, GotoShape
    <3>2. started \/ p = Poller BY <2>2 DEF MovesAlone, Posters
    <3>3. "send" \notin Moving BY DEF Moving
    <3> QED BY <1>0, <2>1, <3>1, <3>2, <3>3, IndexKept
  <2>3. CASE post[p] = "move" /\ Goto(p, "inc")
    <3>1. post'[p] = "inc" /\ \A q \in Posters \ {p} : post'[q] = post[q]
      BY <2>3, GotoShape DEF Moving
    <3>2. started \/ p = Poller BY <2>3 DEF MovesAlone, Posters
    <3>3. \A q \in Posters : post'[q] \in Moving => post[q] \in Moving
      BY <2>3, <3>1 DEF Moving
    <3>4. \A q \in Posters : post'[q] \in {"move", "inc"}
                               => post[q] \in {"move", "inc"}
      BY <2>3, <3>1
    <3>5. ~started' => \A s \in Sharers : post'[s] = "idle"
      BY <2>1, <2>3, <3>1, <3>2 DEF MovesAlone, Posters
    <3> QED BY <2>1, <3>3, <3>4, <3>5 DEF MovesAlone
  <2> QED BY <2>1, <2>2, <2>3
<1>3. ASSUME NEW p \in Posters, IncIdx(p) \/ WrapIdx(p) PROVE MovesAlone'
  <2>1. /\ started' = started /\ overlap' = overlap
        /\ \/ post[p] = "inc" /\ Goto(p, "wrap") /\ urlIdx' = urlIdx + 1
           \/ /\ post[p] = "wrap" /\ Goto(p, "clear")
              /\ urlIdx' = IF urlIdx + 1 = UrlCount THEN -1 ELSE urlIdx
    BY <1>3 DEF IncIdx, WrapIdx
  <2>2. /\ post'[p] \in {"wrap", "clear"}
        /\ \A q \in Posters \ {p} : post'[q] = post[q]
    BY <2>1, GotoShape DEF Moving
  <2>3. post[p] \in Moving /\ (started \/ p = Poller)
    BY <2>1 DEF MovesAlone, Posters, Moving
  <2>4. ~started' => \A s \in Sharers : post'[s] = "idle"
    BY <2>1, <2>2, <2>3 DEF MovesAlone, Posters
  <2>5. ~overlap' => \A q \in Posters \ {p} : post'[q] \notin Moving
    BY <2>1, <2>2, <2>3 DEF MovesAlone
  <2>6. ~overlap' => urlIdx' \in -1..(UrlCount - 1)
    BY <2>1 DEF MovesAlone, Urls
  <2>7. \A q \in Posters : post'[q] \in {"move", "inc"} =>
          q # p /\ post'[q] \in Moving
    BY <2>2 DEF Moving
  <2> QED BY <2>4, <2>5, <2>6, <2>7 DEF MovesAlone
<1>4. ASSUME NEW p \in Posters,
             Unreachable(p) \/ Garbage(p) \/ ErrorReply(p) \/ ShortReply(p)
      PROVE  MovesAlone'
  <2>1. /\ post[p] = "send" /\ Goto(p, "idle")
        /\ started' = started /\ overlap' = overlap
        /\ \/ UNCHANGED <<url, urlIdx>>
           \/ p = Poller /\ ~started /\ url' = 0 /\ urlIdx' = 0
    BY <1>4, AnswerShape
  <2>2. post'[p] = "idle" /\ \A q \in Posters \ {p} : post'[q] = post[q]
    BY <2>1, GotoShape
  <2>3. CASE UNCHANGED urlIdx
    <3>1. "idle" \notin Moving BY DEF Moving
    <3> QED BY <1>0, <2>1, <2>2, <2>3, <3>1, IndexKept
  <2>4. CASE p = Poller /\ ~started /\ urlIdx' = 0
    <3>1. \A q \in Posters : post'[q] = "idle"
      BY <2>2, <2>4 DEF MovesAlone, Posters
    <3> QED BY <2>4, <3>1 DEF MovesAlone, Moving, Posters
  <2> QED BY <2>1, <2>3, <2>4
<1>5. CASE WorkReply
  <2>1. /\ post[Poller] = "send" /\ Goto(Poller, "idle")
        /\ UNCHANGED <<urlIdx, overlap>>
        /\ started => started'
    BY <1>5 DEF WorkReply, PollFails, moveVars
  <2>2. post'[Poller] = "idle"
        /\ \A q \in Posters \ {Poller} : post'[q] = post[q]
    BY <2>1, GotoShape DEF Posters
  <2>3. post'[Poller] \notin Moving /\ Poller \in Posters
    BY <2>2 DEF Moving, Posters
  <2> QED BY <1>0, <2>1, <2>2, <2>3, IndexKept
<1>6. ASSUME NEW p \in Posters, Post(p), started \/ p = Poller
      PROVE  MovesAlone'
  <2>1. /\ post[p] = "idle" /\ Goto(p, "check")
        /\ UNCHANGED <<started, urlIdx, overlap>>
    BY <1>6 DEF Post, moveVars
  <2>2. post'[p] = "check" /\ \A q \in Posters \ {p} : post'[q] = post[q]
    BY <2>1, GotoShape
  <2>3. "check" \notin Moving BY DEF Moving
  <2> QED BY <1>0, <1>6, <2>1, <2>2, <2>3, IndexKept
<1>7. ASSUME NEW s \in Sharers, ShareReply(s) PROVE MovesAlone'
  <2>1. /\ s \in Posters /\ Goto(s, "idle")
        /\ UNCHANGED <<started, urlIdx, overlap>>
    BY <1>7 DEF ShareReply, moveVars, Posters
  <2>2. post'[s] = "idle" /\ \A q \in Posters \ {s} : post'[q] = post[q]
    BY <2>1, GotoShape
  <2>3. "idle" \notin Moving BY DEF Moving
  <2> QED BY <1>0, <2>1, <2>2, <2>3, IndexKept
<1>8. ASSUME (\E u \in Urls : ServerDies(u)) \/ UNCHANGED rpcVars
      PROVE  MovesAlone'
  BY <1>8 DEF ServerDies, rpcVars, moveVars, MovesAlone
<1> QED BY <1>1, <1>2, <1>3, <1>4, <1>5, <1>6, <1>7, <1>8
        DEF RpcNext, PollFires, ShareFound, Posters

\* Every step keeps the invariant.
LEMMA RpcStep == RpcInv /\ [RpcNext]_rpcVars => RpcInv'
BY RpcTypeStep, MovesStep DEF RpcInv

\* The inductive invariant holds in every reachable state.
THEOREM RpcInvariance == RpcSpec => []RpcInv
<1>1. RpcInit => RpcInv BY RpcInitInv
<1>2. RpcInv /\ [RpcNext]_rpcVars => RpcInv' BY RpcStep
<1> QED BY <1>1, <1>2, PTL DEF RpcSpec

\* As long as no two goroutines fail over at once, urlIdx + 1 is a server of
\* the list whenever it is used as one, through every kind of answer.
THEOREM FailoverInRangeHolds == RpcSpec => []FailoverInRange
<1>1. RpcInv => FailoverInRange BY DEF RpcInv, MovesAlone, FailoverInRange
<1> QED BY <1>1, RpcInvariance, PTL
=============================================================================
