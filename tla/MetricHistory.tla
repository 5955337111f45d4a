--------------------------- MODULE MetricHistory ---------------------------
(* The history behind the dashboard's charts: http/ts/ts.go keeps a ring   *)
(* of buckets per metric, http/metricstat/metricstat.go samples every      *)
(* metric into it once a Resolution, and chartData of http/http.go adds up *)
(* the metrics whose name ends in "hashrate", row by row.  Clear comes     *)
(* from the modes after a DAG change.                                      *)
(*                                                                         *)
(* Time is counted in ticks of the clock, Resolution of them to a bucket.  *)
(* A metric's value is zero or a number that tells when it was sampled.    *)
(* The two readings of the clock of one FromDuration are one here; those   *)
(* of different series are not.                                            *)
EXTENDS Integers, Sequences, FiniteSetsExt

CONSTANTS
  Names,      \* metrics of the registry
  Rates,      \* those whose name ends in "hashrate": of devices, of solutions
  Resolution, \* ticks of a bucket: the minute of the code
  Duration,   \* ticks of the history: a multiple of Resolution, 24 hours
  MaxNow,     \* bound: the clock stops
  MaxClears   \* bound: calls of ClearStats

ASSUME HistoryAssumption ==
  /\ IsFiniteSet(Names) /\ Rates \subseteq Names
  /\ {Resolution, Duration, MaxNow} \subseteq Nat \ {0} /\ MaxClears \in Nat
  /\ Duration % Resolution = 0 /\ Duration <= MaxNow

VARIABLES
  now,      \* the clock
  sampler,  \* MetricStat.start: asleep until wake, or with names to update
  known,    \* names of the map metricseries
  rings,    \* per name, the buckets by their index
  request,  \* chartData: the series it has not read, those it has added up
  clears,   \* calls of ClearStats so far
  samples   \* history: what was sampled since the last Clear

historyVars == <<now, sampler, known, rings, request, clears, samples>>

Floor(t) == t - (t % Resolution)
Index(t) == Floor(t) % Duration
Indices == {Index(t) : t \in 0..(Duration - 1)}
NoBucket == [t |-> -1, v |-> 0]
NoRequest == [open |-> FALSE, todo |-> {}, read |-> {}, since |-> 0,
              total |-> <<>>]

HistoryTypeOK ==
  /\ now \in Duration..MaxNow
  /\ sampler.todo \subseteq Names /\ sampler.wake \in 0..(MaxNow + Resolution)
  /\ known \subseteq Names /\ clears \in 0..MaxClears
  /\ \A n \in Names, x \in Indices :
       rings[n][x] \in [t : {-1} \union 0..MaxNow, v : 0..MaxNow]
  /\ request.todo \subseteq Names /\ request.read \subseteq Names
  /\ Len(request.total) <= Duration \div Resolution

NewRing == [x \in Indices |-> NoBucket]

HistoryInit ==
  /\ now = Duration /\ clears = 0
  /\ sampler = [todo |-> {}, wake |-> Duration]
  /\ known = {} /\ rings = [n \in Names |-> NewRing]
  /\ request = NoRequest /\ samples = {}

Reading == request.open
Updating == sampler.todo # {}

ClockMoves ==
  /\ now < MaxNow
  /\ now' = now + 1
  /\ UNCHANGED <<sampler, known, rings, request, clears, samples>>
-----------------------------------------------------------------------------
(* ts.Series.                                                              *)

\* Mutant of get: whatever is at the index.
getAny(ring, t) == [t |-> Floor(t), v |-> ring[Index(t)].v]

\* A bucket of another round of the ring counts for nothing.
get(ring, t) ==
  IF ring[Index(t)].t = Floor(t) THEN ring[Index(t)]
                                 ELSE [t |-> Floor(t), v |-> 0]

Insert(ring, t, value) ==
  [ring EXCEPT ![Index(t)] = [t |-> Floor(t), v |-> value]]

\* The buckets from start to end; a zero at the end is left out.
BucketRange(ring, start, end) ==
  LET first == IF Floor(start) < Floor(now - Duration)
               THEN Floor(now - Duration) ELSE Floor(start)
      all == [i \in 1..((Floor(end) - first) \div Resolution + 1) |->
                get(ring, first + (i - 1) * Resolution)]
  IN  IF all[Len(all)].v = 0 THEN SubSeq(all, 1, Len(all) - 1) ELSE all

FromDuration(ring, d) == BucketRange(ring, now - d + Resolution, now)
-----------------------------------------------------------------------------
(* MetricStat: the sampler and Clear need the lock that a request shares.  *)

UpdateStarts ==
  /\ ~Updating /\ ~Reading /\ now >= sampler.wake
  /\ sampler' = [sampler EXCEPT !.todo = Names]
  /\ UNCHANGED <<now, known, rings, request, clears, samples>>

\* The registry hands out the metrics in any order; each reads the clock.
\* After the last one the sampler sleeps for a Resolution.
Sample(n) ==
  /\ n \in sampler.todo
  /\ \E value \in {0, now} :
       /\ rings' = [rings EXCEPT ![n] = Insert(@, now, value)]
       /\ samples' = samples \union {[name |-> n, at |-> now, v |-> value]}
  /\ known' = known \union {n}
  /\ sampler' = [todo |-> sampler.todo \ {n},
                 wake |-> IF sampler.todo = {n} THEN now + Resolution
                                                ELSE sampler.wake]
  /\ UNCHANGED <<now, request, clears>>

ClearHistory ==
  /\ ~Updating /\ ~Reading /\ clears < MaxClears
  /\ clears' = clears + 1 /\ samples' = {}
  /\ rings' = [n \in Names |-> NewRing]
  /\ UNCHANGED <<now, sampler, known, request>>
-----------------------------------------------------------------------------
(* chartData.                                                              *)

RequestStarts ==
  /\ ~Updating /\ ~Reading /\ known # {}
  /\ request' = [NoRequest EXCEPT !.open = TRUE, !.todo = known, !.since = now]
  /\ UNCHANGED <<now, sampler, known, rings, clears, samples>>

\* The i-th bucket of a series is added to the i-th row of the total, which
\* bears the time of the series that was read first.
Added(total, buckets) ==
  [i \in (DOMAIN total) \union (DOMAIN buckets) |->
     IF i > Len(total) THEN buckets[i]
     ELSE IF i > Len(buckets) THEN total[i]
     ELSE [total[i] EXCEPT !.v = @ + buckets[i].v]]

ReadSeries(n) ==
  /\ n \in request.todo
  /\ request' = IF n \notin Rates THEN [request EXCEPT !.todo = @ \ {n}]
                ELSE [request EXCEPT
                        !.todo = @ \ {n}, !.read = @ \union {n},
                        !.total = Added(@, FromDuration(rings[n], Duration))]
  /\ UNCHANGED <<now, sampler, known, rings, clears, samples>>

RequestEnds ==
  /\ Reading /\ request.todo = {}
  /\ request' = NoRequest
  /\ UNCHANGED <<now, sampler, known, rings, clears, samples>>

HistoryNext ==
  \/ ClockMoves \/ UpdateStarts \/ ClearHistory \/ RequestStarts
  \/ RequestEnds
  \/ \E n \in Names : Sample(n) \/ ReadSeries(n)

HistorySpec == HistoryInit /\ [][HistoryNext]_historyVars
-----------------------------------------------------------------------------
(* Properties.                                                             *)

\* What was sampled of a metric in the minute t; at most once, for the
\* sampler sleeps a whole minute.
Sampled(n, t) ==
  MapThenSumSet(LAMBDA s : s.v,
                {s \in samples : s.name = n /\ Floor(s.at) = t})

\* Unless a minute begins while a request is served, each row of the total is
\* the sum of what was sampled in that one minute of the metrics whose name
\* ends in "hashrate" and that were read, for a whole Duration back:
\* the ring neither shows a value of its previous round or of before a Clear
\* nor loses one, and no row but zeros at the end is missing.
ChartIsExact ==
  (Reading /\ Floor(request.since) = Floor(now)) =>
    LET Sum(t) == MapThenSumSet(LAMBDA n : Sampled(n, t), request.read)
        Row(i) == Floor(now) - Duration + i * Resolution
    IN  \A i \in 1..(Duration \div Resolution) :
          IF i <= Len(request.total)
          THEN request.total[i] = [t |-> Row(i), v |-> Sum(Row(i))]
          ELSE Sum(Row(i)) = 0
=============================================================================
