--------------------------- MODULE EthashAlgorithm ---------------------------
(***************************************************************************)
(* ethash/algorithm.go: the generation of a cache, of one dataset item     *)
(* and, by several goroutines, of a whole dataset, and hashimoto with      *)
(* either of them.  Words have WordBits bits and rows HashWords words; the *)
(* hash functions are any functions.  The sizes are in EthashSizes.        *)
(***************************************************************************)
EXTENDS EthashSizes, Sequences

CONSTANTS
  WordBits,     \* 32
  OffsetBits,   \* bits of an offset into the dataset: 32, like a word
  HashWords,    \* 16
  CacheRounds,  \* 3
  Parents,      \* datasetParents: 256
  LoopAccesses, \* 64
  Keccak(_),    \* of a row, a row
  Blake(_, _),  \* of a header hash and a nonce, a row
  CacheRows,    \* rows of the cache
  Datasets,     \* <<rows of the dataset, threads>> to generate it with
  SealHashes,   \* header hashes
  SealNonces    \* nonces to look at

ASSUME AlgorithmAssumption ==
  /\ {WordBits, OffsetBits, HashWords, CacheRounds, Parents, LoopAccesses, CacheRows}
       \subseteq Nat \ {0}
  /\ Datasets \subseteq Nat \X (Nat \ {0})
  /\ \A d \in Datasets : d[1] % 2 = 0
  /\ 2^OffsetBits \in Nat \ {0} /\ 2^OffsetBits % HashWords = 0

VARIABLES
  plan,    \* rows and threads
  cached,  \* the cache of the epoch
  dset,    \* rows written so far; <<>> for a row never written
  cursor   \* per thread, the next row it writes

dsetVars == <<plan, cached, dset, cursor>>

Words == 0..(2^WordBits - 1)
Rows  == [1..HashWords -> Words]

\* Keccak makes a row of a row.
ASSUME KeccakAssumption == \A r \in Rows : Keccak(r) \in Rows

\* The powers of two, of which the provers know nothing.
ASSUME PowersAssumption ==
  2^0 = 1 /\ \A i \in 1..WordBits : 2^i = 2 * 2^(i - 1)
-----------------------------------------------------------------------------
(* Words and rows.                                                         *)

Bit(a, i) == (a \div 2^i) % 2

Xor(a, b) ==
  LET upTo[i \in 0..WordBits] ==
        IF i = 0 THEN 0
        ELSE upTo[i - 1] + 2^(i - 1) * ((Bit(a, i - 1) + Bit(b, i - 1)) % 2)
  IN  upTo[WordBits]

fnv(a, b) == Xor((a * (16777619 % 2^WordBits)) % 2^WordBits, b)

fnvHash(mix, data) == [i \in 1..Len(mix) |-> fnv(mix[i], data[i])]

XorRows(r, s) == [i \in 1..HashWords |-> Xor(r[i], s[i])]

ZeroRow == [i \in 1..HashWords |-> 0]

\* The seed of an epoch: the zero row hashed as often as there are epochs.
seedHash(epoch) ==
  LET seed[e \in 0..epoch] == IF e = 0 THEN ZeroRow ELSE Keccak(seed[e - 1])
  IN  seed[epoch]
-----------------------------------------------------------------------------
(* generateCache.                                                          *)

\* The rows are hashed one from the other.
FilledCache(seed) ==
  LET row[j \in 0..(CacheRows - 1)] ==
        IF j = 0 THEN Keccak(seed) ELSE Keccak(row[j - 1])
  IN  row

\* Row j is replaced by the hash of its predecessor and a row it points to.
MixedRow(c, j) ==
  [c EXCEPT ![j] = Keccak(XorRows(c[(j - 1 + CacheRows) % CacheRows],
                                  c[c[j][1] % CacheRows]))]

generateCache(seed) ==
  LET after[n \in 0..(CacheRounds * CacheRows)] ==
        IF n = 0 THEN FilledCache(seed)
        ELSE MixedRow(after[n - 1], (n - 1) % CacheRows)
  IN  after[CacheRounds * CacheRows]
-----------------------------------------------------------------------------
(* generateDatasetItem.                                                    *)

FirstMix(c, index) ==
  Keccak([c[index % CacheRows] EXCEPT ![1] = Xor(@, index % 2^WordBits)])

generateDatasetItem(c, index) ==
  LET mixed[i \in 0..Parents] ==
        IF i = 0 THEN FirstMix(c, index)
        ELSE LET parent == fnv(Xor(index % 2^WordBits, (i - 1) % 2^WordBits),
                               mixed[i - 1][((i - 1) % HashWords) + 1])
             IN  fnvHash(mixed[i - 1], c[parent % CacheRows])
  IN  Keccak(mixed[Parents])
-----------------------------------------------------------------------------
(* generateDataset: every thread fills a batch of rows.                    *)

\* Mutant of BatchSize: rounded down, so rows are left at the end.
BatchSizeDown(rows, threads) == rows \div threads

BatchSize(rows, threads) == (rows + threads - 1) \div threads

\* Rows of thread t, counted from zero; the last threads may get none.
BatchStart(t) == t * BatchSize(plan[1], plan[2])
BatchLimit(t) == IF BatchStart(t) + BatchSize(plan[1], plan[2]) > plan[1]
                 THEN plan[1]
                 ELSE BatchStart(t) + BatchSize(plan[1], plan[2])

DsetInit ==
  /\ plan \in Datasets
  /\ cached = generateCache(seedHash(1))
  /\ dset = [r \in 0..(plan[1] - 1) |-> <<>>]
  /\ cursor = [t \in 0..(plan[2] - 1) |-> BatchStart(t)]

WriteRow(t) ==
  /\ cursor[t] < BatchLimit(t)
  /\ dset' = [dset EXCEPT
                ![cursor[t]] = generateDatasetItem(cached, cursor[t])]
  /\ cursor' = [cursor EXCEPT ![t] = @ + 1]
  /\ UNCHANGED <<plan, cached>>

DsetNext == \E t \in DOMAIN cursor : WriteRow(t)

DsetSpec == DsetInit /\ [][DsetNext]_dsetVars

\* pend.Wait has returned.
DatasetDone == \A t \in DOMAIN cursor : cursor[t] >= BatchLimit(t)
-----------------------------------------------------------------------------
(* hashimoto.                                                              *)

Halved(mix) == [i \in 1..(Len(mix) \div 4) |->
                  fnv(fnv(fnv(mix[4 * i - 3], mix[4 * i - 2]), mix[4 * i - 1]),
                      mix[4 * i])]

\* A mix of two rows is folded with LoopAccesses pairs of rows, unless a slice
\* is out of range and the goroutine panics, which leaves no mix.
hashimoto(hash, nonce, pairs, lookup) ==
  LET seed == Blake(hash, nonce)
      Folded(mix, i) ==
        LET parent == fnv(Xor(i % 2^WordBits, seed[1]),
                          mix[(i % (2 * HashWords)) + 1]) % pairs
            pair   == <<lookup[2 * parent], lookup[2 * parent + 1]>>
        IN  IF <<>> \in {pair[1], pair[2]} THEN <<>>
            ELSE fnvHash(mix, pair[1] \o pair[2])
      mixed[i \in 0..LoopAccesses] ==
        IF i = 0 THEN seed \o seed
        ELSE IF mixed[i - 1] = <<>> THEN <<>> ELSE Folded(mixed[i - 1], i - 1)
      digest == Halved(mixed[LoopAccesses])
  IN  IF digest = <<>> THEN <<>> ELSE <<digest, Blake(seed, digest)>>

\* The rows are generated when they are looked up.
hashimotoLight(pairs, c, hash, nonce) ==
  LET lookup == [index \in 0..(2 * pairs - 1) |-> generateDatasetItem(c, index)]
  IN  hashimoto(hash, nonce, pairs, lookup)

\* dataset[offset : offset+hashWords], of a dataset of so many rows: a slice
\* that begins behind its end is out of range.
Slice(d, rows, index) ==
  LET offset == (index * HashWords) % 2^OffsetBits
      end    == (offset + HashWords) % 2^OffsetBits
  IN  IF offset < end /\ end <= rows * HashWords THEN d[offset \div HashWords]
      ELSE <<>>

\* The rows are read; how many there are is the length of the slice.
hashimotoFull(d, rows, hash, nonce) ==
  LET lookup == [index \in 0..(2 * (rows \div 2) - 1) |-> Slice(d, rows, index)]
  IN  hashimoto(hash, nonce, rows \div 2, lookup)

\* Offsets tell the rows of a dataset apart: below 16 GiB, up to epoch 1920.
Addressable(rows) == rows * HashWords < 2^OffsetBits

AlgorithmTypeOK ==
  /\ plan \in Datasets
  /\ \A r \in DOMAIN dset :
       dset[r] = <<>> \/ dset[r] \in Rows
  /\ \A t \in DOMAIN cursor :
       cursor[t] \in 0..(plan[2] * BatchSize(plan[1], plan[2]))
-----------------------------------------------------------------------------
(* Properties.                                                             *)

\* When generateDataset returns, each row was written, by one thread.  Mining
\* with the dataset and verifying with the cache then agree on every nonce, as
\* long as offsets are wide enough for the dataset.
LightIsFull ==
  DatasetDone =>
    /\ \A r \in DOMAIN dset : dset[r] # <<>>
    /\ Addressable(plan[1]) =>
         \A h \in SealHashes, n \in SealNonces :
           hashimotoFull(dset, plan[1], h, n)
             = hashimotoLight(plan[1] \div 2, cached, h, n)

\* hashimotoLight and hashimotoFull both "produce our final value for a
\* particular header hash and nonce", of any dataset that the table names.
FullIsLightAlways ==
  DatasetDone =>
    \A h \in SealHashes, n \in SealNonces :
      hashimotoFull(dset, plan[1], h, n)
        = hashimotoLight(plan[1] \div 2, cached, h, n)

\* Blocks on the two sides of a multiple of epochLength have datasets of
\* different sizes, for all the epochs of the tables and where the search for
\* a prime takes over from them: comparing sizes, as the miners do, tells an
\* epoch from the next.
SizeTellsEpoch == DatasetDone => \A e \in 0..maxEpoch : SizesDiffer(e)
=============================================================================
