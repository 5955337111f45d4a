----------------------------- MODULE EthashSizes -----------------------------
(***************************************************************************)
(* The sizes of caches and datasets (ethash/algorithm.go): two tables for  *)
(* the first maxEpoch epochs and a search for a prime for those after      *)
(* them.  Sizes are in rows: a cache of cacheSize / hashBytes of them, a   *)
(* dataset of datasetSize / mixBytes.                                      *)
(***************************************************************************)
EXTENDS Integers

maxEpoch == 2048

\* What a size is at or below.
CacheThreshold(epoch)   == 2^18 + 2^11 * epoch - 1
DatasetThreshold(epoch) == 2^23 + 2^16 * epoch - 1

\* The table datasetSizes: how far each entry is below its threshold, in steps
\* of two rows.  Entry 7 of epoch 0 is 2^23 - 1 - 2 * 7 rows of 128 bytes, the
\* 1073739904 of the code.
datasetGaps ==
  <<7, 0, 16, 3, 12, 2, 13, 0, 4, 25, 0, 10, 1, 26, 7, 9, 2, 11, 18, 2, 2, 0,
    3, 23, 4, 14, 2, 0, 11, 5, 10, 3, 4, 16, 0, 14, 0, 8, 7, 0, 5, 5, 3, 3, 5,
    0, 8, 1, 3, 2, 2, 6, 5, 1, 0, 2, 1, 1, 9, 2, 7, 2, 16, 18, 9, 4, 12, 18,
    11, 0, 3, 1, 1, 3, 4, 4, 5, 13, 21, 27, 5, 0, 5, 1, 9, 2, 16, 0, 6, 1, 19,
    8, 19, 9, 6, 10, 0, 20, 1, 7, 5, 10, 1, 11, 1, 9, 8, 4, 16, 27, 4, 10, 14,
    2, 12, 3, 1, 1, 3, 16, 4, 2, 11, 3, 2, 10, 22, 9, 1, 0, 12, 28, 10, 2, 1,
    3, 20, 5, 7, 0, 7, 30, 5, 2, 0, 14, 7, 0, 18, 20, 3, 5, 8, 9, 27, 35, 6,
    18, 7, 0, 0, 1, 3, 2, 4, 3, 11, 8, 4, 9, 5, 7, 0, 2, 1, 18, 10, 1, 2, 4,
    18, 23, 4, 3, 20, 10, 3, 15, 14, 1, 9, 2, 6, 17, 4, 7, 6, 16, 4, 6, 5, 1,
    30, 14, 0, 17, 2, 6, 2, 5, 0, 15, 20, 3, 11, 22, 16, 0, 26, 15, 3, 5, 4, 2,
    2, 3, 6, 16, 21, 6, 5, 7, 11, 1, 0, 3, 1, 16, 8, 14, 15, 5, 10, 1, 0, 23,
    0, 11, 28, 0, 2, 8, 6, 11, 10, 0, 5, 4, 1, 0, 5, 10, 3, 4, 7, 14, 2, 0, 6,
    16, 27, 5, 10, 18, 0, 2, 0, 6, 2, 1, 0, 10, 3, 14, 7, 4, 0, 13, 22, 2, 14,
    1, 5, 1, 21, 3, 25, 4, 6, 4, 0, 0, 10, 6, 5, 5, 36, 3, 11, 0, 9, 5, 10, 32,
    1, 3, 3, 19, 4, 5, 20, 13, 3, 8, 1, 12, 1, 4, 2, 4, 3, 2, 14, 1, 2, 19, 1,
    0, 13, 4, 0, 2, 1, 8, 2, 9, 0, 1, 9, 9, 13, 7, 5, 34, 0, 8, 7, 9, 2, 10, 0,
    3, 16, 3, 2, 2, 1, 0, 13, 9, 3, 10, 1, 2, 17, 24, 11, 1, 7, 5, 2, 6, 20, 2,
    19, 24, 5, 10, 2, 4, 13, 0, 10, 24, 2, 13, 1, 0, 1, 22, 8, 8, 0, 26, 5, 34,
    0, 4, 16, 0, 10, 0, 8, 16, 22, 15, 2, 4, 21, 2, 0, 3, 1, 12, 0, 5, 3, 8, 1,
    10, 2, 1, 0, 6, 2, 0, 6, 4, 1, 0, 5, 13, 8, 1, 0, 18, 5, 0, 9, 2, 12, 2, 4,
    4, 0, 4, 0, 9, 7, 7, 8, 1, 10, 3, 4, 25, 6, 1, 12, 0, 4, 48, 0, 34, 0, 3,
    8, 1, 8, 4, 0, 0, 10, 13, 2, 5, 0, 3, 1, 6, 8, 17, 3, 2, 11, 0, 3, 10, 18,
    12, 19, 0, 14, 7, 6, 8, 10, 6, 12, 4, 9, 2, 8, 4, 5, 14, 0, 6, 1, 9, 5, 2,
    1, 9, 17, 0, 3, 5, 3, 0, 2, 10, 0, 1, 9, 5, 11, 1, 6, 32, 18, 23, 4, 21, 2,
    19, 1, 0, 16, 19, 8, 1, 9, 2, 1, 9, 6, 8, 4, 14, 14, 10, 6, 2, 21, 18, 5,
    1, 8, 16, 3, 3, 4, 12, 11, 19, 12, 6, 17, 4, 8, 2, 1, 3, 2, 12, 2, 14, 7,
    15, 19, 3, 6, 4, 0, 0, 1, 18, 2, 1, 0, 23, 11, 9, 5, 2, 3, 8, 22, 1, 2, 20,
    0, 24, 7, 12, 0, 10, 9, 9, 7, 6, 6, 4, 4, 3, 16, 13, 11, 5, 10, 8, 16, 4,
    0, 14, 3, 6, 1, 12, 24, 8, 18, 14, 4, 3, 2, 4, 18, 5, 2, 0, 5, 8, 10, 5,
    22, 6, 9, 1, 13, 5, 4, 13, 0, 7, 7, 5, 7, 4, 5, 16, 16, 3, 2, 0, 12, 13,
    16, 9, 5, 1, 6, 11, 1, 2, 1, 36, 9, 5, 3, 2, 13, 3, 9, 8, 0, 18, 7, 6, 9,
    26, 1, 17, 17, 4, 20, 1, 3, 24, 4, 12, 11, 1, 0, 5, 16, 4, 11, 4, 10, 0, 5,
    22, 6, 13, 21, 38, 1, 1, 3, 13, 24, 6, 19, 4, 5, 1, 4, 6, 14, 21, 0, 22, 6,
    3, 1, 9, 3, 1, 4, 2, 4, 3, 6, 7, 3, 9, 17, 19, 14, 1, 0, 2, 10, 12, 11, 4,
    1, 5, 10, 0, 5, 4, 1, 0, 2, 0, 14, 2, 4, 0, 13, 3, 0, 19, 1, 5, 11, 15, 9,
    1, 0, 9, 4, 7, 18, 19, 7, 5, 5, 7, 0, 7, 10, 0, 10, 4, 18, 4, 7, 3, 14, 1,
    6, 5, 6, 14, 1, 9, 0, 11, 3, 3, 5, 13, 6, 4, 4, 6, 5, 1, 5, 13, 9, 8, 5, 0,
    6, 1, 4, 3, 1, 6, 0, 2, 3, 3, 2, 1, 0, 10, 6, 8, 1, 3, 3, 14, 1, 9, 2, 0,
    26, 8, 4, 8, 7, 6, 2, 2, 9, 5, 5, 1, 2, 4, 3, 6, 2, 6, 5, 2, 4, 2, 2, 0,
    12, 8, 7, 21, 2, 3, 5, 1, 12, 12, 2, 1, 26, 4, 4, 2, 8, 3, 12, 5, 0, 0, 22,
    36, 2, 1, 3, 3, 4, 9, 8, 23, 12, 2, 4, 15, 15, 2, 10, 18, 5, 19, 14, 5, 0,
    11, 4, 24, 5, 7, 0, 0, 22, 0, 2, 5, 3, 6, 14, 0, 11, 4, 3, 0, 7, 0, 9, 1,
    9, 2, 1, 4, 2, 1, 7, 23, 5, 6, 14, 5, 10, 0, 16, 0, 3, 2, 13, 11, 4, 4, 5,
    1, 4, 0, 13, 1, 11, 13, 0, 15, 7, 4, 2, 1, 0, 11, 4, 1, 6, 5, 1, 9, 7, 1,
    12, 1, 21, 2, 2, 12, 11, 8, 9, 14, 8, 12, 6, 11, 6, 2, 1, 6, 6, 1, 0, 8, 1,
    16, 2, 14, 15, 8, 1, 7, 17, 10, 49, 6, 5, 22, 3, 8, 1, 6, 4, 0, 3, 13, 36,
    12, 5, 3, 9, 1, 30, 23, 4, 21, 5, 8, 12, 15, 2, 4, 0, 25, 9, 6, 4, 25, 5,
    5, 4, 0, 13, 3, 0, 1, 6, 0, 20, 1, 2, 2, 4, 5, 8, 12, 6, 10, 15, 5, 7, 1,
    9, 1, 9, 3, 11, 10, 0, 8, 16, 6, 4, 1, 0, 4, 6, 0, 2, 0, 3, 2, 0, 2, 26, 1,
    14, 2, 10, 26, 7, 16, 2, 7, 3, 3, 14, 9, 3, 1, 1, 6, 4, 6, 14, 7, 0, 24, 1,
    0, 6, 19, 3, 0, 1, 1, 5, 4, 0, 0, 2, 24, 5, 11, 13, 2, 17, 10, 5, 19, 9,
    11, 7, 0, 9, 2, 12, 3, 1, 0, 17, 4, 4, 8, 5, 19, 11, 13, 7, 3, 13, 4, 3, 1,
    6, 8, 7, 4, 12, 8, 16, 14, 2, 12, 6, 28, 7, 0, 8, 4, 2, 10, 24, 6, 11, 1,
    6, 2, 1, 3, 4, 0, 0, 1, 0, 2, 2, 3, 12, 8, 3, 9, 4, 3, 15, 1, 9, 15, 11,
    13, 9, 5, 30, 3, 10, 7, 2, 4, 0, 20, 2, 1, 15, 1, 3, 3, 4, 30, 11, 1, 1, 5,
    4, 0, 6, 2, 0, 5, 13, 0, 12, 16, 0, 5, 13, 4, 5, 2, 3, 6, 2, 10, 3, 8, 4,
    9, 14, 3, 3, 11, 3, 5, 8, 0, 18, 4, 4, 8, 20, 1, 3, 2, 4, 6, 1, 4, 0, 7, 7,
    20, 14, 0, 14, 1, 4, 11, 1, 0, 32, 1, 7, 0, 17, 1, 3, 1, 6, 5, 10, 15, 8,
    4, 4, 5, 1, 21, 11, 13, 7, 0, 7, 9, 0, 5, 9, 3, 5, 7, 6, 4, 18, 5, 4, 0, 0,
    7, 6, 2, 11, 0, 17, 19, 19, 2, 5, 3, 2, 4, 7, 6, 14, 0, 12, 2, 1, 11, 5, 4,
    12, 10, 12, 11, 20, 0, 0, 4, 4, 12, 11, 36, 14, 2, 3, 8, 11, 13, 2, 14, 7,
    3, 4, 9, 0, 1, 15, 3, 2, 4, 6, 1, 4, 0, 14, 0, 5, 16, 6, 14, 8, 4, 2, 5,
    24, 0, 4, 9, 2, 5, 3, 9, 4, 1, 5, 10, 3, 2, 16, 7, 6, 50, 3, 0, 19, 3, 5,
    13, 21, 2, 1, 54, 3, 14, 30, 6, 10, 1, 27, 2, 7, 0, 1, 10, 8, 5, 0, 3, 1,
    0, 6, 1, 1, 5, 5, 13, 3, 1, 0, 5, 7, 18, 29, 7, 0, 15, 5, 6, 15, 5, 1, 29,
    2, 1, 23, 1, 4, 8, 1, 0, 12, 10, 4, 0, 5, 7, 0, 2, 6, 0, 7, 40, 6, 4, 3, 2,
    1, 4, 2, 4, 12, 3, 2, 4, 12, 7, 3, 18, 16, 19, 8, 4, 3, 2, 2, 1, 3, 1, 6,
    0, 11, 3, 6, 16, 3, 33, 16, 18, 0, 5, 0, 0, 14, 7, 2, 17, 6, 3, 1, 12, 5,
    1, 21, 15, 2, 10, 35, 1, 10, 9, 32, 0, 17, 14, 7, 6, 23, 34, 14, 7, 0, 21,
    46, 1, 3, 7, 13, 2, 5, 0, 0, 20, 13, 0, 14, 0, 3, 7, 1, 0, 10, 0, 12, 35,
    4, 12, 13, 3, 5, 7, 1, 3, 1, 12, 12, 5, 0, 11, 16, 3, 2, 1, 19, 2, 7, 0,
    20, 7, 4, 9, 31, 0, 24, 2, 7, 0, 11, 19, 20, 5, 6, 14, 13, 0, 0, 1, 9, 8,
    7, 22, 18, 1, 18, 0, 10, 12, 0, 7, 1, 17, 7, 13, 9, 11, 0, 15, 1, 4, 9, 2,
    0, 6, 2, 10, 0, 11, 9, 6, 1, 22, 30, 8, 3, 0, 8, 6, 3, 14, 9, 2, 25, 21, 6,
    1, 3, 2, 8, 33, 12, 14, 12, 0, 14, 10, 0, 10, 4, 2, 2, 3, 5, 5, 6, 2, 2, 1,
    3, 2, 0, 0, 2, 10, 9, 11, 10, 0, 4, 6, 2, 4, 15, 9, 4, 12, 2, 7, 1, 8, 11,
    4, 3, 4, 7, 9, 8, 12, 5, 1, 6, 5, 1, 0, 2, 7, 3, 12, 1, 9, 0, 4, 0, 14, 4,
    0, 3, 1, 1, 2, 7, 4, 20, 10, 19, 12, 2, 33, 8, 7, 6, 0, 11, 9, 6, 16, 3, 0,
    1, 1, 11, 4, 6, 8, 7, 9, 12, 5, 0, 2, 22, 0, 3, 11, 6, 14, 13, 3, 8, 4, 1,
    2, 11, 13, 21, 31, 0, 5, 5, 3, 0, 7, 0, 0, 1, 10, 17, 25, 3, 24, 31, 4, 18,
    1, 4, 24, 7, 10, 9, 7, 4, 0, 8, 9, 3, 1, 9, 3, 13, 6, 0, 2, 6, 6, 7, 0, 3,
    8, 9, 8, 16, 15, 6, 14, 3, 12, 4, 16, 3, 1, 9, 8, 8, 4, 6, 1, 0, 12, 4, 1,
    45, 13, 1, 0, 1, 1, 8, 1, 6, 21, 1, 0, 6, 28, 19, 5, 4, 7, 0, 4, 9, 8, 13,
    1, 9, 2, 13, 26, 1, 4, 5, 4, 6, 6, 2, 15, 0, 17, 13, 2, 7, 0, 8, 11, 1, 9,
    19, 10, 3, 4, 4, 0, 1, 9, 8, 1, 19, 3, 5, 4, 0, 4, 7, 5, 4, 24, 2, 2, 9, 8,
    1, 7, 5, 1, 1, 2, 4, 13, 18, 41, 22, 3, 1, 3, 6, 11, 0, 0, 5, 6, 0, 8, 6,
    0, 1, 9, 17, 1, 3, 6, 7, 12, 15, 8, 12, 15, 13, 1, 0, 37, 6, 15, 1, 3, 17,
    11, 28, 3, 1, 3, 0, 8, 0, 30, 2, 39, 5, 7, 0, 2, 2, 9, 2, 23, 6, 20, 8, 7,
    8, 16, 1, 2, 8, 1, 33, 16, 0, 6, 46, 4, 2, 10, 0, 0, 2, 6, 5, 7, 15, 6, 4,
    3, 20, 1, 6, 6, 10, 0, 18, 2, 0, 0, 1, 0, 2, 19, 12, 15, 14, 7, 30, 2, 1,
    6>>

\* The table cacheSizes, likewise with rows of 64 bytes.
cacheGaps ==
  <<2, 6, 0, 2, 3, 0, 4, 6, 12, 7, 3, 6, 4, 0, 6, 7, 0, 9, 4, 2, 3, 2, 5, 3, 1,
    0, 1, 1, 2, 13, 1, 0, 3, 2, 3, 1, 7, 0, 4, 11, 5, 0, 5, 8, 3, 1, 0, 13, 4,
    11, 0, 22, 3, 0, 1, 0, 4, 5, 5, 7, 5, 0, 1, 2, 3, 1, 4, 3, 0, 8, 2, 12, 1,
    3, 3, 7, 9, 4, 20, 2, 3, 2, 9, 3, 4, 3, 0, 4, 0, 6, 1, 30, 1, 5, 9, 3, 2,
    3, 3, 8, 12, 4, 16, 30, 13, 10, 0, 15, 2, 2, 0, 7, 8, 0, 1, 0, 0, 14, 2,
    16, 1, 2, 1, 13, 2, 3, 20, 0, 0, 14, 0, 1, 13, 8, 6, 1, 21, 0, 4, 17, 1, 1,
    21, 15, 7, 2, 21, 1, 0, 9, 10, 5, 1, 4, 2, 0, 7, 3, 0, 1, 6, 4, 8, 0, 4, 5,
    0, 43, 13, 21, 1, 1, 6, 4, 16, 6, 7, 16, 0, 7, 23, 9, 4, 4, 2, 15, 5, 11,
    3, 16, 3, 0, 1, 2, 1, 10, 2, 4, 2, 3, 0, 2, 0, 15, 1, 0, 7, 11, 8, 6, 1, 0,
    1, 4, 11, 6, 2, 6, 3, 7, 3, 0, 5, 0, 4, 5, 0, 9, 7, 9, 3, 10, 0, 0, 1, 0,
    0, 10, 5, 1, 2, 2, 3, 4, 11, 1, 1, 21, 0, 2, 0, 4, 1, 0, 3, 2, 0, 0, 2, 6,
    15, 7, 3, 4, 2, 3, 4, 1, 9, 3, 20, 0, 6, 19, 6, 0, 1, 20, 13, 13, 12, 0, 5,
    0, 6, 7, 0, 1, 5, 8, 1, 4, 8, 0, 2, 5, 1, 4, 3, 4, 7, 9, 18, 14, 9, 3, 2,
    6, 4, 1, 2, 1, 4, 2, 1, 2, 5, 0, 5, 2, 0, 10, 5, 3, 8, 0, 0, 1, 2, 16, 7,
    0, 0, 2, 6, 18, 1, 3, 0, 7, 2, 6, 8, 9, 1, 2, 2, 0, 5, 6, 6, 14, 29, 4, 4,
    5, 1, 5, 0, 3, 17, 2, 1, 7, 3, 6, 7, 9, 19, 2, 0, 16, 4, 2, 3, 11, 0, 0, 8,
    3, 1, 2, 0, 0, 1, 6, 4, 1, 14, 3, 1, 0, 1, 4, 2, 18, 2, 6, 7, 2, 3, 0, 4,
    0, 6, 1, 20, 4, 5, 2, 6, 4, 0, 15, 1, 3, 0, 13, 2, 9, 8, 0, 0, 7, 12, 1, 2,
    3, 3, 7, 0, 4, 1, 3, 1, 1, 0, 4, 7, 6, 0, 4, 0, 3, 2, 11, 15, 14, 3, 7, 2,
    0, 0, 4, 6, 6, 1, 3, 9, 11, 2, 4, 8, 8, 7, 2, 2, 0, 4, 2, 0, 5, 5, 9, 1,
    21, 6, 8, 0, 1, 7, 0, 3, 2, 14, 1, 4, 5, 0, 4, 3, 0, 1, 0, 6, 2, 20, 1, 7,
    6, 12, 2, 15, 3, 13, 6, 22, 1, 17, 12, 11, 11, 0, 14, 3, 16, 4, 6, 3, 4, 2,
    4, 23, 8, 3, 5, 0, 1, 4, 14, 7, 49, 6, 7, 2, 0, 0, 4, 2, 3, 5, 0, 10, 10,
    9, 1, 5, 3, 7, 2, 30, 9, 4, 2, 6, 1, 5, 3, 4, 8, 3, 5, 6, 12, 13, 0, 1, 10,
    18, 1, 11, 6, 4, 8, 2, 0, 10, 0, 0, 11, 0, 31, 4, 0, 3, 5, 11, 10, 19, 6,
    1, 2, 0, 13, 8, 6, 4, 29, 0, 12, 1, 11, 10, 13, 6, 3, 25, 0, 3, 2, 0, 9, 5,
    0, 4, 7, 2, 6, 2, 2, 3, 2, 6, 4, 4, 3, 7, 4, 5, 4, 1, 6, 3, 2, 3, 6, 7, 23,
    0, 17, 5, 19, 1, 3, 1, 5, 2, 1, 4, 9, 1, 1, 3, 9, 1, 5, 0, 8, 5, 1, 5, 0,
    13, 5, 3, 3, 1, 3, 4, 14, 5, 4, 23, 0, 6, 23, 5, 13, 7, 2, 22, 1, 3, 3, 7,
    0, 9, 8, 3, 3, 2, 12, 4, 2, 11, 0, 1, 23, 0, 2, 3, 10, 1, 3, 16, 5, 11, 1,
    25, 2, 3, 2, 6, 4, 1, 5, 0, 4, 5, 4, 1, 6, 3, 2, 2, 7, 14, 0, 9, 1, 15, 0,
    46, 2, 3, 1, 15, 6, 22, 2, 1, 1, 8, 3, 1, 2, 0, 4, 3, 12, 5, 0, 0, 7, 2, 3,
    4, 11, 9, 4, 3, 0, 8, 3, 4, 8, 0, 6, 2, 14, 6, 5, 5, 9, 7, 5, 0, 20, 12, 1,
    7, 0, 1, 4, 2, 0, 10, 15, 4, 1, 18, 6, 13, 5, 1, 2, 11, 1, 2, 6, 0, 11, 9,
    7, 11, 8, 0, 13, 3, 4, 1, 6, 1, 5, 8, 1, 5, 8, 3, 4, 0, 7, 1, 3, 19, 2, 12,
    0, 8, 23, 0, 11, 0, 12, 7, 8, 4, 5, 2, 1, 8, 0, 3, 4, 6, 6, 4, 3, 4, 16, 2,
    0, 5, 2, 3, 1, 9, 16, 5, 18, 1, 2, 3, 0, 2, 3, 12, 1, 5, 3, 17, 11, 3, 7,
    18, 6, 17, 0, 0, 16, 2, 6, 1, 0, 1, 7, 9, 0, 2, 6, 15, 2, 3, 9, 7, 2, 4, 1,
    0, 28, 7, 5, 9, 8, 6, 6, 4, 3, 22, 1, 2, 7, 8, 8, 4, 1, 9, 1, 13, 2, 0, 2,
    0, 7, 2, 3, 0, 5, 3, 27, 10, 2, 1, 5, 12, 6, 4, 11, 13, 7, 2, 1, 10, 12, 6,
    1, 11, 0, 5, 14, 12, 1, 9, 10, 2, 8, 12, 4, 14, 6, 1, 9, 1, 13, 9, 21, 2,
    5, 9, 7, 0, 19, 10, 8, 4, 13, 12, 16, 4, 2, 1, 1, 0, 0, 4, 0, 21, 4, 8, 1,
    2, 6, 1, 2, 3, 1, 5, 0, 3, 8, 3, 6, 4, 0, 1, 10, 0, 4, 5, 3, 3, 2, 14, 12,
    8, 2, 21, 8, 3, 7, 1, 11, 4, 8, 14, 0, 16, 0, 0, 4, 20, 10, 4, 3, 7, 8, 2,
    0, 7, 3, 3, 1, 3, 9, 1, 3, 1, 10, 5, 6, 1, 0, 10, 2, 6, 1, 2, 3, 4, 14, 11,
    9, 35, 0, 3, 11, 5, 0, 4, 6, 1, 2, 15, 12, 23, 18, 1, 28, 8, 4, 2, 9, 6, 4,
    9, 10, 1, 0, 15, 11, 0, 4, 10, 3, 3, 5, 11, 1, 2, 24, 0, 5, 9, 3, 1, 2, 4,
    5, 17, 1, 5, 2, 0, 2, 3, 3, 11, 0, 7, 1, 3, 7, 5, 8, 9, 1, 0, 3, 4, 6, 7,
    4, 5, 13, 1, 6, 0, 1, 2, 4, 7, 2, 1, 7, 8, 3, 2, 0, 9, 4, 12, 0, 4, 0, 1,
    10, 5, 0, 7, 9, 12, 1, 5, 3, 1, 3, 9, 1, 23, 6, 1, 0, 0, 2, 2, 37, 1, 0, 7,
    2, 17, 0, 10, 2, 1, 2, 2, 3, 8, 3, 40, 5, 6, 12, 16, 6, 1, 5, 5, 6, 1, 9,
    0, 8, 8, 0, 2, 26, 19, 4, 0, 4, 1, 14, 1, 5, 6, 4, 2, 11, 1, 5, 5, 13, 1,
    2, 7, 14, 15, 3, 7, 2, 3, 10, 12, 7, 2, 9, 0, 4, 11, 6, 1, 9, 4, 10, 2, 1,
    2, 3, 0, 1, 14, 3, 17, 0, 7, 16, 20, 13, 10, 11, 0, 7, 2, 7, 4, 18, 3, 2,
    12, 10, 46, 3, 1, 1, 2, 10, 4, 2, 3, 2, 5, 10, 7, 6, 1, 11, 12, 13, 1, 11,
    4, 2, 6, 10, 4, 3, 10, 17, 5, 0, 29, 15, 12, 5, 0, 9, 8, 8, 1, 22, 0, 3, 4,
    3, 22, 19, 15, 1, 2, 0, 1, 20, 11, 1, 5, 3, 0, 4, 2, 4, 8, 2, 3, 2, 9, 1,
    20, 3, 1, 17, 8, 7, 1, 3, 9, 5, 0, 7, 7, 9, 4, 7, 11, 0, 19, 0, 3, 26, 0,
    1, 4, 2, 6, 1, 26, 0, 2, 3, 0, 1, 3, 0, 1, 3, 12, 4, 0, 12, 1, 0, 16, 2, 2,
    13, 4, 3, 0, 14, 0, 4, 8, 2, 1, 7, 15, 6, 14, 2, 10, 7, 0, 0, 2, 0, 15, 4,
    3, 1, 1, 0, 0, 2, 11, 0, 5, 8, 7, 4, 8, 1, 13, 0, 3, 10, 0, 0, 2, 6, 15, 1,
    0, 0, 4, 8, 0, 16, 3, 7, 25, 14, 6, 4, 3, 0, 2, 30, 3, 2, 3, 6, 5, 9, 4, 1,
    9, 0, 8, 9, 3, 1, 3, 9, 4, 6, 10, 4, 8, 1, 11, 11, 0, 5, 3, 15, 1, 3, 0,
    13, 0, 4, 8, 2, 3, 7, 6, 15, 2, 6, 0, 5, 20, 0, 7, 17, 4, 4, 17, 1, 1, 5,
    13, 5, 2, 3, 7, 0, 0, 2, 5, 7, 8, 0, 3, 5, 0, 1, 7, 6, 10, 5, 11, 4, 1, 2,
    19, 1, 5, 24, 5, 2, 3, 8, 21, 0, 7, 14, 9, 1, 2, 0, 10, 0, 3, 13, 11, 4, 5,
    3, 1, 4, 6, 4, 11, 11, 0, 4, 2, 4, 2, 17, 10, 5, 8, 0, 32, 0, 4, 1, 2, 7,
    13, 2, 4, 17, 5, 6, 2, 9, 12, 4, 3, 10, 2, 11, 0, 1, 0, 1, 1, 0, 0, 2, 9,
    22, 10, 15, 3, 7, 5, 0, 1, 2, 12, 2, 2, 3, 8, 18, 1, 14, 0, 0, 7, 5, 6, 4,
    12, 13, 5, 12, 0, 13, 9, 0, 41, 8, 0, 8, 0, 19, 14, 8, 3, 2, 0, 0, 5, 3,
    10, 1, 5, 9, 1, 15, 0, 1, 12, 3, 16, 11, 10, 5, 2, 12, 14, 6, 18, 29, 21,
    19, 4, 0, 1, 2, 5, 1, 14, 3, 0, 7, 6, 27, 11, 0, 4, 10, 2, 4, 13, 5, 9, 2,
    6, 21, 1, 3, 0, 1, 15, 4, 23, 8, 4, 20, 2, 0, 17, 12, 3, 1, 3, 3, 8, 2, 1,
    1, 2, 1, 5, 5, 4, 5, 9, 3, 4, 14, 0, 13, 6, 0, 10, 20, 3, 1, 14, 0, 7, 2,
    0, 1, 0, 3, 11, 0, 12, 4, 2, 3, 7, 5, 1, 13, 11, 0, 1, 0, 9, 8, 5, 0, 1, 8,
    12, 1, 0, 4, 17, 9, 0, 11, 0, 0, 4, 18, 6, 5, 3, 4, 10, 36, 1, 2, 2, 6, 4,
    0, 3, 1, 0, 7, 13, 0, 7, 11, 6, 0, 2, 11, 7, 25, 3, 0, 7, 0, 0, 1, 3, 1, 1,
    14, 3, 2, 27, 3, 1, 6, 7, 7, 2, 4, 1, 2, 3, 2, 5, 9, 2, 3, 13, 4, 3, 0, 11,
    2, 0, 10, 20, 1, 22, 9, 4, 4, 8, 0, 7, 5, 4, 1, 0, 9, 5, 3, 4, 10, 11, 1,
    13, 12, 1, 1, 3, 13, 2, 3, 7, 19, 3, 13, 1, 9, 6, 4, 21, 1, 5, 5, 0, 1, 15,
    7, 4, 2, 13, 1, 2, 0, 13, 2, 6, 5, 0, 4, 1, 0, 0, 11, 0, 4, 16, 12, 10, 4,
    23, 1, 17, 18, 10, 13, 5, 12, 1, 8, 4, 10, 0, 3, 2, 2, 3, 1, 3, 7, 2, 18,
    4, 13, 9, 12, 1, 2, 10, 4, 3, 3, 4, 5, 10, 2, 2, 6, 5, 0, 1, 2, 5, 0, 23,
    8, 0, 14, 14, 4, 1, 2, 1, 10, 0, 1, 2, 2, 1, 10, 3, 1, 1, 3, 4, 1, 5, 7,
    26, 0, 13, 5, 11, 3, 5, 3, 0, 11, 5, 0, 2, 3, 1, 1, 3, 6, 16, 11, 10, 2, 8,
    0, 4, 3, 10, 4, 6, 4, 31, 8, 3, 2, 12, 9, 10, 2, 0, 1, 3, 10, 13, 2, 12, 1,
    0, 9, 7, 12, 3, 20, 6, 1, 1, 11, 12, 1, 0, 4, 8, 2, 3, 5, 0, 10, 7, 11, 1,
    5, 3, 3, 2, 2, 0, 4, 3, 3, 7, 2, 0, 2, 8, 1, 2, 0>>

datasetSizes(epoch) == DatasetThreshold(epoch) - 2 * datasetGaps[epoch + 1]
cacheSizes(epoch)   == CacheThreshold(epoch) - 2 * cacheGaps[epoch + 1]

\* An entry for each epoch, close to its threshold: arithmetic for a machine.
ASSUME TablesAssumption ==
  /\ 2^11 = 2048 /\ 2^16 = 65536 /\ 2^18 = 262144 /\ 2^23 = 8388608
  /\ DOMAIN datasetGaps = 1..maxEpoch /\ DOMAIN cacheGaps = 1..maxEpoch
  /\ \A i \in 1..maxEpoch : datasetGaps[i] \in 0..99 /\ cacheGaps[i] \in 0..99

\* Enough for the numbers met here, below 12000 squared.
Divisors == 2..12000
Prime(n) == \A d \in Divisors : d * d > n \/ n % d # 0

\* The first prime at or below n, in steps of two.
PrimeBelow(n) ==
  LET down[k \in Nat] == IF Prime(n - 2 * k) THEN n - 2 * k ELSE down[k + 1]
  IN  down[0]

calcCacheSize(epoch)   == PrimeBelow(CacheThreshold(epoch))
calcDatasetSize(epoch) == PrimeBelow(DatasetThreshold(epoch))

\* The sizes of the two epochs after the tables.
DatasetPrimes == {142606333, 142671833}
CachePrimes   == {4456433, 4458491}

ASSUME PrimesAssumption ==
  \A p \in DatasetPrimes \union CachePrimes : Prime(p)

EpochOf(block) == block \div 30000

cacheSize(block) ==
  IF EpochOf(block) < maxEpoch THEN cacheSizes(EpochOf(block))
  ELSE calcCacheSize(EpochOf(block))

\* Mutant of datasetSize: past the table its last value is used.
datasetSizeTable(block) ==
  datasetSizes(IF EpochOf(block) < maxEpoch THEN EpochOf(block)
               ELSE maxEpoch - 1)

datasetSize(block) ==
  IF EpochOf(block) < maxEpoch THEN datasetSizes(EpochOf(block))
  ELSE calcDatasetSize(EpochOf(block))

\* The first and the last block of an epoch have datasets of one size, and the
\* next epoch has a larger cache and a larger dataset.
SizesDiffer(e) ==
  /\ datasetSize(30000 * e + 29999) < datasetSize(30000 * (e + 1))
  /\ datasetSize(30000 * e) = datasetSize(30000 * e + 29999)
  /\ cacheSize(30000 * e + 29999) < cacheSize(30000 * (e + 1))
=============================================================================
