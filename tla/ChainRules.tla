----------------------------- MODULE ChainRules -----------------------------
(***************************************************************************)
(* The consensus rules of the ethash engine (ethash/consensus.go): the     *)
(* difficulty of the next block over the forks, header and uncle           *)
(* verification and the rewards, on a chain that grows by the blocks the   *)
(* engine accepts.  Hashes are the headers themselves; parent is the       *)
(* height of a block of the chain, -1 for one outside it.                  *)
(***************************************************************************)
EXTENDS Integers, Sequences

CONSTANTS
  Forks,        \* first block of homestead, byzantium, constantinople, muir
  BombDelay,    \* bomb delay of byzantium, constantinople and muir
  BombPeriod,   \* expDiffPeriod: 100000 in the code
  BoundDivisor, \* DifficultyBoundDivisor: 2048
  MinDifficulty,\* MinimumDifficulty: 131072
  GasDivisor,   \* GasLimitBoundDivisor: 1024
  MinGas,       \* MinGasLimit: 5000
  MaxGas,       \* 2^63 - 1
  Generations,  \* ancestors an uncle may come from: 7
  RewardSpan,   \* blocks over which an uncle's reward vanishes: 8
  GenesisDiff, GenesisGas,
  Delays,       \* times that pass from a block to the next
  MaxHeight,    \* bound: blocks after the genesis block
  UncleTags     \* siblings of a block of the chain

ASSUME ChainAssumption ==
  /\ {BombPeriod, BoundDivisor, GasDivisor, Generations, RewardSpan}
       \subseteq Nat \ {0}
  /\ {MinDifficulty, MinGas, MaxGas, GenesisDiff, GenesisGas, MaxHeight}
       \subseteq Nat
  /\ UncleTags \subseteq Nat \ {0} /\ Delays \subseteq Nat
  /\ \E d \in Delays : \A e \in Delays : d <= e
  /\ \E d \in Delays : \A e \in Delays : e <= d
  /\ Forks \in [homestead : Nat, byzantium : Nat, constantinople : Nat,
               muir : Nat]
  /\ BombDelay \in [byzantium : Nat, constantinople : Nat, muir : Nat]
  \* An uncle is too young for its reward to vanish, which is a fraction of
  \* the block's 64 thirty-seconds of an ether at least.
  /\ Generations < RewardSpan /\ RewardSpan <= 64

VARIABLES
  chain,  \* blocks from the genesis block on: header, uncles and rewards,
          \*   miner for its miner and others for its uncles,
  clock   \* the time of the node

chainVars == <<chain, clock>>

Genesis == [parent |-> -1, number |-> 0, time |-> 0,
            difficulty |-> GenesisDiff, gas |-> GenesisGas, used |-> 0,
            tag |-> 0, hasUncles |-> FALSE, sealed |-> TRUE, extraOk |-> TRUE]
BlockAt(n) == chain[n + 1]
Height0    == Len(chain) - 1   \* number of the newest block

\* A block has a list of uncles.
UnclesOf(block) == {block.uncles[i] : i \in DOMAIN block.uncles}

ChainTypeOK ==
  /\ Len(chain) \in 1..(MaxHeight + 1) /\ clock \in Nat
  /\ \A n \in 0..Height0 :
       /\ BlockAt(n).header.number = n
       /\ BlockAt(n).header.difficulty \in Nat
       /\ BlockAt(n).miner \in Nat

ChainInit ==
  /\ chain = <<[header |-> Genesis, uncles |-> <<>>, miner |-> 0,
                others |-> <<>>]>>
  /\ clock = 0
-----------------------------------------------------------------------------
(* CalcDifficulty.                                                         *)

AtLeast(a, b) == IF a < b THEN b ELSE a

\* "The bomb": nothing in the first two periods, then it doubles.
Bomb(number) ==
  LET period == number \div BombPeriod
  IN  IF period > 1 THEN 2^(period - 2) ELSE 0

\* The delay of a block number is one less for its parent's.
FakeNumber(delay, parent) ==
  IF parent.number >= delay - 1 THEN parent.number - (delay - 1) ELSE 0

Frontier(time, parent) ==
  LET adjust == parent.difficulty \div BoundDivisor
  IN  AtLeast(IF time - parent.time < 13 THEN parent.difficulty + adjust
                                         ELSE parent.difficulty - adjust,
              MinDifficulty)
        + Bomb(parent.number + 1)

Stepped(factor, parent) ==
  AtLeast(parent.difficulty
            + (parent.difficulty \div BoundDivisor) * AtLeast(factor, -99),
          MinDifficulty)

Homestead(time, parent) ==
  Stepped(1 - (time - parent.time) \div 10, parent) + Bomb(parent.number + 1)

\* makeDifficultyCalculator.
Byzantium(delay, time, parent) ==
  Stepped((IF parent.hasUncles THEN 2 ELSE 1) - (time - parent.time) \div 9,
          parent)
    + Bomb(FakeNumber(delay, parent))

CalcDifficulty(time, parent) ==
  LET next == parent.number + 1
  IN  CASE next >= Forks.muir -> Byzantium(BombDelay.muir, time, parent)
        [] next >= Forks.constantinople /\ next < Forks.muir ->
             Byzantium(BombDelay.constantinople, time, parent)
        [] next >= Forks.byzantium /\ next < Forks.constantinople ->
             Byzantium(BombDelay.byzantium, time, parent)
        [] next >= Forks.homestead /\ next < Forks.byzantium ->
             Homestead(time, parent)
        [] OTHER -> Frontier(time, parent)
-----------------------------------------------------------------------------
(* verifyHeader and VerifyUncles.                                          *)

GasAllowed(header, parent) ==
  /\ header.gas <= MaxGas /\ header.used <= header.gas /\ header.gas >= MinGas
  /\ AtLeast(parent.gas - header.gas, header.gas - parent.gas)
       < parent.gas \div GasDivisor

\* verifySeal: the mix digest and the target, abstracted to one bit.
VerifySeal(header) == header.difficulty > 0 /\ header.sealed

\* Only an uncle may come from the future.
Accepted(header, parent, uncle) ==
  /\ header.extraOk
  /\ uncle \/ header.time <= clock + 15
  /\ header.time > parent.time
  /\ header.difficulty = CalcDifficulty(header.time, parent)
  /\ GasAllowed(header, parent)
  /\ header.number = parent.number + 1
  /\ VerifySeal(header)

\* The blocks a block of the given number is compared with.
Ancestors(number) ==
  {BlockAt(n) : n \in AtLeast(number - Generations, 0)..(number - 1)}

PastUncles(number) == UNION {UnclesOf(b) : b \in Ancestors(number)}

\* Mutant of KnownUncles: the loop does not add the uncles it has passed.
KnownUnclesPast(uncles, i, number) == PastUncles(number)

\* The set "uncles" when the loop comes to the i-th of a block.
KnownUncles(uncles, i, number) ==
  PastUncles(number) \union {uncles[j] : j \in 1..(i - 1)}

\* Mutant of RecentParent: any block of the chain may be the parent.
RecentParentAny(uncle, number) == uncle.parent \in 0..(number - 2)

\* Its parent is an ancestor, but not the parent of the block.
RecentParent(uncle, number) ==
  /\ \E b \in Ancestors(number) : b.header.number = uncle.parent
  /\ uncle.parent # number - 1

UncleAccepted(uncle, number) ==
  /\ \A b \in Ancestors(number) : b.header # uncle
  /\ RecentParent(uncle, number)
  /\ Accepted(uncle, BlockAt(uncle.parent).header, TRUE)

\* At most two, each of them rewarded for the first time.
UnclesAccepted(uncles, number) ==
  /\ Len(uncles) <= 2
  /\ \A i \in 1..Len(uncles) :
       /\ uncles[i] \notin KnownUncles(uncles, i, number)
       /\ UncleAccepted(uncles[i], number)
-----------------------------------------------------------------------------
(* accumulateRewards, in thirty-seconds of an ether.                       *)

BlockReward(number) == IF number >= Forks.constantinople THEN 64
                       ELSE IF number >= Forks.byzantium THEN 96 ELSE 160

UncleReward(uncle, number) ==
  ((uncle.number + RewardSpan - number) * BlockReward(number)) \div RewardSpan

MinerReward(uncles, number) ==
  BlockReward(number) + Len(uncles) * (BlockReward(number) \div 32)

UncleRewards(uncles, number) ==
  [i \in 1..Len(uncles) |-> UncleReward(uncles[i], number)]

Rewarded(header, uncles) ==
  [header |-> header, uncles |-> uncles,
   miner  |-> MinerReward(uncles, header.number),
   others |-> UncleRewards(uncles, header.number)]
-----------------------------------------------------------------------------
(* A header as Prepare makes it on the block at height p, or spoilt.       *)

Spoilings == {"no", "difficulty", "gas", "seal", "extra"}

Prepared(p, delay, tag, uncles, spoilt) ==
  LET parent == BlockAt(p).header
      time   == parent.time + delay
  IN  [parent |-> p, number |-> p + 1, time |-> time, tag |-> tag,
       difficulty |-> CalcDifficulty(time, parent)
                        + IF spoilt = "difficulty" THEN 1 ELSE 0,
       gas |-> IF spoilt = "gas" THEN 2 * parent.gas ELSE parent.gas,
       used |-> 0, hasUncles |-> uncles # <<>>,
       sealed |-> spoilt # "seal", extraOk |-> spoilt # "extra"]

\* Uncles somebody may put into a block: siblings of blocks of the chain,
\* blocks of the chain themselves, headers outside it.
Delay1 == CHOOSE d \in Delays : \A e \in Delays : d <= e

UncleCandidates ==
  {Prepared(p, Delay1, tag, <<>>, spoilt) :
     p \in 0..Height0, tag \in UncleTags, spoilt \in {"no", "seal"}}
    \union {BlockAt(n).header : n \in 0..Height0}
    \union {[Genesis EXCEPT !.tag = tag] : tag \in UncleTags}

\* A block arrives: VerifyHeader, VerifyUncles, Finalize.
InsertBlock(delay, uncles, spoilt) ==
  LET header == Prepared(Height0, delay, 0, uncles, spoilt)
  IN  /\ Height0 < MaxHeight
      /\ Accepted(header, BlockAt(Height0).header, FALSE)
      /\ UnclesAccepted(uncles, header.number)
      /\ chain' = Append(chain, Rewarded(header, uncles))
      /\ UNCHANGED clock

\* Time passes, up to the longest delay after the newest block (bound).
ClockTicks ==
  /\ clock' = BlockAt(Height0).header.time
                + CHOOSE d \in Delays : \A e \in Delays : e <= d
  /\ clock' > clock
  /\ UNCHANGED chain

ChainNext ==
  \/ \E d \in Delays, spoilt \in Spoilings : InsertBlock(d, <<>>, spoilt)
  \/ \E d \in Delays, u \in UncleCandidates : InsertBlock(d, <<u>>, "no")
  \/ \E d \in Delays, u, v \in UncleCandidates : InsertBlock(d, <<u, v>>, "no")
  \/ ClockTicks

ChainSpec == ChainInit /\ [][ChainNext]_chainVars
-----------------------------------------------------------------------------
(* Properties.                                                             *)

\* "Make sure every uncle is rewarded only once": over the whole chain, far
\* beyond the generations that a verification looks at, no header is paid
\* for twice, as an uncle or as a block, nor twice in one block.
UnclesPaidOnce ==
  \A n \in 0..Height0 :
    /\ \A u \in UnclesOf(BlockAt(n)) : \A m \in 0..Height0 :
         BlockAt(m).header # u /\ (u \in UnclesOf(BlockAt(m)) => m = n)
    /\ \A i, j \in DOMAIN BlockAt(n).uncles :
         BlockAt(n).uncles[i] = BlockAt(n).uncles[j] => i = j

\* An uncle earns something, and less than a block does.
UncleRewardsPositive ==
  \A n \in 0..Height0 : \A i \in DOMAIN BlockAt(n).uncles :
    0 < BlockAt(n).others[i] /\ BlockAt(n).others[i] < BlockReward(n)
=============================================================================
