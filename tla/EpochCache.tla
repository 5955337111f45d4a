----------------------------- MODULE EpochCache -----------------------------
(***************************************************************************)
(* The caches and datasets of the ethash engine (ethash/ethash.go): an lru *)
(* of items with one more item for the next epoch, generated at most once  *)
(* each (sync.Once), and their dumps on disk, which a crash leaves behind. *)
(* The two lists share their code; kind says which one runs.               *)
(***************************************************************************)
EXTENDS Integers, Sequences

CONSTANTS
  EpochSetups, \* <<kind, onDisk>> pairs to start from
  EpochCount,  \* epochs asked for: 0 .. EpochCount - 1
  FutureBelow, \* epochs that get a future item: 59 (60-1) in the code
  LruSize,     \* items the lru keeps
  OnDisk,      \* CachesOnDisk, DatasetsOnDisk
  Objects,     \* 1..n: items that exist at once
  Users,       \* 1..n: calls of cache and dataset in a process (bound)
  MaxFaults    \* bound: crashes of the process and errors of its disk

ASSUME EpochAssumption ==
  /\ EpochSetups \subseteq {"cache", "dataset"} \X BOOLEAN
  /\ EpochCount \in Nat \ {0} /\ FutureBelow \in Nat /\ LruSize \in Nat \ {0}
  /\ OnDisk \in Nat /\ Objects \subseteq Nat \ {0}
  /\ Users \subseteq Nat \ {0}
  /\ MaxFaults \in Nat

VARIABLES
  kind,    \* "cache" or "dataset"
  onDisk,  \* a directory is configured
  items,   \* per object its epoch, how far generate is, its content
  lru,     \* objects of the lru, the most recently used first
  ahead,   \* future and futureItem
  users,   \* per call: out, wait or look for its item, has it, over
  makers,  \* background goroutines: the objects each has to generate
  dumps,   \* per epoch, the file under its final name
  faults   \* crashes and disk errors so far

epochVars == <<kind, onDisk, items, lru, ahead, users, makers, dumps, faults>>

Epochs   == 0..EpochCount
NoItem   == [epoch |-> 0, pc |-> "free", data |-> "none"]
Fresh(e) == [epoch |-> e, pc |-> "new", data |-> "none"]
Outside  == [pc |-> "out", obj |-> 0, next |-> 0, epoch |-> 0]
Over     == [Outside EXCEPT !.pc = "over"]

EpochTypeOK ==
  /\ kind \in {"cache", "dataset"} /\ onDisk \in BOOLEAN
  /\ \A o \in Objects :
       /\ items[o].epoch \in Epochs
       /\ items[o].pc \in {"free", "new", "temp", "named", "sweep", "done"}
       /\ items[o].data \in {"none", "part", "whole", "double"}
  /\ \A i \in 1..Len(lru) : lru[i] \in Objects
  /\ Len(lru) <= LruSize /\ ahead.epoch \in Epochs
  /\ dumps \in [Epochs -> {"none", "part", "whole"}]
  /\ faults \in 0..MaxFaults

EpochInit ==
  /\ \E s \in EpochSetups : kind = s[1] /\ onDisk = s[2]
  /\ items = [o \in Objects |-> NoItem] /\ lru = <<>>
  /\ ahead = [epoch |-> 0, obj |-> 0]
  /\ users = [u \in Users |-> Outside] /\ makers = {}
  /\ dumps = [e \in Epochs |-> "none"] /\ faults = 0
-----------------------------------------------------------------------------
(* lru.get, under the lock of the lru.                                     *)

Elements(s) == {s[i] : i \in 1..Len(s)}

\* Objects that something refers to; the others are garbage.
Live(l, a, us, js) ==
  (Elements(l) \union {a.obj} \union {us[u].obj : u \in Users}
     \union {us[u].next : u \in Users} \union UNION {Elements(j) : j \in js})
  \ {0}

Collected(its, live) ==
  [o \in Objects |-> IF o \in live THEN its[o] ELSE NoItem]

FreeObjects == {o \in Objects : items[o].pc = "free"}
Smallest(S) == CHOOSE o \in S : \A p \in S : o <= p

InLru(e) == {o \in Elements(lru) : items[o].epoch = e}

\* simplelru.Add and Get: the object moves to the front, the ones that were
\* before it move on by one, and of a full list the last one drops.
Touched(o) ==
  LET at == IF o \in Elements(lru) THEN CHOOSE i \in 1..Len(lru) : lru[i] = o
                                   ELSE Len(lru) + 1
      n  == IF at > Len(lru) /\ Len(lru) < LruSize THEN Len(lru) + 1
                                                   ELSE Len(lru)
  IN  [i \in 1..n |-> IF i = 1 THEN o
                      ELSE IF i <= at THEN lru[i - 1] ELSE lru[i]]

FutureFits(e) == ahead.epoch > 0 /\ ahead.epoch = e

NeedsFuture(e) == e < FutureBelow /\ ahead.epoch < e + 1

\* lru.new is called for the item of epoch e.
MakesItem(e) == InLru(e) = {} /\ ~FutureFits(e)

\* The item for epoch e, the next future (object 0: none) and the objects.
Get(e) ==
  LET obj  == IF MakesItem(e) THEN Smallest(FreeObjects)
              ELSE IF InLru(e) # {} THEN Smallest(InLru(e)) ELSE ahead.obj
      next == IF NeedsFuture(e) THEN Smallest(FreeObjects \ {obj}) ELSE 0
  IN  [obj |-> obj, next |-> next,
       items |-> [o \in Objects |-> IF o = obj /\ MakesItem(e) THEN Fresh(e)
                                    ELSE IF o = next THEN Fresh(e + 1)
                                    ELSE items[o]],
       ahead |-> IF next = 0 THEN ahead ELSE [epoch |-> e + 1, obj |-> next]]

\* Enough objects for what the get creates (bound Objects).
RoomToGet(e) ==
  /\ MakesItem(e) => FreeObjects # {}
  /\ NeedsFuture(e) => FreeObjects # {}
  /\ MakesItem(e) /\ NeedsFuture(e) => \E o, p \in FreeObjects : o # p

\* A call's effects: it holds the item, its goroutine works on js.
Enters(u, state, js) ==
  /\ users' = [users EXCEPT ![u] = state] /\ makers' = js

\* The next call to be made: calls are numbered in that order.
NextCall(u) == users[u].pc = "out" /\ \A v \in 1..(u - 1) : users[v].pc # "out"

\* cache, dataset(block, false).
Ask(u, e) ==
  /\ NextCall(u) /\ e < EpochCount /\ RoomToGet(e)
  /\ LET g == Get(e)
     IN  /\ lru' = Touched(g.obj) /\ ahead' = g.ahead
         /\ Enters(u, [pc |-> "wait", obj |-> g.obj, next |-> g.next,
                       epoch |-> e], makers)
         /\ items' = Collected(g.items, Live(lru', ahead', users', makers'))
  /\ UNCHANGED <<kind, onDisk, dumps, faults>>

\* dataset(block, true): an item that is not generated yet is generated in
\* the background, and the caller does not wait for it (verifySeal).
AskAsync(u, e) ==
  /\ kind = "dataset" /\ NextCall(u) /\ e < EpochCount /\ RoomToGet(e)
  /\ LET g    == Get(e)
         todo == IF g.next = 0 THEN <<g.obj>> ELSE <<g.obj, g.next>>
     IN  /\ lru' = Touched(g.obj) /\ ahead' = g.ahead
         /\ IF g.items[g.obj].pc = "done"
            THEN Enters(u, [pc |-> "wait", obj |-> g.obj, next |-> g.next,
                            epoch |-> e], makers)
            ELSE Enters(u, [pc |-> "look", obj |-> g.obj, next |-> 0,
                            epoch |-> e], makers \union {todo})
         /\ items' = Collected(g.items, Live(lru', ahead', users', makers'))
  /\ UNCHANGED <<kind, onDisk, dumps, faults>>

\* once.Do returns: the item is generated, by this goroutine or another.
Generated(o) == items[o].pc = "done"

\* current.generate has returned; the future item gets a goroutine.
Obtain(u) ==
  /\ users[u].pc = "wait" /\ Generated(users[u].obj)
  /\ Enters(u, [users[u] EXCEPT !.pc = "has", !.next = 0],
            IF users[u].next = 0 THEN makers
                                 ELSE makers \union {<<users[u].next>>})
  /\ UNCHANGED <<kind, onDisk, items, lru, ahead, dumps, faults>>

\* verifySeal asks once more whether the dataset is generated, and takes the
\* cache instead when it is not.
LookAgain(u) ==
  /\ users[u].pc = "look"
  /\ IF Generated(users[u].obj)
     THEN /\ Enters(u, [users[u] EXCEPT !.pc = "has"], makers)
          /\ UNCHANGED items
     ELSE /\ Enters(u, Over, makers)
          /\ items' = Collected(items, Live(lru, ahead, users', makers'))
  /\ UNCHANGED <<kind, onDisk, lru, ahead, dumps, faults>>

LeaveItem(u) ==
  /\ users[u].pc = "has"
  /\ Enters(u, Over, makers)
  /\ items' = Collected(items, Live(lru, ahead, users', makers'))
  /\ UNCHANGED <<kind, onDisk, lru, ahead, dumps, faults>>

\* A background goroutine has generated its first object.
JobMovesOn(j) ==
  /\ j \in makers /\ Generated(Head(j))
  /\ makers' = (makers \ {j}) \union (IF Len(j) > 1 THEN {Tail(j)} ELSE {})
  /\ items' = Collected(items, Live(lru, ahead, users, makers'))
  /\ UNCHANGED <<kind, onDisk, lru, ahead, users, dumps, faults>>
-----------------------------------------------------------------------------
(* cache.generate and dataset.generate on one object.                      *)

\* A goroutine is inside generate for o.
Wanted(o) == (\E u \in Users : users[u].pc = "wait" /\ users[u].obj = o)
             \/ (\E j \in makers : Head(j) = o)

Steps(o, pc, data) ==
  items' = [items EXCEPT ![o].pc = pc, ![o].data = data]

Frame == UNCHANGED <<kind, onDisk, lru, ahead, users, makers>>

\* An error of the disk, or a crash.
Fault == faults < MaxFaults /\ faults' = faults + 1

GenerateInMemory(o) ==
  /\ items[o].pc = "new" /\ Wanted(o) /\ ~onDisk
  /\ Steps(o, "done", "whole")
  /\ UNCHANGED <<dumps, faults>> /\ Frame

\* memoryMap finds a dump: there is nothing to sweep.
LoadDump(o) ==
  /\ items[o].pc = "new" /\ Wanted(o) /\ onDisk
  /\ dumps[items[o].epoch] # "none"
  /\ Steps(o, "done", dumps[items[o].epoch])
  /\ UNCHANGED <<dumps, faults>> /\ Frame

\* There is no dump, or it cannot be opened, mapped or locked.
LoadFails(o) ==
  /\ items[o].pc = "new" /\ Wanted(o) /\ onDisk
  /\ IF dumps[items[o].epoch] = "none" THEN UNCHANGED faults ELSE Fault

\* Mutant of FillTemp: the dump is generated under its final name.
FillInPlace(o) ==
  /\ LoadFails(o)
  /\ Steps(o, "temp", "none")
  /\ dumps' = [dumps EXCEPT ![items[o].epoch] = "part"]
  /\ Frame

\* memoryMapAndGenerate fills a file with a random name, which nothing reads
\* again should it stay behind ...
FillTemp(o) ==
  /\ LoadFails(o)
  /\ Steps(o, "temp", "none")
  /\ UNCHANGED dumps /\ Frame

\* ... and renames it when it is whole.
RenameTemp(o) ==
  /\ items[o].pc = "temp"
  /\ Steps(o, "named", "none")
  /\ dumps' = [dumps EXCEPT ![items[o].epoch] = "whole"]
  /\ UNCHANGED faults /\ Frame

MapDump(o) ==
  /\ items[o].pc = "named" /\ dumps[items[o].epoch] # "none"
  /\ Steps(o, "sweep", dumps[items[o].epoch])
  /\ UNCHANGED <<dumps, faults>> /\ Frame

\* One of these steps fails, or the sweep of another item was faster than
\* MapDump.  A dataset is then generated in a slice of dsize/2 words: twice
\* its size.
FallBack(o) ==
  /\ \/ items[o].pc \in {"temp", "named"} /\ Fault
     \/ /\ items[o].pc = "named" /\ dumps[items[o].epoch] = "none"
        /\ UNCHANGED faults
  /\ Steps(o, "sweep", IF kind = "dataset" THEN "double" ELSE "whole")
  /\ UNCHANGED dumps /\ Frame

\* Older dumps are deleted, an item's own too when OnDisk is 0.
SweepDumps(o) ==
  /\ items[o].pc = "sweep"
  /\ Steps(o, "done", items[o].data)
  /\ dumps' = [e \in Epochs |-> IF e <= items[o].epoch - OnDisk THEN "none"
                                                               ELSE dumps[e]]
  /\ UNCHANGED faults /\ Frame

\* The process dies and is started again: only files remain.
CrashAndRestart ==
  /\ onDisk /\ Fault
  /\ items' = [o \in Objects |-> NoItem] /\ lru' = <<>>
  /\ ahead' = [epoch |-> 0, obj |-> 0]
  /\ users' = [u \in Users |-> Outside] /\ makers' = {}
  /\ UNCHANGED <<kind, onDisk, dumps>>

GenerateStep(o) ==
  \/ GenerateInMemory(o) \/ LoadDump(o) \/ FillTemp(o) \/ RenameTemp(o)
  \/ MapDump(o) \/ FallBack(o) \/ SweepDumps(o)

EpochNext ==
  \/ \E u \in Users : \E e \in Epochs : Ask(u, e) \/ AskAsync(u, e)
  \/ \E u \in Users : Obtain(u) \/ LookAgain(u) \/ LeaveItem(u)
  \/ \E j \in makers : JobMovesOn(j)
  \/ \E o \in Objects : GenerateStep(o)
  \/ CrashAndRestart

EpochSpec == EpochInit /\ [][EpochNext]_epochVars
-----------------------------------------------------------------------------
(* Properties.                                                             *)

\* Whoever was handed an item uses one of the epoch it asked for, generated
\* to its end: never one that another goroutine is still filling, never a
\* dump that a crash cut short.  Only a dataset that could not be dumped may
\* be the wrong size.
ItemUsable ==
  \A u \in Users :
    users[u].pc = "has" =>
      LET it == items[users[u].obj]
      IN  /\ it.epoch = users[u].epoch /\ it.pc = "done"
          /\ it.data = "whole" \/ (kind = "dataset" /\ it.data = "double")
=============================================================================
