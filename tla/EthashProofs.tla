---------------------------- MODULE EthashProofs -----------------------------
(***************************************************************************)
(* Theorems about the caches and datasets of ethash/: which item of an     *)
(* epoch a caller is handed (EpochCache), and what a row of it is          *)
(* (EthashAlgorithm).                                                      *)
(***************************************************************************)
EXTENDS EpochCache, EthashAlgorithm, SequenceTheorems,
        WellFoundedInduction, TLAPS

------------------------------------------------------------------------------
(***************************************************************************)
(* EpochCache, for any number of epochs, calls and objects, any size of    *)
(* the lru and any number of crashes and disk errors: whoever was handed   *)
(* an item uses a complete one of its epoch. An object that something      *)
(* refers to is not made anew, and a dump under its final name is whole.   *)
(***************************************************************************)

\* An item, a call of cache or dataset, and the future item of the lru.
Item == [epoch : Epochs,
         pc    : {"free", "new", "temp", "named", "sweep", "done"},
         data  : {"none", "part", "whole", "double"}]
User == [pc : {"out", "wait", "look", "has", "over"}, obj : Objects \union {0},
         next : Objects \union {0}, epoch : Epochs]
Ahead == [epoch : Epochs, obj : Objects \union {0}]

\* Sequences of objects, a goroutine's with its first one at least.
Chain(s) == /\ Len(s) \in Nat
            /\ \A i \in 1..Len(s) : s[i] \in Objects
Job(j)   == j \in Seq(Objects) /\ Len(j) \in Nat \ {0}

\* The shape of the state.
EpochShape ==
  /\ kind \in {"cache", "dataset"}
  /\ items \in [Objects -> Item]
  /\ Chain(lru)
  /\ ahead \in Ahead
  /\ users \in [Users -> User]
  /\ \A j \in makers : Job(j)

\* What something refers to is an object in use.
Held(its, l, a, us, js) ==
  \A o \in Live(l, a, us, js) : o \in Objects /\ its[o].pc # "free"

\* The future item and the item of a call are of the epoch they stand for, and
\* a call that has its item has a complete one.
Fits(its, a, us) ==
  /\ a.epoch > 0 => a.obj # 0
  /\ a.obj # 0 => its[a.obj].epoch = a.epoch
  /\ \A u \in Users :
       /\ us[u].pc \in {"wait", "look", "has"} =>
            us[u].obj # 0 /\ its[us[u].obj].epoch = us[u].epoch
       /\ us[u].pc = "has" => its[us[u].obj].pc = "done"

\* An object that generate has filled is whole, but for the fall-back of a
\* dataset.
Filled(its) ==
  \A o \in Objects :
    its[o].pc \in {"sweep", "done"} =>
      its[o].data = "whole" \/ (kind = "dataset" /\ its[o].data = "double")

\* memoryMapAndGenerate renames a dump when it is whole.
DumpsWhole == dumps \in [Epochs -> {"none", "whole"}]

\* The inductive invariant.
EpochInv ==
  /\ EpochShape /\ DumpsWhole /\ Filled(items)
  /\ Held(items, lru, ahead, users, makers) /\ Fits(items, ahead, users)

\* The initial states satisfy the invariant.
LEMMA EpochInitInv == ASSUME EpochInit PROVE EpochInv
<1> USE EpochAssumption
<1>0. 0 \in Epochs BY DEF Epochs
<1>1. EpochShape
  <2>1. kind \in {"cache", "dataset"} BY DEF EpochInit
  <2>2. items \in [Objects -> Item] BY <1>0 DEF EpochInit, NoItem, Item
  <2>3. Chain(lru) BY DEF EpochInit, Chain
  <2>4. ahead \in Ahead /\ makers = {} BY <1>0 DEF EpochInit, Ahead
  <2>5. users \in [Users -> User] BY <1>0 DEF EpochInit, Outside, User
  <2> QED BY <2>1, <2>2, <2>3, <2>4, <2>5 DEF EpochShape
<1>2. DumpsWhole BY DEF EpochInit, DumpsWhole
<1>3. Filled(items) BY DEF EpochInit, NoItem, Filled
<1>4. Live(lru, ahead, users, makers) = {}
  BY DEF EpochInit, Live, Elements, Outside
<1>5. Held(items, lru, ahead, users, makers) BY <1>4 DEF Held
<1>6. Fits(items, ahead, users) BY DEF EpochInit, Fits, Outside
<1> QED BY <1>1, <1>2, <1>3, <1>5, <1>6 DEF EpochInv

\* What a list, the future item, a call or a goroutine refers to is live.
LEMMA LiveIs ==
  ASSUME NEW l, NEW a, NEW us, NEW js, NEW o
  PROVE  o \in Live(l, a, us, js) <=>
           /\ o # 0
           /\ \/ o \in Elements(l) \/ o = a.obj
              \/ \E u \in Users : o = us[u].obj \/ o = us[u].next
              \/ \E j \in js : o \in Elements(j)
BY DEF Live

\* A set of objects that is not empty has a smallest one.
LEMMA SmallestIn ==
  ASSUME NEW S \in SUBSET Objects, S # {} PROVE Smallest(S) \in S
<1> DEFINE R == OpToRel(<, Nat)
<1>1. IsWellFoundedOn(R, Nat) BY NatLessThanWellFounded
<1>2. S \subseteq Nat BY EpochAssumption
<1>3. \A x, y \in Nat : x < y => <<x, y>> \in R BY DEF OpToRel
<1> HIDE DEF R
<1>4. PICK n \in S : \A y \in S : ~(<<y, n>> \in R) BY <1>1, <1>2, WFMin
<1>5. ASSUME NEW p \in S PROVE n <= p
  <2>1. n \in Nat /\ p \in Nat BY <1>2
  <2>2. ~(p < n) BY <1>3, <1>4, <2>1
  <2> QED BY <2>1, <2>2
<1> QED BY <1>5 DEF Smallest

\* The list afterwards holds nothing new but the object that was touched.
LEMMA TouchedIs ==
  ASSUME Chain(lru), NEW o \in Objects
  PROVE  /\ Chain(Touched(o))
         /\ \A p \in Elements(Touched(o)) : p = o \/ p \in Elements(lru)
<1> DEFINE at == IF o \in Elements(lru)
                 THEN CHOOSE i \in 1..Len(lru) : lru[i] = o ELSE Len(lru) + 1
           n  == IF at > Len(lru) /\ Len(lru) < LruSize THEN Len(lru) + 1
                                                        ELSE Len(lru)
           t  == [i \in 1..n |-> IF i = 1 THEN o
                                 ELSE IF i <= at THEN lru[i - 1] ELSE lru[i]]
<1>1. Touched(o) = t BY DEF Touched
<1>2. Len(lru) \in Nat BY DEF Chain
<1>3. at \in 1..(Len(lru) + 1)
  <2>1. CASE o \in Elements(lru)
    <3>1. \E i \in 1..Len(lru) : lru[i] = o BY <2>1 DEF Elements
    <3>2. at \in 1..Len(lru) BY <2>1, <3>1
    <3> QED BY <1>2, <3>2
  <2>2. CASE o \notin Elements(lru) BY <1>2, <2>2
  <2> QED BY <2>1, <2>2
<1> HIDE DEF at
<1>4. n \in Nat /\ n <= Len(lru) + 1 /\ (n > Len(lru) => at > Len(lru))
  BY <1>2, <1>3
<1> HIDE DEF n
<1>5. Len(t) = n BY <1>4
<1>6. ASSUME NEW i \in 1..n PROVE t[i] = o \/ t[i] \in Elements(lru)
  <2>1. CASE i = 1 BY <2>1
  <2>2. CASE i # 1 /\ i <= at
    <3>1. i - 1 \in 1..Len(lru) /\ t[i] = lru[i - 1] BY <1>2, <1>4, <2>2
    <3> QED BY <3>1 DEF Elements
  <2>3. CASE i # 1 /\ ~(i <= at)
    <3>1. i \in 1..Len(lru) /\ t[i] = lru[i] BY <1>2, <1>3, <1>4, <2>3
    <3> QED BY <3>1 DEF Elements
  <2> QED BY <1>3, <2>1, <2>2, <2>3
<1> HIDE DEF t
<1>7. Elements(lru) \subseteq Objects BY DEF Chain, Elements
<1> QED BY <1>1, <1>4, <1>5, <1>6, <1>7 DEF Chain, Elements

\* lru.get: the object it returns is in use and of the epoch asked for, the
\* next future item is another one, and no object in use is changed.
LEMMA GetIs ==
  ASSUME EpochInv, NEW e \in Epochs, e < EpochCount, RoomToGet(e)
  PROVE  /\ Get(e).obj \in Objects /\ Get(e).next \in Objects \union {0}
         /\ Get(e).items \in [Objects -> Item]
         /\ \A o \in Objects : items[o].pc # "free" =>
                                 Get(e).items[o] = items[o]
         /\ Get(e).items[Get(e).obj].pc # "free"
         /\ Get(e).items[Get(e).obj].epoch = e
         /\ Get(e).next # 0 => Get(e).items[Get(e).next].pc # "free"
         /\ Get(e).ahead \in Ahead
         /\ Get(e).ahead.epoch > 0 => Get(e).ahead.obj # 0
         /\ Get(e).ahead.obj # 0 =>
              /\ Get(e).items[Get(e).ahead.obj].epoch = Get(e).ahead.epoch
              /\ Get(e).ahead.obj \in {ahead.obj, Get(e).next}
         /\ Filled(Get(e).items)
<1> DEFINE g    == Get(e)
           obj  == IF MakesItem(e) THEN Smallest(FreeObjects)
                   ELSE IF InLru(e) # {} THEN Smallest(InLru(e)) ELSE ahead.obj
           next == IF NeedsFuture(e) THEN Smallest(FreeObjects \ {obj}) ELSE 0
           its  == [o \in Objects |-> IF o = obj /\ MakesItem(e) THEN Fresh(e)
                                      ELSE IF o = next THEN Fresh(e + 1)
                                      ELSE items[o]]
           a    == IF next = 0 THEN ahead ELSE [epoch |-> e + 1, obj |-> next]
<1>1. g.obj = obj /\ g.next = next /\ g.items = its /\ g.ahead = a
  BY DEF Get
<1>2. /\ items \in [Objects -> Item] /\ ahead \in Ahead /\ Chain(lru)
      /\ 0 \notin Objects
  BY EpochAssumption DEF EpochInv, EpochShape
<1>3. e \in Nat /\ e + 1 \in Epochs /\ Epochs \subseteq Nat
  BY EpochAssumption DEF Epochs
<1>4. FreeObjects \in SUBSET Objects /\ InLru(e) \in SUBSET Objects
  BY <1>2 DEF FreeObjects, InLru, Elements, Chain
<1>5. \A o \in Elements(lru) : items[o].pc # "free"
  <2>1. ASSUME NEW o \in Elements(lru) PROVE items[o].pc # "free"
    <3>1. o # 0 BY <1>2 DEF Elements, Chain
    <3>2. o \in Live(lru, ahead, users, makers) BY <3>1, LiveIs
    <3> QED BY <3>2 DEF EpochInv, Held
  <2> QED BY <2>1
<1>6. ahead.obj # 0 => /\ ahead.obj \in Objects
                       /\ items[ahead.obj].pc # "free"
                       /\ items[ahead.obj].epoch = ahead.epoch
  <2>1. ASSUME ahead.obj # 0 PROVE items[ahead.obj].pc # "free"
    <3>1. ahead.obj \in Live(lru, ahead, users, makers) BY <2>1, LiveIs
    <3> QED BY <3>1 DEF EpochInv, Held
  <2> QED BY <1>2, <2>1 DEF EpochInv, Fits, Ahead
<1>7. MakesItem(e) => obj \in FreeObjects
  BY <1>4, SmallestIn DEF RoomToGet
<1>8. ~MakesItem(e) => /\ obj \in Objects /\ items[obj].pc # "free"
                       /\ items[obj].epoch = e
  <2>1. CASE ~MakesItem(e) /\ InLru(e) # {}
    <3>1. obj \in InLru(e) BY <1>4, <2>1, SmallestIn
    <3> QED BY <1>4, <1>5, <3>1 DEF InLru
  <2>2. CASE ~MakesItem(e) /\ InLru(e) = {}
    <3>1. ahead.epoch > 0 /\ ahead.epoch = e /\ obj = ahead.obj
      BY <2>2 DEF MakesItem, FutureFits
    <3>2. ahead.obj # 0 BY <3>1 DEF EpochInv, Fits
    <3> QED BY <1>6, <3>1, <3>2
  <2> QED BY <2>1, <2>2
<1>9. NeedsFuture(e) => FreeObjects \ {obj} # {}
  <2>1. CASE MakesItem(e) BY <2>1 DEF RoomToGet
  <2>2. CASE ~MakesItem(e)
    <3>1. obj \notin FreeObjects BY <1>8, <2>2 DEF FreeObjects
    <3> QED BY <3>1 DEF RoomToGet
  <2> QED BY <2>1, <2>2
<1> HIDE DEF obj
<1>10. /\ NeedsFuture(e) => next \in FreeObjects \ {obj}
       /\ ~NeedsFuture(e) => next = 0
  BY <1>4, <1>9, SmallestIn
<1>11. next # 0 => next \in FreeObjects \ {obj} /\ NeedsFuture(e) BY <1>10
<1>12. next \in Objects \union {0} BY <1>4, <1>10
<1> HIDE DEF next
<1>13. obj \in Objects BY <1>4, <1>7, <1>8
<1>14. Fresh(e) \in Item /\ Fresh(e + 1) \in Item BY <1>3 DEF Fresh, Item
<1>15. its \in [Objects -> Item] BY <1>2, <1>14
<1>16. ASSUME NEW o \in Objects, items[o].pc # "free" PROVE its[o] = items[o]
  <2>1. ~(o = obj /\ MakesItem(e)) BY <1>7, <1>16 DEF FreeObjects
  <2>2. o # next BY <1>2, <1>11, <1>16 DEF FreeObjects
  <2> QED BY <2>1, <2>2
<1>17. its[obj].pc # "free" /\ its[obj].epoch = e
  <2>1. CASE MakesItem(e) BY <1>13, <2>1 DEF Fresh
  <2>2. CASE ~MakesItem(e) BY <1>8, <1>16, <2>2
  <2> QED BY <2>1, <2>2
<1>18. next # 0 => its[next].pc # "free" /\ its[next].epoch = e + 1
  BY <1>11, <1>12 DEF Fresh
<1>19. a \in Ahead BY <1>2, <1>3, <1>12 DEF Ahead
<1>20. a.epoch > 0 => a.obj # 0
  BY DEF EpochInv, Fits
<1>21. a.obj # 0 => its[a.obj].epoch = a.epoch /\ a.obj \in {ahead.obj, next}
  <2>1. CASE next = 0 BY <1>6, <1>16, <2>1
  <2>2. CASE next # 0 BY <1>18, <2>2
  <2> QED BY <2>1, <2>2
<1>22. Filled(its)
  BY <1>2 DEF EpochInv, Filled, Fresh
<1> HIDE DEF its, a
<1> QED BY <1>1, <1>12, <1>13, <1>15, <1>16, <1>17, <1>18, <1>19, <1>20, <1>21,
           <1>22

\* The garbage that is collected is not referred to: the new references hold
\* and fit when they do before the collection.
LEMMA CollectionKeeps ==
  ASSUME NEW its \in [Objects -> Item], NEW l, NEW a, NEW us, NEW js,
         Held(its, l, a, us, js), Fits(its, a, us), Filled(its),
         0 \notin Objects
  PROVE  LET new == Collected(its, Live(l, a, us, js))
         IN  /\ new \in [Objects -> Item] /\ Filled(new)
             /\ Held(new, l, a, us, js) /\ Fits(new, a, us)
<1> DEFINE live == Live(l, a, us, js)
           new  == Collected(its, live)
<1>1. NoItem \in Item BY EpochAssumption DEF NoItem, Item, Epochs
<1>2. new \in [Objects -> Item] BY <1>1 DEF Collected
<1>3. \A o \in live : o \in Objects /\ new[o] = its[o]
  BY DEF Held, Collected
<1>4. \A o \in Objects : new[o] = its[o] \/ new[o] = NoItem BY DEF Collected
<1>5. a.obj # 0 => a.obj \in live BY LiveIs
<1>6. \A u \in Users : us[u].obj # 0 => us[u].obj \in live BY LiveIs
<1> HIDE DEF new
<1>7. Filled(new) BY <1>4 DEF Filled, NoItem
<1>8. Held(new, l, a, us, js) BY <1>3 DEF Held
<1>9. Fits(new, a, us) BY <1>3, <1>5, <1>6 DEF Fits
<1> QED BY <1>2, <1>7, <1>8, <1>9 DEF new

\* A call of get, whatever the caller does with the item afterwards: keeps it
\* and waits, or leaves its generation to a goroutine.
LEMMA AskedKeeps ==
  ASSUME EpochInv, NEW e \in Epochs, e < EpochCount, RoomToGet(e),
         lru' = Touched(Get(e).obj), ahead' = Get(e).ahead,
         users' \in [Users -> User], \A j \in makers' : Job(j),
         items' = Collected(Get(e).items, Live(lru', ahead', users', makers')),
         \A v \in Users :
           \/ users'[v] = users[v]
           \/ /\ users'[v].obj \in {0, Get(e).obj}
              /\ users'[v].next \in {0, Get(e).next}
              /\ users'[v].pc # "has"
              /\ users'[v].pc \in {"wait", "look"} =>
                   users'[v].obj = Get(e).obj /\ users'[v].epoch = e,
         \A j \in makers' :
           j \in makers \/ Elements(j) \subseteq {Get(e).obj, Get(e).next},
         UNCHANGED <<kind, dumps>>
  PROVE  EpochInv'
<1> DEFINE g == Get(e)
           its == g.items
<1>1. /\ g.obj \in Objects /\ g.next \in Objects \union {0}
      /\ its \in [Objects -> Item]
      /\ \A o \in Objects : items[o].pc # "free" => its[o] = items[o]
      /\ its[g.obj].pc # "free" /\ its[g.obj].epoch = e
      /\ g.next # 0 => its[g.next].pc # "free"
  BY GetIs
<1>2. /\ ahead' \in Ahead /\ (ahead'.epoch > 0 => ahead'.obj # 0)
      /\ ahead'.obj # 0 => /\ its[ahead'.obj].epoch = ahead'.epoch
                           /\ ahead'.obj \in {ahead.obj, g.next}
      /\ Filled(its)
  BY GetIs
<1> HIDE DEF g, its
<1>3. 0 \notin Objects BY EpochAssumption
<1>4. Chain(lru') /\ \A p \in Elements(lru') : p = g.obj \/ p \in Elements(lru)
  BY <1>1, TouchedIs DEF g, EpochInv, EpochShape
<1>5. ASSUME NEW o, o \in Live(lru, ahead, users, makers)
      PROVE  o \in Objects /\ its[o] = items[o] /\ its[o].pc # "free"
  BY <1>1, <1>5 DEF EpochInv, Held
<1>6. ASSUME NEW o \in Live(lru', ahead', users', makers')
      PROVE  o \in {g.obj, g.next} \/ o \in Live(lru, ahead, users, makers)
  <2>1. o # 0 BY LiveIs
  <2>2. CASE o \in Elements(lru') BY <1>4, <2>1, <2>2, LiveIs
  <2>3. CASE o = ahead'.obj BY <1>2, <2>1, <2>3, LiveIs
  <2>4. ASSUME NEW v \in Users, o = users'[v].obj \/ o = users'[v].next
        PROVE  o \in {g.obj, g.next} \/ o \in Live(lru, ahead, users, makers)
    <3>1. CASE users'[v] = users[v] BY <2>1, <2>4, <3>1, LiveIs
    <3>2. CASE users'[v] # users[v] BY <2>1, <2>4, <3>2 DEF g
    <3> QED BY <3>1, <3>2
  <2>5. ASSUME NEW j \in makers', o \in Elements(j)
        PROVE  o \in {g.obj, g.next} \/ o \in Live(lru, ahead, users, makers)
    <3>1. CASE j \in makers BY <2>1, <2>5, <3>1, LiveIs
    <3>2. CASE j \notin makers BY <2>5, <3>2 DEF g
    <3> QED BY <3>1, <3>2
  <2>6. \/ o \in Elements(lru') \/ o = ahead'.obj
        \/ \E v \in Users : o = users'[v].obj \/ o = users'[v].next
        \/ \E j \in makers' : o \in Elements(j)
    BY LiveIs
  <2> QED BY <2>2, <2>3, <2>4, <2>5, <2>6
<1>7. Held(its, lru', ahead', users', makers')
  <2>1. ASSUME NEW o \in Live(lru', ahead', users', makers')
        PROVE  o \in Objects /\ its[o].pc # "free"
    <3>1. o # 0 BY LiveIs
    <3> QED BY <1>1, <1>5, <1>6, <3>1
  <2> QED BY <2>1 DEF Held
<1>8. ASSUME NEW v \in Users
      PROVE  /\ users'[v].pc \in {"wait", "look", "has"} =>
                  /\ users'[v].obj # 0
                  /\ its[users'[v].obj].epoch = users'[v].epoch
             /\ users'[v].pc = "has" => its[users'[v].obj].pc = "done"
  <2>1. CASE users'[v] = users[v]
    <3>1. users[v].obj # 0 => its[users[v].obj] = items[users[v].obj]
      BY <1>5, LiveIs
    <3> QED BY <2>1, <3>1 DEF EpochInv, Fits
  <2>2. CASE users'[v] # users[v] BY <1>1, <1>3, <2>2 DEF g
  <2> QED BY <2>1, <2>2
<1>9. Fits(its, ahead', users') BY <1>2, <1>8 DEF Fits
<1>10. /\ items' \in [Objects -> Item] /\ Filled(items')
       /\ Held(items', lru', ahead', users', makers')
       /\ Fits(items', ahead', users')
  <2>1. items' = Collected(its, Live(lru', ahead', users', makers'))
    BY DEF its, g
  <2> QED BY <1>1, <1>2, <1>3, <1>7, <1>9, <2>1, CollectionKeeps
<1>11. EpochShape' BY <1>2, <1>4, <1>10 DEF EpochInv, EpochShape
<1>12. Filled(items)' BY <1>10 DEF Filled
<1>13. DumpsWhole' BY DEF EpochInv, DumpsWhole
<1>14. Held(items, lru, ahead, users, makers)' BY <1>10 DEF Held, Live, Elements
<1>15. Fits(items, ahead, users)' BY <1>10 DEF Fits
<1> QED BY <1>11, <1>12, <1>13, <1>14, <1>15 DEF EpochInv

\* A call that waits for its item, or that will look at it once more.
LEMMA AskKeeps ==
  ASSUME EpochInv, NEW u \in Users, NEW e \in Epochs,
         Ask(u, e) \/ AskAsync(u, e)
  PROVE  EpochInv'
<1> DEFINE g == Get(e)
           wait == [pc |-> "wait", obj |-> g.obj, next |-> g.next, epoch |-> e]
           look == [pc |-> "look", obj |-> g.obj, next |-> 0, epoch |-> e]
           todo == IF g.next = 0 THEN <<g.obj>> ELSE <<g.obj, g.next>>
<1>1. e < EpochCount /\ RoomToGet(e) BY DEF Ask, AskAsync
<1>2. g.obj \in Objects /\ g.next \in Objects \union {0} BY <1>1, GetIs
<1> HIDE DEF g
<1>4. wait \in User /\ look \in User BY <1>2 DEF User
<1>5. Job(todo) /\ Elements(todo) \subseteq {g.obj, g.next}
  BY <1>2 DEF Job, Elements
<1> HIDE DEF todo
<1>6. users \in [Users -> User] /\ \A j \in makers : Job(j)
  BY DEF EpochInv, EpochShape
<1>7. /\ lru' = Touched(g.obj) /\ ahead' = g.ahead
      /\ \/ Enters(u, wait, makers)
         \/ Enters(u, look, makers \union {todo})
      /\ items' = Collected(g.items, Live(lru', ahead', users', makers'))
      /\ UNCHANGED <<kind, dumps>>
  BY DEF Ask, AskAsync, g, todo
<1>8. /\ users' \in [Users -> User]
      /\ \A v \in Users :
           \/ users'[v] = users[v] \/ users'[v] = wait \/ users'[v] = look
      /\ makers' \subseteq makers \union {todo}
  BY <1>4, <1>6, <1>7 DEF Enters
<1>9. \A j \in makers' :
        Job(j) /\ (j \in makers \/ Elements(j) \subseteq {g.obj, g.next})
  BY <1>5, <1>6, <1>8
<1>10. ASSUME NEW v \in Users, users'[v] # users[v]
       PROVE  /\ users'[v].obj \in {0, g.obj} /\ users'[v].next \in {0, g.next}
              /\ users'[v].pc # "has"
              /\ users'[v].pc \in {"wait", "look"} =>
                   users'[v].obj = g.obj /\ users'[v].epoch = e
  <2>1. CASE users'[v] = wait BY <2>1
  <2>2. CASE users'[v] = look BY <2>2
  <2> QED BY <1>8, <1>10, <2>1, <2>2
<1> QED BY <1>1, <1>7, <1>8, <1>9, <1>10, AskedKeeps DEF g

\* References that only go away, or wait no more for an item that is done.
LEMMA FewerRefs ==
  ASSUME EpochInv, UNCHANGED <<kind, lru, ahead, dumps>>,
         users' \in [Users -> User], \A j \in makers' : Job(j),
         Live(lru, ahead, users', makers') \subseteq
           Live(lru, ahead, users, makers),
         \A v \in Users :
           \/ users'[v] = users[v]
           \/ users'[v].pc \notin {"wait", "look", "has"}
           \/ /\ users[v].pc \in {"wait", "look"} /\ items[users[v].obj].pc = "done"
              /\ users'[v].obj = users[v].obj
              /\ users'[v].epoch = users[v].epoch,
         \/ items' = items
         \/ items' = Collected(items, Live(lru, ahead, users', makers'))
  PROVE  EpochInv'
<1>1. Held(items, lru, ahead, users', makers') BY DEF EpochInv, Held
<1>2. Fits(items, ahead, users') BY DEF EpochInv, Fits
<1>3. items \in [Objects -> Item] /\ Filled(items)
  BY DEF EpochInv, EpochShape
<1>4. /\ items' \in [Objects -> Item] /\ Filled(items')
      /\ Held(items', lru, ahead, users', makers')
      /\ Fits(items', ahead, users')
  <2>1. CASE items' = items BY <1>1, <1>2, <1>3, <2>1
  <2>2. CASE items' = Collected(items, Live(lru, ahead, users', makers'))
    <3>1. 0 \notin Objects BY EpochAssumption
    <3> QED BY <1>1, <1>2, <1>3, <2>2, <3>1, CollectionKeeps
  <2> QED BY <2>1, <2>2
<1>5. EpochShape' BY <1>4 DEF EpochInv, EpochShape, Chain
<1>6. Filled(items)' /\ DumpsWhole' BY <1>4 DEF EpochInv, Filled, DumpsWhole
<1>7. Held(items, lru, ahead, users, makers)' BY <1>4 DEF Held, Live, Elements
<1>8. Fits(items, ahead, users)' BY <1>4 DEF Fits
<1> QED BY <1>5, <1>6, <1>7, <1>8 DEF EpochInv

\* A call that goes on without its item.
Leaves(u) ==
  /\ Enters(u, Over, makers)
  /\ items' = Collected(items, Live(lru, ahead, users', makers'))
  /\ UNCHANGED <<kind, lru, ahead, dumps>>

\* A call that got its item, or is over, and a goroutine that goes on.
LEMMA RefsKeep ==
  ASSUME EpochInv,
         \/ \E u \in Users : Obtain(u) \/ LookAgain(u) \/ LeaveItem(u)
         \/ \E j \in makers : JobMovesOn(j)
  PROVE  EpochInv'
<1>1. /\ users \in [Users -> User] /\ \A j \in makers : Job(j)
      /\ 0 \notin Objects
  BY EpochAssumption DEF EpochInv, EpochShape
<1>2. ASSUME NEW u \in Users, Obtain(u) PROVE EpochInv'
  <2> DEFINE state == [users[u] EXCEPT !.pc = "has", !.next = 0]
             next  == users[u].next
  <2>1. users[u].pc = "wait" /\ items[users[u].obj].pc = "done"
    BY <1>2 DEF Obtain, Generated
  <2>2. users[u] \in User BY <1>1
  <2>3. /\ state \in User /\ state.obj = users[u].obj /\ state.next = 0
        /\ state.epoch = users[u].epoch
    BY <2>2 DEF User
  <2>4. /\ users' = [users EXCEPT ![u] = state]
        /\ makers' = IF next = 0 THEN makers ELSE makers \union {<<next>>}
        /\ UNCHANGED <<kind, lru, ahead, dumps, items>>
    BY <1>2 DEF Obtain, Enters
  <2> HIDE DEF state
  <2>5. /\ users' \in [Users -> User]
        /\ \A v \in Users : users'[v] = IF v = u THEN state ELSE users[v]
    BY <1>1, <2>3, <2>4
  <2>6. next # 0 => Job(<<next>>) /\ Elements(<<next>>) = {next}
    BY <2>2 DEF User, Job, Elements
  <2>7. \A j \in makers' : Job(j) /\ (j \in makers \/ Elements(j) = {next})
    BY <1>1, <2>4, <2>6
  <2>8. ASSUME NEW o \in Live(lru, ahead, users', makers')
        PROVE  o \in Live(lru, ahead, users, makers)
    <3>1. /\ o # 0
          /\ \/ o \in Elements(lru) \/ o = ahead.obj
             \/ \E v \in Users : o = users'[v].obj \/ o = users'[v].next
             \/ \E j \in makers' : o \in Elements(j)
      BY LiveIs
    <3>2. \/ o \in Elements(lru) \/ o = ahead.obj
          \/ \E v \in Users : o = users[v].obj \/ o = users[v].next
          \/ \E j \in makers : o \in Elements(j)
      BY <2>3, <2>5, <2>7, <3>1
    <3> QED BY <3>1, <3>2, LiveIs
  <2> QED BY <2>1, <2>3, <2>4, <2>5, <2>7, <2>8, FewerRefs
<1>3. ASSUME NEW u \in Users, Leaves(u) PROVE EpochInv'
  <2>1. /\ users' = [users EXCEPT ![u] = Over] /\ makers' = makers
        /\ items' = Collected(items, Live(lru, ahead, users', makers'))
        /\ UNCHANGED <<kind, lru, ahead, dumps>>
    BY <1>3 DEF Leaves, Enters
  <2>2. Over \in User /\ Over.obj = 0 /\ Over.next = 0 /\ Over.pc = "over"
    BY EpochAssumption DEF Over, Outside, User, Epochs
  <2>3. /\ users' \in [Users -> User]
        /\ \A v \in Users : users'[v] = IF v = u THEN Over ELSE users[v]
    BY <1>1, <2>1, <2>2
  <2>4. ASSUME NEW o \in Live(lru, ahead, users', makers')
        PROVE  o \in Live(lru, ahead, users, makers)
    <3>1. /\ o # 0
          /\ \/ o \in Elements(lru) \/ o = ahead.obj
             \/ \E v \in Users : o = users'[v].obj \/ o = users'[v].next
             \/ \E j \in makers' : o \in Elements(j)
      BY LiveIs
    <3>2. \/ o \in Elements(lru) \/ o = ahead.obj
          \/ \E v \in Users : o = users[v].obj \/ o = users[v].next
          \/ \E j \in makers : o \in Elements(j)
      BY <2>1, <2>2, <2>3, <3>1
    <3> QED BY <3>1, <3>2, LiveIs
  <2> QED BY <1>1, <2>1, <2>2, <2>3, <2>4, FewerRefs
<1>4. ASSUME NEW j \in makers, JobMovesOn(j) PROVE EpochInv'
  <2>1. /\ makers' = (makers \ {j}) \union (IF Len(j) > 1 THEN {Tail(j)} ELSE {})
        /\ items' = Collected(items, Live(lru, ahead, users, makers'))
        /\ UNCHANGED <<kind, lru, ahead, users, dumps>>
    BY <1>4 DEF JobMovesOn
  <2>2. Job(j) BY <1>1
  <2>3. Len(j) > 1 => Job(Tail(j)) /\ Elements(Tail(j)) \subseteq Elements(j)
    <3> DEFINE t == Tail(j)
    <3> SUFFICES ASSUME Len(j) > 1
                 PROVE  Job(t) /\ Elements(t) \subseteq Elements(j)
      OBVIOUS
    <3>1. /\ t \in Seq(Objects) /\ Len(t) = Len(j) - 1 /\ Len(j) \in Nat
          /\ \A i \in 1..Len(t) : t[i] = j[i + 1]
      BY <2>2 DEF Job
    <3> HIDE DEF t
    <3>2. \A i \in 1..Len(t) : i + 1 \in 1..Len(j) BY <3>1
    <3> QED BY <3>1, <3>2 DEF Job, Elements
  <2>4. \A k \in makers' : Job(k) /\ \E m \in makers : Elements(k) \subseteq Elements(m)
    BY <1>1, <2>1, <2>3
  <2>5. ASSUME NEW o \in Live(lru, ahead, users, makers')
        PROVE  o \in Live(lru, ahead, users, makers)
    <3>1. /\ o # 0
          /\ \/ o \in Elements(lru) \/ o = ahead.obj
             \/ \E v \in Users : o = users[v].obj \/ o = users[v].next
             \/ \E k \in makers' : o \in Elements(k)
      BY LiveIs
    <3>2. (\E k \in makers' : o \in Elements(k)) =>
            \E m \in makers : o \in Elements(m)
      BY <2>4
    <3> QED BY <3>1, <3>2, LiveIs
  <2> QED BY <1>1, <2>1, <2>4, <2>5, FewerRefs
<1>5. ASSUME NEW u \in Users, LookAgain(u), ~Leaves(u) PROVE EpochInv'
  <2> DEFINE state == [users[u] EXCEPT !.pc = "has"]
  <2>1. users[u] \in User BY <1>1
  <2>2. /\ state \in User /\ state.obj = users[u].obj
        /\ state.next = users[u].next /\ state.epoch = users[u].epoch
    BY <2>1 DEF User
  <2>3. /\ users[u].pc = "look" /\ items[users[u].obj].pc = "done"
        /\ users' = [users EXCEPT ![u] = state] /\ makers' = makers
        /\ UNCHANGED <<kind, lru, ahead, dumps, items>>
    BY <1>5 DEF LookAgain, Leaves, Enters, Generated
  <2> HIDE DEF state
  <2>4. /\ users' \in [Users -> User]
        /\ \A v \in Users : users'[v] = IF v = u THEN state ELSE users[v]
    BY <1>1, <2>2, <2>3
  <2>5. Live(lru, ahead, users', makers') \subseteq
          Live(lru, ahead, users, makers)
    BY <2>2, <2>3, <2>4 DEF Live
  <2> QED BY <1>1, <2>2, <2>3, <2>4, <2>5, FewerRefs
<1>6. \A u \in Users : LeaveItem(u) => Leaves(u) BY DEF LeaveItem, Leaves
<1> QED BY <1>2, <1>3, <1>4, <1>5, <1>6

\* generate on one object, which it fills from a whole dump or on its own.
LEMMA GenerateKeeps ==
  ASSUME EpochInv, NEW o \in Objects, GenerateStep(o) PROVE EpochInv'
<1> DEFINE Given(pc, data) ==
             items' = [items EXCEPT ![o].pc = pc, ![o].data = data]
<1>1. /\ items \in [Objects -> Item] /\ items[o] \in Item
      /\ dumps \in [Epochs -> {"none", "whole"}]
      /\ items[o].epoch \in Epochs /\ kind \in {"cache", "dataset"}
  BY DEF EpochInv, EpochShape, DumpsWhole, Item
<1>2. /\ UNCHANGED <<kind, lru, ahead, users, makers>>
      /\ items[o].pc \in {"new", "temp", "named", "sweep"}
  BY DEF GenerateStep, GenerateInMemory, LoadDump, FillTemp, LoadFails,
         RenameTemp, MapDump, FallBack, SweepDumps, Frame
<1>3. /\ \E pc \in {"temp", "named", "sweep", "done"},
            data \in {"none", "whole", "double"} :
           /\ Given(pc, data)
           /\ pc \in {"sweep", "done"} =>
                data = "whole" \/ (kind = "dataset" /\ data = "double")
      /\ DumpsWhole'
  <2>1. CASE GenerateInMemory(o)
    BY <1>1, <2>1 DEF GenerateInMemory, Steps, DumpsWhole
  <2>2. CASE LoadDump(o) BY <1>1, <2>2 DEF LoadDump, Steps, DumpsWhole
  <2>3. CASE FillTemp(o) BY <1>1, <2>3 DEF FillTemp, Steps, DumpsWhole
  <2>4. CASE RenameTemp(o) BY <1>1, <2>4 DEF RenameTemp, Steps, DumpsWhole
  <2>5. CASE MapDump(o) BY <1>1, <2>5 DEF MapDump, Steps, DumpsWhole
  <2>6. CASE FallBack(o) BY <1>1, <2>6 DEF FallBack, Steps, DumpsWhole
  <2>7. CASE SweepDumps(o)
    <3>1. items[o].data \in {"whole", "double"}
      BY <2>7 DEF SweepDumps, EpochInv, Filled
    <3>2. items[o].data = "whole" \/ (kind = "dataset" /\ items[o].data = "double")
      BY <2>7 DEF SweepDumps, EpochInv, Filled
    <3>3. Given("done", items[o].data) BY <2>7 DEF SweepDumps, Steps
    <3>4. DumpsWhole' BY <1>1, <2>7 DEF SweepDumps, DumpsWhole
    <3> QED BY <3>1, <3>2, <3>3, <3>4
  <2> QED BY <2>1, <2>2, <2>3, <2>4, <2>5, <2>6, <2>7 DEF GenerateStep
<1>4. PICK pc \in {"temp", "named", "sweep", "done"},
           data \in {"none", "whole", "double"} :
        /\ Given(pc, data)
        /\ pc \in {"sweep", "done"} =>
             data = "whole" \/ (kind = "dataset" /\ data = "double")
  BY <1>3
<1>5. /\ items' \in [Objects -> Item]
      /\ \A p \in Objects \ {o} : items'[p] = items[p]
      /\ items'[o].pc = pc /\ items'[o].data = data
      /\ items'[o].epoch = items[o].epoch
  BY <1>1, <1>4 DEF Item
<1>6. \A p \in Objects : items'[p].epoch = items[p].epoch
  BY <1>5
<1>7. EpochShape' BY <1>2, <1>5 DEF EpochInv, EpochShape, Chain
<1>8. Filled(items)' BY <1>2, <1>4, <1>5 DEF EpochInv, Filled
<1>9. Held(items, lru, ahead, users, makers)'
  <2>1. \A p \in Live(lru, ahead, users, makers) :
          p \in Objects /\ items'[p].pc # "free"
    BY <1>4, <1>5 DEF EpochInv, Held
  <2> QED BY <1>2, <2>1 DEF Held, Live, Elements
<1>10. Fits(items, ahead, users)'
  <2>1. ahead.obj # 0 => ahead.obj \in Objects
    BY DEF EpochInv, EpochShape, Ahead
  <2>2. \A u \in Users : users[u].obj # 0 => users[u].obj \in Objects
    BY DEF EpochInv, EpochShape, User
  <2>3. ASSUME NEW u \in Users, users[u].pc = "has"
        PROVE  items'[users[u].obj].pc = "done"
    <3>1. users[u].obj \in Objects /\ items[users[u].obj].pc = "done"
      BY <2>2, <2>3 DEF EpochInv, Fits
    <3>2. users[u].obj # o BY <1>2, <3>1
    <3> QED BY <1>5, <3>1, <3>2
  <2> QED BY <1>2, <1>6, <2>1, <2>2, <2>3 DEF EpochInv, Fits
<1> QED BY <1>3, <1>7, <1>8, <1>9, <1>10 DEF EpochInv

\* A crash leaves nothing but whole dumps.
LEMMA CrashKeeps == ASSUME EpochInv, CrashAndRestart PROVE EpochInv'
<1>1. /\ items' = [o \in Objects |-> NoItem] /\ lru' = <<>>
      /\ ahead' = [epoch |-> 0, obj |-> 0]
      /\ users' = [u \in Users |-> Outside] /\ makers' = {}
      /\ kind' = kind /\ dumps' = dumps
  BY DEF CrashAndRestart
<1>2. 0 \in Epochs BY EpochAssumption DEF Epochs
<1>3. EpochShape'
  <2>1. items' \in [Objects -> Item] BY <1>1, <1>2 DEF NoItem, Item
  <2>2. Chain(lru)' BY <1>1 DEF Chain
  <2>3. ahead' \in Ahead /\ users' \in [Users -> User]
    BY <1>1, <1>2 DEF Ahead, User, Outside
  <2> QED BY <1>1, <2>1, <2>2, <2>3 DEF EpochInv, EpochShape
<1>4. DumpsWhole' BY <1>1 DEF EpochInv, DumpsWhole
<1>5. Filled(items)' BY <1>1 DEF NoItem, Filled
<1>6. Held(items, lru, ahead, users, makers)'
  BY <1>1 DEF Live, Elements, Outside, Held
<1>7. Fits(items, ahead, users)' BY <1>1 DEF Fits, Outside
<1> QED BY <1>3, <1>4, <1>5, <1>6, <1>7 DEF EpochInv

\* Every step keeps the invariant.
LEMMA EpochStep == ASSUME EpochInv, [EpochNext]_epochVars PROVE EpochInv'
<1>1. CASE UNCHANGED epochVars
  BY <1>1 DEF epochVars, EpochInv, EpochShape, Chain, DumpsWhole, Filled, Held,
              Live, Elements, Fits
<1> QED BY <1>1, AskKeeps, RefsKeep, GenerateKeeps, CrashKeeps DEF EpochNext

\* The inductive invariant holds in every reachable state.
THEOREM EpochInvariance == EpochSpec => []EpochInv
<1>1. EpochInit => EpochInv BY EpochInitInv
<1>2. EpochInv /\ [EpochNext]_epochVars => EpochInv' BY EpochStep
<1> QED BY <1>1, <1>2, PTL DEF EpochSpec

\* The item of a call that has one fits it and is filled.
LEMMA HeldIsUsable == EpochInv => ItemUsable
<1> SUFFICES ASSUME EpochInv, NEW u \in Users, users[u].pc = "has"
             PROVE  LET it == items[users[u].obj]
                    IN  /\ it.epoch = users[u].epoch /\ it.pc = "done"
                        /\ \/ it.data = "whole"
                           \/ kind = "dataset" /\ it.data = "double"
  BY DEF ItemUsable
<1>1. users[u].obj \in Objects
  BY DEF EpochInv, EpochShape, Fits, User
<1> QED BY <1>1 DEF EpochInv, Fits, Filled

\* Through evictions, background generation, disk errors and crashes, whoever
\* was handed an item of an epoch uses a complete one of that epoch.
THEOREM ItemUsableHolds == EpochSpec => []ItemUsable
BY HeldIsUsable, EpochInvariance, PTL

\* What the invariant leaves open: the lru keeps within its size.
Kept ==
  onDisk \in BOOLEAN /\ Len(lru) <= LruSize /\ faults \in 0..MaxFaults

\* The invariant with the bounds of a type invariant.
EpochTyped == EpochInv /\ Kept

\* An object that is touched makes the list longer only while there is room.
LEMMA TouchedFits ==
  ASSUME Chain(lru), Len(lru) <= LruSize, NEW o \in Objects
  PROVE  Len(Touched(o)) <= LruSize
<1> DEFINE at == IF o \in Elements(lru)
                 THEN CHOOSE i \in 1..Len(lru) : lru[i] = o ELSE Len(lru) + 1
           n  == IF at > Len(lru) /\ Len(lru) < LruSize THEN Len(lru) + 1
                                                        ELSE Len(lru)
           t  == [i \in 1..n |-> IF i = 1 THEN o
                                 ELSE IF i <= at THEN lru[i - 1] ELSE lru[i]]
<1>1. Touched(o) = t BY DEF Touched
<1> HIDE DEF at
<1>2. n \in Nat /\ n <= LruSize BY EpochAssumption DEF Chain
<1> HIDE DEF n
<1>3. Len(t) = n BY <1>2
<1> QED BY <1>1, <1>2, <1>3

\* The initial states are of their types.
LEMMA EpochInitTyped == ASSUME EpochInit PROVE EpochTyped
<1>1. EpochInv BY EpochInitInv
<1>2. onDisk \in BOOLEAN BY EpochAssumption DEF EpochInit
<1>3. lru = <<>> /\ faults = 0 BY DEF EpochInit
<1>4. Len(lru) <= LruSize BY <1>3, EpochAssumption
<1>5. faults \in 0..MaxFaults BY <1>3, EpochAssumption
<1> QED BY <1>1, <1>2, <1>4, <1>5 DEF EpochTyped, Kept

\* Every step keeps the lru within its size.
LEMMA EpochTypedStep ==
  ASSUME EpochTyped, [EpochNext]_epochVars PROVE EpochTyped'
<1>1. EpochInv /\ Kept BY DEF EpochTyped
<1>2. EpochInv' BY <1>1, EpochStep
<1>3. onDisk' = onDisk
  BY DEF EpochNext, Ask, AskAsync, Obtain, LookAgain, LeaveItem, JobMovesOn,
         GenerateStep, GenerateInMemory, LoadDump, FillTemp, LoadFails,
         RenameTemp, MapDump, FallBack, SweepDumps, CrashAndRestart, Frame,
         epochVars
<1>4. faults' = faults \/ (faults < MaxFaults /\ faults' = faults + 1)
  BY DEF EpochNext, Ask, AskAsync, Obtain, LookAgain, LeaveItem, JobMovesOn,
         GenerateStep, GenerateInMemory, LoadDump, FillTemp, LoadFails,
         RenameTemp, MapDump, FallBack, SweepDumps, CrashAndRestart, Frame,
         Fault, epochVars
<1>5. \/ lru' = lru \/ lru' = <<>>
      \/ \E e \in Epochs : /\ e < EpochCount /\ RoomToGet(e)
                           /\ lru' = Touched(Get(e).obj)
  BY DEF EpochNext, Ask, AskAsync, Obtain, LookAgain, LeaveItem, JobMovesOn,
         GenerateStep, GenerateInMemory, LoadDump, FillTemp, LoadFails,
         RenameTemp, MapDump, FallBack, SweepDumps, CrashAndRestart, Frame,
         epochVars
<1>6. Len(lru') <= LruSize
  <2>1. Chain(lru) /\ Len(lru) <= LruSize
    BY <1>1 DEF EpochInv, EpochShape, Kept
  <2>2. ASSUME NEW e \in Epochs, e < EpochCount, RoomToGet(e),
               lru' = Touched(Get(e).obj)
        PROVE  Len(lru') <= LruSize
    <3>1. Get(e).obj \in Objects BY <1>1, <2>2, GetIs
    <3> QED BY <2>1, <2>2, <3>1, TouchedFits
  <2>3. CASE lru' = <<>> BY <2>3, EpochAssumption
  <2> QED BY <1>5, <2>1, <2>2, <2>3
<1>7. faults' \in 0..MaxFaults BY <1>1, <1>4, EpochAssumption DEF Kept
<1> QED BY <1>1, <1>2, <1>3, <1>6, <1>7 DEF EpochTyped, Kept

\* The bounded invariant keeps the types.
LEMMA EpochTypesFollow == EpochTyped => EpochTypeOK
<1> SUFFICES ASSUME EpochTyped PROVE EpochTypeOK OBVIOUS
<1>1. EpochShape /\ DumpsWhole /\ Kept BY DEF EpochTyped, EpochInv
<1>2. \A o \in Objects :
        /\ items[o].epoch \in Epochs
        /\ items[o].pc \in {"free", "new", "temp", "named", "sweep", "done"}
        /\ items[o].data \in {"none", "part", "whole", "double"}
  BY <1>1 DEF EpochShape, Item
<1>3. ahead.epoch \in Epochs BY <1>1 DEF EpochShape, Ahead
<1>4. dumps \in [Epochs -> {"none", "part", "whole"}] BY <1>1 DEF DumpsWhole
<1> QED BY <1>1, <1>2, <1>3, <1>4 DEF EpochTypeOK, EpochShape, Chain, Kept

\* The lru never holds more items than it was made for.
THEOREM EpochTypeCorrect == EpochSpec => []EpochTypeOK
<1>1. EpochInit => EpochTyped BY EpochInitTyped
<1>2. EpochTyped /\ [EpochNext]_epochVars => EpochTyped' BY EpochTypedStep
<1>3. EpochTyped => EpochTypeOK BY EpochTypesFollow
<1> QED BY <1>1, <1>2, <1>3, PTL DEF EpochSpec

------------------------------------------------------------------------------
(***************************************************************************)
(* EthashAlgorithm, for any cache, any sizes and any hash function:        *)
(* however the threads that fill a dataset interleave, each row they have  *)
(* written is the item that hashimotoLight computes in its place.          *)
(***************************************************************************)

\* A property of numbers that is lost somewhere is lost at a first number.
LEMMA FirstLoss ==
  ASSUME NEW n \in Nat, NEW good, ~(\A i \in 0..n : good[i])
  PROVE  \E i \in 0..n : ~good[i] /\ \A j \in 0..(i - 1) : good[j]
<1> DEFINE R == OpToRel(<, Nat)
           T == {i \in 0..n : ~good[i]}
<1>1. IsWellFoundedOn(R, Nat) BY NatLessThanWellFounded, Zenon
<1>2. \A x, y \in Nat : x < y => <<x, y>> \in R BY DEF OpToRel
<1>3. T # {} /\ T \subseteq Nat /\ T \subseteq 0..n OBVIOUS
<1> HIDE DEF R, T
<1>4. PICK m \in T : m \in T BY <1>3
<1>5. PICK i \in T : \A y \in T : ~(<<y, i>> \in R)
  BY <1>1, <1>3, <1>4, WFMin
<1>6. ASSUME NEW j \in 0..(i - 1) PROVE good[j]
  <2>1. j \in Nat /\ i \in Nat /\ j < i /\ j \in 0..n BY <1>3
  <2>2. j \notin T BY <1>2, <1>5, <2>1
  <2> QED BY <2>1, <2>2 DEF T
<1>7. i \in 0..n /\ ~good[i] BY DEF T
<1> QED BY <1>6, <1>7

\* Induction over an interval: what starts in T[0] and goes from T[i - 1] to
\* T[i] stays in T.
LEMMA IterationTyped ==
  ASSUME NEW n \in Nat, NEW T, NEW f, f[0] \in T[0],
         \A i \in 1..n : f[i - 1] \in T[i - 1] => f[i] \in T[i]
  PROVE  \A i \in 0..n : f[i] \in T[i]
<1> DEFINE good == [i \in 0..n |-> f[i] \in T[i]]
<1> SUFFICES ASSUME ~(\A i \in 0..n : good[i]) PROVE FALSE
  OBVIOUS
<1>1. PICK i \in 0..n : ~good[i] /\ \A j \in 0..(i - 1) : good[j]
  <2> HIDE DEF good
  <2> QED BY FirstLoss
<1>2. f[i] \notin T[i] BY <1>1
<1>3. i # 0 BY <1>2
<1>4. i \in 1..n /\ i - 1 \in 0..(i - 1) /\ i - 1 \in 0..n BY <1>3
<1>5. f[i - 1] \in T[i - 1] BY <1>1, <1>4
<1> QED BY <1>2, <1>3, <1>4, <1>5

\* f is defined by recursion: base at 0, then the step G[i].
Recursive(f, n, base, G) ==
  f = [i \in 0..n |-> IF i = 0 THEN base ELSE G[i][f[i - 1]]]

\* There is a function that such a recursion defines.
LEMMA IterationExists ==
  ASSUME NEW n \in Nat, NEW base, NEW G
  PROVE  \E f : Recursive(f, n, base, G)
<1> USE DEF Recursive
<1> DEFINE Solves(f, k) == Recursive(f, k, base, G)
           good == [k \in 0..n |-> \E f : Solves(f, k)]
<1> SUFFICES ASSUME ~(\A k \in 0..n : good[k]) PROVE FALSE
  <2>1. n \in 0..n OBVIOUS
  <2> QED BY <2>1
<1>1. PICK k \in 0..n : ~good[k] /\ \A j \in 0..(k - 1) : good[j]
  <2> HIDE DEF good
  <2> QED BY FirstLoss
<1>2. ~\E f : Solves(f, k) BY <1>1
<1>3. k # 0
  <2>1. Solves([i \in 0..0 |-> base], 0) OBVIOUS
  <2> QED BY <1>2, <2>1
<1>4. k - 1 \in 0..(k - 1) /\ k - 1 \in 0..n /\ k \in Nat BY <1>3
<1>5. PICK f : Solves(f, k - 1) BY <1>1, <1>4
<1> DEFINE g == [i \in 0..k |-> IF i = k THEN G[k][f[k - 1]] ELSE f[i]]
<1>6. ASSUME NEW i \in 0..k
      PROVE  g[i] = IF i = 0 THEN base ELSE G[i][g[i - 1]]
  <2>1. CASE i = k
    <3>1. g[i] = G[k][f[k - 1]] /\ i - 1 \in 0..k /\ i - 1 # k BY <1>3, <2>1
    <3>2. g[i - 1] = f[k - 1] BY <2>1, <3>1
    <3> QED BY <1>3, <2>1, <3>1, <3>2
  <2>2. CASE i # k
    <3>1. i \in 0..(k - 1) BY <2>2
    <3>2. f[i] = IF i = 0 THEN base ELSE G[i][f[i - 1]] BY <1>5, <3>1
    <3>3. g[i] = f[i] BY <2>2
    <3>4. i # 0 => i - 1 \in 0..k /\ i - 1 # k BY <3>1
    <3>5. i # 0 => g[i - 1] = f[i - 1] BY <3>4
    <3> QED BY <3>2, <3>3, <3>5
  <2> QED BY <2>1, <2>2
<1>7. Solves(g, k)
  <2>1. g = [i \in 0..k |-> g[i]] OBVIOUS
  <2> HIDE DEF g
  <2>2. [i \in 0..k |-> g[i]]
          = [i \in 0..k |-> IF i = 0 THEN base ELSE G[i][g[i - 1]]]
    BY <1>6
  <2> QED BY <2>1, <2>2
<1> QED BY <1>2, <1>7

\* The two together.
LEMMA IterationIs ==
  ASSUME NEW n \in Nat, NEW T, NEW base \in T[0], NEW G,
         \A i \in 1..n : \A x \in T[i - 1] : G[i][x] \in T[i]
  PROVE  \E f : /\ Recursive(f, n, base, G)
                /\ \A i \in 0..n : f[i] \in T[i]
<1>1. PICK f : Recursive(f, n, base, G)
  BY IterationExists, Zenon
<1>2. \A i \in 0..n : f[i] = IF i = 0 THEN base ELSE G[i][f[i - 1]]
  BY <1>1 DEF Recursive
<1>3. f[0] \in T[0] BY <1>2
<1>4. \A i \in 1..n : f[i - 1] \in T[i - 1] => f[i] \in T[i] BY <1>2
<1>5. \A i \in 0..n : f[i] \in T[i] BY <1>3, <1>4, IterationTyped
<1> QED BY <1>1, <1>5
-----------------------------------------------------------------------------
\* The sizes are positive numbers.
LEMMA SizesAre ==
  /\ WordBits \in Nat \ {0} /\ HashWords \in Nat \ {0}
  /\ CacheRounds \in Nat \ {0} /\ Parents \in Nat \ {0}
  /\ CacheRows \in Nat \ {0}
BY AlgorithmAssumption

\* The powers of two up to the width of a word are positive.
LEMMA PowersPositive == \A i \in 0..WordBits : 2^i \in Nat \ {0}
<1> DEFINE good == [i \in 0..WordBits |-> 2^i \in Nat \ {0}]
<1> SUFFICES ASSUME ~(\A i \in 0..WordBits : good[i]) PROVE FALSE
  OBVIOUS
<1>1. PICK i \in 0..WordBits : ~good[i] /\ \A j \in 0..(i - 1) : good[j]
  <2> HIDE DEF good
  <2> QED BY FirstLoss, SizesAre
<1>2. ~(2^i \in Nat \ {0}) BY <1>1
<1>3. i # 0
  <2>1. 2^0 = 1 BY PowersAssumption, Zenon
  <2>2. 1 \in Nat \ {0} OBVIOUS
  <2> QED BY <1>2, <2>1, <2>2, Zenon
<1>4. i \in 1..WordBits /\ i - 1 \in 0..(i - 1) /\ i - 1 \in 0..WordBits
  BY <1>3, SizesAre
<1>5. 2^(i - 1) \in Nat \ {0} BY <1>1, <1>4
<1>6. 2^i = 2 * 2^(i - 1) BY <1>4, PowersAssumption
<1> QED BY <1>2, <1>5, <1>6

\* Words are numbers.
LEMMA WordsAre == 2^WordBits \in Nat \ {0} /\ 0 \in Words /\ Words \subseteq Nat
BY PowersPositive, SizesAre DEF Words


\* A word is an integer.
LEMMA WordIsInt == \A w \in Words : w \in Int
BY WordsAre

\* Xor of whatever integers is a word.
LEMMA XorIsWord == ASSUME NEW a \in Int, NEW b \in Int PROVE Xor(a, b) \in Words
<1> DEFINE W == WordBits
           T == [i \in 0..W |-> 0..(2^i - 1)]
           bit == [i \in 1..W |-> (Bit(a, i - 1) + Bit(b, i - 1)) % 2]
           G == [i \in 1..W |-> [x \in Nat |-> x + 2^(i - 1) * bit[i]]]
           F(f) == [i \in 0..W |->
                      IF i = 0 THEN 0
                      ELSE f[i - 1] + 2^(i - 1)
                             * ((Bit(a, i - 1) + Bit(b, i - 1)) % 2)]
           upTo == CHOOSE f : f = F(f)
<1>1. Xor(a, b) = upTo[W] BY Zenon DEF Xor
<1>2. W \in Nat \ {0} BY SizesAre
<1>3. ASSUME NEW i \in 1..W
      PROVE  /\ bit[i] \in {0, 1} /\ i \in 0..W /\ i - 1 \in 0..W
             /\ 2^(i - 1) \in Nat \ {0} /\ 2^i = 2 * 2^(i - 1)
  <2>1. i \in 0..W /\ i - 1 \in 0..W BY <1>2
  <2>2. 2^(i - 1) \in Nat \ {0} BY <2>1, PowersPositive
  <2>3. Bit(a, i - 1) \in Int /\ Bit(b, i - 1) \in Int BY <2>2 DEF Bit
  <2>4. bit[i] \in {0, 1} BY <2>3
  <2> QED BY <2>1, <2>2, <2>4, PowersAssumption
<1>4. ASSUME NEW i \in 1..W, NEW x \in 0..(2^(i - 1) - 1)
      PROVE  x + 2^(i - 1) * bit[i] \in 0..(2^i - 1)
  <2>1. bit[i] = 0 \/ bit[i] = 1 BY <1>3
  <2> HIDE DEF bit
  <2>2. 2^(i - 1) * bit[i] = 0 \/ 2^(i - 1) * bit[i] = 2^(i - 1) BY <1>3, <2>1
  <2> QED BY <1>3, <2>2
<1>5. PICK f : /\ Recursive(f, W, 0, G)
               /\ \A i \in 0..W : f[i] \in T[i]
  <2>1. 0 \in T[0] BY <1>2, PowersAssumption
  <2>2. ASSUME NEW i \in 1..W, NEW x \in T[i - 1] PROVE G[i][x] \in T[i]
    <3>1. x \in 0..(2^(i - 1) - 1) BY <1>3
    <3>2. x \in Nat BY <1>3, <3>1
    <3>3. G[i][x] = x + 2^(i - 1) * bit[i] BY <3>2
    <3> QED BY <1>3, <1>4, <3>1, <3>3
  <2> HIDE DEF G, T
  <2>3. W \in Nat BY <1>2
  <2> QED BY <2>1, <2>2, <2>3, IterationIs, Zenon
<1>6. f = F(f)
  <2>1. ASSUME NEW i \in 1..W
        PROVE  G[i][f[i - 1]] = f[i - 1] + 2^(i - 1)
                                  * ((Bit(a, i - 1) + Bit(b, i - 1)) % 2)
    <3>1. f[i - 1] \in 0..(2^(i - 1) - 1) BY <1>3, <1>5
    <3>2. f[i - 1] \in Nat BY <1>3, <3>1
    <3> QED BY <3>2
  <2> HIDE DEF G
  <2>2. \A i \in 0..W : i = 0 \/ i \in 1..W BY <1>2
  <2> QED BY <1>5, <2>1, <2>2 DEF Recursive
<1>7. upTo = F(upTo)
  <2> HIDE DEF F
  <2> QED BY <1>6
<1> HIDE DEF upTo
<1>8. upTo[0] \in T[0]
  <2>1. upTo[0] = 0 BY <1>2, <1>7
  <2> QED BY <1>2, <2>1, PowersAssumption
<1>9. ASSUME NEW i \in 1..W, upTo[i - 1] \in T[i - 1] PROVE upTo[i] \in T[i]
  <2>1. upTo[i - 1] \in 0..(2^(i - 1) - 1) BY <1>3, <1>9
  <2>2. upTo[i] = upTo[i - 1] + 2^(i - 1) * bit[i] BY <1>3, <1>7
  <2> QED BY <1>3, <1>4, <2>1, <2>2
<1>10. upTo[W] \in T[W]
  <2> HIDE DEF T
  <2>1. \A i \in 0..W : upTo[i] \in T[i] BY <1>2, <1>8, <1>9, IterationTyped
  <2> QED BY <1>2, <2>1
<1> QED BY <1>1, <1>2, <1>10 DEF Words
-----------------------------------------------------------------------------
(* Rows.                                                                   *)

\* The hash of two numbers is a word.
LEMMA FnvIsWord == ASSUME NEW a \in Int, NEW b \in Int PROVE fnv(a, b) \in Words
<1>1. 2^WordBits \in Nat \ {0} BY WordsAre
<1> DEFINE p == 2^WordBits
           m == (a * (16777619 % p)) % p
<1>2. p \in Nat \ {0} BY <1>1
<1>3. fnv(a, b) = Xor(m, b) BY DEF fnv
<1> HIDE DEF p
<1>4. 16777619 % p \in Nat BY <1>2
<1>5. a * (16777619 % p) \in Int BY <1>4
<1>6. m \in Int BY <1>2, <1>5
<1> HIDE DEF m
<1> QED BY <1>3, <1>6, XorIsWord

\* A row is a sequence of HashWords integers.
LEMMA RowIs ==
  ASSUME NEW r \in Rows
  PROVE  /\ Len(r) = HashWords /\ \A i \in 1..HashWords : r[i] \in Words /\ r[i] \in Int
         /\ r # <<>>
<1>1. \A i \in 1..HashWords : r[i] \in Words /\ r[i] \in Int
  <2>1. \A i \in 1..HashWords : r[i] \in Words BY DEF Rows
  <2>2. Words \subseteq Int BY WordsAre
  <2> QED BY <2>1, <2>2
<1>2. r \in Seq(Words) /\ Len(r) = HashWords
  BY SizesAre, LenProperties, SeqDef DEF Rows
<1> QED BY <1>1, <1>2, SizesAre

\* Two rows make a row, word by word.
LEMMA XorRowsIs ==
  ASSUME NEW r \in Rows, NEW s \in Rows PROVE XorRows(r, s) \in Rows
<1>1. \A i \in 1..HashWords : Xor(r[i], s[i]) \in Words BY RowIs, XorIsWord
<1> QED BY <1>1 DEF XorRows, Rows

\* Two rows are mixed into a row.
LEMMA FnvHashIs ==
  ASSUME NEW r \in Rows, NEW s \in Rows PROVE fnvHash(r, s) \in Rows
<1>1. \A i \in 1..HashWords : fnv(r[i], s[i]) \in Words BY RowIs, FnvIsWord
<1>2. Len(r) = HashWords BY RowIs
<1> QED BY <1>1, <1>2 DEF fnvHash, Rows

\* Recursion and induction within one set.
LEMMA IterationIn ==
  ASSUME NEW n \in Nat, NEW S, NEW base \in S, NEW G,
         \A i \in 1..n : \A x \in S : G[i][x] \in S
  PROVE  \E f : Recursive(f, n, base, G) /\ \A i \in 0..n : f[i] \in S
<1> DEFINE T == [i \in 0..n |-> S]
<1>1. \A i \in 0..n : T[i] = S OBVIOUS
<1>2. \A i \in 1..n : i \in 0..n /\ i - 1 \in 0..n OBVIOUS
<1>3. base \in T[0] /\ \A i \in 1..n : \A x \in T[i - 1] : G[i][x] \in T[i]
  BY <1>1, <1>2
<1> HIDE DEF T
<1>4. PICK f : Recursive(f, n, base, G) /\ \A i \in 0..n : f[i] \in T[i]
  BY <1>3, IterationIs, Zenon
<1>5. \A i \in 0..n : f[i] \in S BY <1>1, <1>4
<1> QED BY <1>4, <1>5, Zenon

\* An iteration that starts in a set and never leaves it is in it.
LEMMA StaysIn ==
  ASSUME NEW n \in Nat, NEW S, NEW f, f[0] \in S,
         \A i \in 1..n : f[i - 1] \in S => f[i] \in S
  PROVE  \A i \in 0..n : f[i] \in S
<1> DEFINE T == [i \in 0..n |-> S]
<1>1. \A i \in 0..n : T[i] = S OBVIOUS
<1>2. \A i \in 1..n : i \in 0..n /\ i - 1 \in 0..n OBVIOUS
<1>3. f[0] \in T[0] /\ \A i \in 1..n : f[i - 1] \in T[i - 1] => f[i] \in T[i]
  BY <1>1, <1>2
<1> HIDE DEF T
<1>4. \A i \in 0..n : f[i] \in T[i] BY <1>3, IterationTyped
<1> QED BY <1>1, <1>4, Zenon

\* The seed of an epoch is a row.
LEMMA SeedIs == seedHash(1) \in Rows
<1> DEFINE F(f) == [e \in 0..1 |-> IF e = 0 THEN ZeroRow ELSE Keccak(f[e - 1])]
           seed == CHOOSE f : f = F(f)
           g == [e \in 0..1 |-> IF e = 0 THEN ZeroRow ELSE Keccak(ZeroRow)]
<1>1. seedHash(1) = seed[1] BY Zenon DEF seedHash
<1>2. g = F(g) OBVIOUS
<1>3. seed = F(seed)
  <2> HIDE DEF F, g
  <2> QED BY <1>2
<1> HIDE DEF seed
<1>4. seed[0] = ZeroRow /\ seed[1] = Keccak(seed[0])
  <2>1. \A e \in 0..1 : seed[e] = IF e = 0 THEN ZeroRow ELSE Keccak(seed[e - 1])
    BY <1>3
  <2> QED BY <2>1
<1>5. ZeroRow \in Rows BY WordsAre DEF ZeroRow, Rows
<1> QED BY <1>1, <1>4, <1>5, KeccakAssumption

\* The caches.
Caches == [0..(CacheRows - 1) -> Rows]

\* The cache is filled with rows,
LEMMA FilledIs == ASSUME NEW seed \in Rows PROVE FilledCache(seed) \in Caches
<1> DEFINE n == CacheRows - 1
           F(f) == [j \in 0..(CacheRows - 1) |->
                      IF j = 0 THEN Keccak(seed) ELSE Keccak(f[j - 1])]
           row == CHOOSE f : f = F(f)
           G == [i \in 1..n |-> [x \in Rows |-> Keccak(x)]]
<1>1. FilledCache(seed) = row BY Zenon DEF FilledCache
<1>2. n \in Nat BY SizesAre
<1>3. Keccak(seed) \in Rows BY KeccakAssumption
<1>4. \A i \in 1..n : \A x \in Rows : G[i][x] = Keccak(x) /\ G[i][x] \in Rows
  BY KeccakAssumption
<1>5. PICK f : Recursive(f, n, Keccak(seed), G) /\ \A i \in 0..n : f[i] \in Rows
  <2> HIDE DEF G, n
  <2> QED BY <1>2, <1>3, <1>4, IterationIn, Zenon
<1>6. f = F(f)
  <2>1. \A j \in 0..n : j # 0 => j \in 1..n /\ j - 1 \in 0..n BY <1>2
  <2>2. \A j \in 0..n : j # 0 => G[j][f[j - 1]] = Keccak(f[j - 1])
    BY <1>4, <1>5, <2>1
  <2> HIDE DEF G
  <2> QED BY <1>5, <2>2 DEF Recursive
<1>7. row = F(row)
  <2> HIDE DEF F
  <2> QED BY <1>6
<1> HIDE DEF row
<1>8. \A j \in 0..n :
        row[j] = IF j = 0 THEN Keccak(seed) ELSE Keccak(row[j - 1])
  BY <1>7
<1>9. row[0] \in Rows BY <1>2, <1>3, <1>8
<1>10. \A i \in 1..n : row[i - 1] \in Rows => row[i] \in Rows
  BY <1>2, <1>8, KeccakAssumption
<1>11. \A i \in 0..n : row[i] \in Rows
  <2> HIDE DEF n
  <2> QED BY <1>2, <1>9, <1>10, StaysIn
<1>12. row = [j \in 0..(CacheRows - 1) |-> row[j]] BY <1>7
<1> QED BY <1>1, <1>11, <1>12 DEF Caches

\* The remainder of a word is the index of a row of the cache.
LEMMA RowIndex ==
  ASSUME NEW a \in Int PROVE a % CacheRows \in 0..(CacheRows - 1)
BY SizesAre

\* and the mixing leaves rows in it.
LEMMA MixedIs ==
  ASSUME NEW c \in Caches, NEW j \in 0..(CacheRows - 1)
  PROVE  MixedRow(c, j) \in Caches
<1> DEFINE r == c[(j - 1 + CacheRows) % CacheRows]
           s == c[c[j][1] % CacheRows]
<1>1. r \in Rows
  <2>1. (j - 1 + CacheRows) % CacheRows \in 0..(CacheRows - 1)
    BY SizesAre, RowIndex
  <2> QED BY <2>1 DEF Caches
<1>2. s \in Rows
  <2>1. c[j] \in Rows /\ 1 \in 1..HashWords BY SizesAre DEF Caches
  <2>2. c[j][1] \in Int BY <2>1, RowIs
  <2> QED BY <2>2, RowIndex DEF Caches
<1>3. Keccak(XorRows(r, s)) \in Rows BY <1>1, <1>2, XorRowsIs, KeccakAssumption
<1>4. MixedRow(c, j) = [c EXCEPT ![j] = Keccak(XorRows(r, s))] BY DEF MixedRow
<1> HIDE DEF r, s
<1> QED BY <1>3, <1>4 DEF Caches

\* What generateCache makes of a seed is a cache.
LEMMA CacheIs == ASSUME NEW seed \in Rows PROVE generateCache(seed) \in Caches
<1> DEFINE n == CacheRounds * CacheRows
           F(f) == [i \in 0..(CacheRounds * CacheRows) |->
                      IF i = 0 THEN FilledCache(seed)
                      ELSE MixedRow(f[i - 1], (i - 1) % CacheRows)]
           after == CHOOSE f : f = F(f)
           G == [i \in 1..n |-> [x \in Caches |-> MixedRow(x, (i - 1) % CacheRows)]]
<1>1. generateCache(seed) = after[CacheRounds * CacheRows]
  BY Zenon DEF generateCache
<1>2. n \in Nat BY SizesAre
<1>3. FilledCache(seed) \in Caches BY FilledIs
<1>4. \A i \in 1..n : \A x \in Caches :
        /\ G[i][x] = MixedRow(x, (i - 1) % CacheRows)
        /\ MixedRow(x, (i - 1) % CacheRows) \in Caches
  <2>1. \A i \in 1..n : (i - 1) % CacheRows \in 0..(CacheRows - 1)
    BY <1>2, RowIndex
  <2>2. \A i \in 1..n : \A x \in Caches : MixedRow(x, (i - 1) % CacheRows) \in Caches
    BY <2>1, MixedIs
  <2>3. \A i \in 1..n : \A x \in Caches : G[i][x] = MixedRow(x, (i - 1) % CacheRows)
    OBVIOUS
  <2> QED BY <2>2, <2>3
<1>5. PICK f : /\ Recursive(f, n, FilledCache(seed), G)
               /\ \A i \in 0..n : f[i] \in Caches
  <2> HIDE DEF G, n
  <2>1. \A i \in 1..n : \A x \in Caches : G[i][x] \in Caches BY <1>4
  <2> QED BY <1>2, <1>3, <2>1, IterationIn, Zenon
<1>6. f = F(f)
  <2>1. \A i \in 0..n : i # 0 => i \in 1..n /\ i - 1 \in 0..n BY <1>2
  <2>2. \A i \in 0..n : i # 0 =>
          G[i][f[i - 1]] = MixedRow(f[i - 1], (i - 1) % CacheRows)
    BY <1>4, <1>5, <2>1
  <2> HIDE DEF G
  <2> QED BY <1>5, <2>2 DEF Recursive
<1>7. after = F(after)
  <2> HIDE DEF F
  <2> QED BY <1>6
<1> HIDE DEF after, G
<1>8. \A i \in 0..n : after[i] = IF i = 0 THEN FilledCache(seed)
                                 ELSE MixedRow(after[i - 1], (i - 1) % CacheRows)
  BY <1>7
<1>9. after[0] \in Caches BY <1>2, <1>3, <1>8
<1>10. \A i \in 1..n : after[i - 1] \in Caches => after[i] \in Caches
  <2>1. \A i \in 1..n : i \in 0..n /\ i # 0 BY <1>2
  <2> QED BY <1>4, <1>8, <2>1
<1>11. \A i \in 0..n : after[i] \in Caches
  <2> HIDE DEF n
  <2> QED BY <1>2, <1>9, <1>10, StaysIn
<1>12. after[n] \in Caches BY <1>2, <1>11
<1> QED BY <1>1, <1>12

\* An item of the dataset is a row.
LEMMA ItemIs ==
  ASSUME NEW c \in Caches, NEW index \in Nat
  PROVE  generateDatasetItem(c, index) \in Rows
<1> DEFINE n == Parents
           Parent(i, x) == fnv(Xor(index % 2^WordBits, (i - 1) % 2^WordBits),
                               x[((i - 1) % HashWords) + 1])
           F(f) == [i \in 0..Parents |->
                      IF i = 0 THEN FirstMix(c, index)
                      ELSE LET parent == fnv(Xor(index % 2^WordBits, (i - 1) % 2^WordBits),
                                             f[i - 1][((i - 1) % HashWords) + 1])
                           IN  fnvHash(f[i - 1], c[parent % CacheRows])]
           mixed == CHOOSE f : f = F(f)
           G == [i \in 1..n |-> [x \in Rows |->
                                  fnvHash(x, c[Parent(i, x) % CacheRows])]]
<1>1. generateDatasetItem(c, index) = Keccak(mixed[Parents])
  BY Zenon DEF generateDatasetItem
<1>2. n \in Nat BY SizesAre
<1>3. FirstMix(c, index) \in Rows
  <2> DEFINE r == c[index % CacheRows]
             w == Xor(r[1], index % 2^WordBits)
  <2>1. r \in Rows BY RowIndex DEF Caches
  <2>2. r[1] \in Int BY <2>1, RowIs, SizesAre
  <2>3. index % 2^WordBits \in Int BY WordsAre
  <2>4. w \in Words BY <2>2, <2>3, XorIsWord
  <2>5. FirstMix(c, index) = Keccak([r EXCEPT ![1] = w]) BY DEF FirstMix
  <2> HIDE DEF r, w
  <2>6. [r EXCEPT ![1] = w] \in Rows BY <2>1, <2>4, SizesAre DEF Rows
  <2> QED BY <2>5, <2>6, KeccakAssumption
<1>4. ASSUME NEW i \in 1..n, NEW x \in Rows
      PROVE  /\ G[i][x] = fnvHash(x, c[Parent(i, x) % CacheRows])
             /\ fnvHash(x, c[Parent(i, x) % CacheRows]) \in Rows
  <2>1. ((i - 1) % HashWords) + 1 \in 1..HashWords BY <1>2, SizesAre
  <2>2. x[((i - 1) % HashWords) + 1] \in Int BY <2>1, RowIs
  <2> DEFINE p == index % 2^WordBits
             q == (i - 1) % 2^WordBits
             y == x[((i - 1) % HashWords) + 1]
  <2>3. p \in Int /\ q \in Int BY <1>2, WordsAre
  <2>4. Parent(i, x) = fnv(Xor(p, q), y) OBVIOUS
  <2> HIDE DEF Parent, p, q, y
  <2>5. Xor(p, q) \in Int
    <3>1. Xor(p, q) \in Words BY <2>3, XorIsWord, Zenon
    <3> QED BY <3>1, WordIsInt, Zenon
  <2>7. Parent(i, x) \in Int
    <3>1. y \in Int BY <2>2 DEF y
    <3>2. fnv(Xor(p, q), y) \in Words BY <2>5, <3>1, FnvIsWord, Zenon
    <3> QED BY <2>4, <3>2, WordIsInt, Zenon
  <2>6. c[Parent(i, x) % CacheRows] \in Rows BY <2>7, RowIndex DEF Caches
  <2> QED BY <2>6, FnvHashIs
<1>5. PICK f : /\ Recursive(f, n, FirstMix(c, index), G)
               /\ \A i \in 0..n : f[i] \in Rows
  <2> HIDE DEF G, n, Parent
  <2>1. \A i \in 1..n : \A x \in Rows : G[i][x] \in Rows BY <1>4
  <2> QED BY <1>2, <1>3, <2>1, IterationIn, Zenon
<1>6. f = F(f)
  <2>1. \A i \in 0..n : i # 0 => i \in 1..n /\ i - 1 \in 0..n BY <1>2
  <2>2. \A i \in 0..n : i # 0 =>
          G[i][f[i - 1]] = fnvHash(f[i - 1], c[Parent(i, f[i - 1]) % CacheRows])
    BY <1>4, <1>5, <2>1
  <2> HIDE DEF G
  <2> QED BY <1>5, <2>2 DEF Recursive
<1>7. mixed = F(mixed)
  <2> HIDE DEF F
  <2> QED BY <1>6
<1> HIDE DEF mixed, G
<1>8. \A i \in 0..n :
        mixed[i] = IF i = 0 THEN FirstMix(c, index)
                   ELSE fnvHash(mixed[i - 1],
                                c[Parent(i, mixed[i - 1]) % CacheRows])
  BY <1>7
<1> HIDE DEF Parent, F
<1>9. mixed[0] \in Rows BY <1>2, <1>3, <1>8
<1>10. \A i \in 1..n : mixed[i - 1] \in Rows => mixed[i] \in Rows
  <2>1. \A i \in 1..n : i \in 0..n /\ i # 0 BY <1>2
  <2> QED BY <1>4, <1>8, <2>1
<1>11. \A i \in 0..n : mixed[i] \in Rows
  <2> HIDE DEF n
  <2> QED BY <1>2, <1>9, <1>10, StaysIn
<1>12. mixed[Parents] \in Rows BY <1>2, <1>11
<1> QED BY <1>1, <1>12, KeccakAssumption
-----------------------------------------------------------------------------
(* The batches of the threads.                                             *)

\* There are batches enough for all rows.
LEMMA BatchesSuffice ==
  ASSUME NEW rows \in Nat, NEW n \in Nat \ {0}
  PROVE  BatchSize(rows, n) \in Nat /\ rows <= n * BatchSize(rows, n)
<1> DEFINE a == rows + n - 1
           B == a \div n
<1>1. a \in Nat /\ BatchSize(rows, n) = B BY DEF BatchSize
<1>2. B \in Nat /\ a = n * B + (a % n) /\ a % n \in 0..(n - 1)
  <2> HIDE DEF a
  <2> QED BY <1>1
<1>3. n * B \in Nat BY <1>2
<1> HIDE DEF B
<1> DEFINE nB == n * B
<1>4. nB \in Nat /\ a = nB + (a % n) BY <1>2, <1>3
<1> HIDE DEF nB
<1>5. rows <= nB BY <1>2, <1>4
<1> QED BY <1>1, <1>2, <1>5 DEF nB

\* A batch ends where the next one starts, the last one with the n batches.
LEMMA BatchBounds ==
  ASSUME NEW B \in Nat, NEW n \in Nat, NEW t \in 0..(n - 1)
  PROVE  t * B \in Nat /\ t * B + B <= n * B /\ n * B \in Nat
<1>1. (t + 1) * B = t * B + B OBVIOUS
<1>2. (t + 1) * B <= n * B
  <2>1. t + 1 <= n /\ t + 1 \in Nat OBVIOUS
  <2> QED BY <2>1
<1>3. t * B \in Nat /\ n * B \in Nat OBVIOUS
<1> QED BY <1>1, <1>2, <1>3

\* Every row is in a batch.
LEMMA RowInBatch ==
  ASSUME NEW rows \in Nat, NEW n \in Nat \ {0}, NEW r \in 0..(rows - 1),
         NEW B \in Nat, rows <= n * B
  PROVE  \E t \in 0..(n - 1) : t * B <= r /\ r < t * B + B
<1>1. B # 0 BY n * 0 = 0
<1> DEFINE t == r \div B
<1>2. t \in Nat /\ r = B * t + (r % B) /\ r % B \in 0..(B - 1) BY <1>1
<1> HIDE DEF t
<1> DEFINE m == t * B
<1>3. m \in Nat /\ r = m + (r % B) BY <1>2
<1>4. t < n
  <2> SUFFICES ASSUME t >= n PROVE FALSE BY <1>2
  <2>1. t * B >= n * B BY <1>2
  <2> QED BY <1>2, <1>3, <2>1
<1> HIDE DEF m
<1>5. m <= r /\ r < m + B BY <1>2, <1>3
<1>6. t \in 0..(n - 1) BY <1>2, <1>4
<1> QED BY <1>5, <1>6 DEF m

Size1(p)     == BatchSize(p[1], p[2])
First(p, t)  == t * Size1(p)
Limit(p, t)  == IF First(p, t) + Size1(p) > p[1] THEN p[1] ELSE First(p, t) + Size1(p)

\* Every row is either unwritten or what the cache says; a thread has
\* written the rows of its batch below its cursor.
Written(p, c, d, cur) ==
  /\ p \in Nat \X (Nat \ {0}) /\ p[1] % 2 = 0
  /\ d = [r \in 0..(p[1] - 1) |-> d[r]]
  /\ \A r \in 0..(p[1] - 1) :
       d[r] = <<>> \/ d[r] = generateDatasetItem(c, r)
  /\ cur \in [0..(p[2] - 1) -> Nat]
  /\ \A t \in 0..(p[2] - 1) :
       /\ First(p, t) <= cur[t] /\ cur[t] <= First(p, t) + Size1(p)
       /\ \A r \in 0..(p[1] - 1) : First(p, t) <= r /\ r < cur[t] =>
            d[r] = generateDatasetItem(c, r)

\* The inductive invariant.
DsetInv ==
  plan \in Datasets /\ cached \in Caches /\ Written(plan, cached, dset, cursor)

\* The numbers of a plan.
LEMMA PlanIs ==
  ASSUME NEW p \in Datasets
  PROVE  /\ p \in Nat \X (Nat \ {0}) /\ p[1] % 2 = 0
         /\ p[1] \in Nat /\ p[2] \in Nat \ {0}
         /\ Size1(p) \in Nat /\ p[1] <= p[2] * Size1(p)
         /\ p[2] * Size1(p) \in Nat
         /\ \A t \in 0..(p[2] - 1) :
              First(p, t) \in Nat /\ First(p, t) + Size1(p) <= p[2] * Size1(p)
<1>1. p \in Nat \X (Nat \ {0}) /\ p[1] % 2 = 0 BY AlgorithmAssumption
<1>2. p[1] \in Nat /\ p[2] \in Nat \ {0} BY <1>1
<1>3. Size1(p) \in Nat /\ p[1] <= p[2] * Size1(p)
  BY <1>2, BatchesSuffice DEF Size1
<1>4. p[2] * Size1(p) \in Nat BY <1>2, <1>3
<1>5. \A t \in 0..(p[2] - 1) :
        First(p, t) \in Nat /\ First(p, t) + Size1(p) <= p[2] * Size1(p)
  BY <1>2, <1>3, BatchBounds DEF First
<1> QED BY <1>1, <1>2, <1>3, <1>4, <1>5

\* The initial states satisfy the invariant.
LEMMA DsetInitInv == ASSUME DsetInit PROVE DsetInv
<1>1. plan \in Datasets /\ cached \in Caches BY SeedIs, CacheIs DEF DsetInit
<1>2. /\ dset = [r \in 0..(plan[1] - 1) |-> <<>>]
      /\ cursor = [t \in 0..(plan[2] - 1) |-> First(plan, t)]
  BY DEF DsetInit, BatchStart, First, Size1
<1>3. cursor \in [0..(plan[2] - 1) -> Nat] BY <1>1, <1>2, PlanIs
<1>4. ASSUME NEW t \in 0..(plan[2] - 1)
      PROVE  /\ First(plan, t) <= cursor[t]
             /\ cursor[t] <= First(plan, t) + Size1(plan)
             /\ \A r \in 0..(plan[1] - 1) : ~(First(plan, t) <= r /\ r < cursor[t])
  <2>1. cursor[t] = First(plan, t) BY <1>2
  <2>2. First(plan, t) \in Nat /\ Size1(plan) \in Nat BY <1>1, PlanIs
  <2>3. \A r \in 0..(plan[1] - 1) : r \in Int OBVIOUS
  <2> QED BY <2>1, <2>2, <2>3
<1>5. Written(plan, cached, dset, cursor)
  <2>1. plan \in Nat \X (Nat \ {0}) /\ plan[1] % 2 = 0 BY <1>1, PlanIs
  <2>2. /\ dset = [r \in 0..(plan[1] - 1) |-> dset[r]]
        /\ \A r \in 0..(plan[1] - 1) : dset[r] = <<>>
    BY <1>2
  <2> QED BY <1>3, <1>4, <2>1, <2>2 DEF Written
<1> QED BY <1>1, <1>5 DEF DsetInv

\* A thread writes the row at its cursor.
LEMMA WriteKeeps ==
  ASSUME DsetInv, NEW t \in DOMAIN cursor, WriteRow(t) PROVE DsetInv'
<1> DEFINE r0 == cursor[t]
<1>1. /\ plan \in Datasets /\ cached \in Caches
      /\ Written(plan, cached, dset, cursor)
  BY DEF DsetInv
<1>2. t \in 0..(plan[2] - 1) /\ cursor \in [0..(plan[2] - 1) -> Nat]
  BY <1>1 DEF Written
<1>3. /\ r0 < Limit(plan, t) /\ plan' = plan /\ cached' = cached
      /\ dset' = [dset EXCEPT ![r0] = generateDatasetItem(cached, r0)]
      /\ cursor' = [cursor EXCEPT ![t] = r0 + 1]
  BY DEF WriteRow, Limit, First, Size1, BatchLimit, BatchStart
<1>4. /\ r0 \in Nat /\ First(plan, t) \in Nat /\ Size1(plan) \in Nat
      /\ plan[1] \in Nat
  BY <1>1, <1>2, PlanIs
<1>5. r0 < plan[1] /\ r0 + 1 <= First(plan, t) + Size1(plan)
  BY <1>3, <1>4 DEF Limit
<1>6. r0 \in 0..(plan[1] - 1) BY <1>4, <1>5
<1> HIDE DEF r0
<1>7. dset = [r \in 0..(plan[1] - 1) |-> dset[r]] BY <1>1 DEF Written
<1>8. /\ dset' = [r \in 0..(plan[1] - 1) |-> dset'[r]]
      /\ dset'[r0] = generateDatasetItem(cached, r0)
      /\ \A r \in 0..(plan[1] - 1) : r # r0 => dset'[r] = dset[r]
  BY <1>3, <1>6, <1>7
<1>9. \A r \in 0..(plan[1] - 1) :
        dset'[r] = <<>> \/ dset'[r] = generateDatasetItem(cached, r)
  BY <1>1, <1>8 DEF Written
<1>10. /\ cursor' \in [0..(plan[2] - 1) -> Nat] /\ cursor'[t] = r0 + 1
       /\ \A u \in 0..(plan[2] - 1) : u # t => cursor'[u] = cursor[u]
  BY <1>2, <1>3, <1>4
<1>11. ASSUME NEW u \in 0..(plan[2] - 1)
       PROVE  /\ First(plan, u) <= cursor'[u]
              /\ cursor'[u] <= First(plan, u) + Size1(plan)
              /\ \A r \in 0..(plan[1] - 1) : First(plan, u) <= r /\ r < cursor'[u] =>
                   dset'[r] = generateDatasetItem(cached, r)
  <2>1. /\ First(plan, u) <= cursor[u]
        /\ cursor[u] <= First(plan, u) + Size1(plan)
        /\ \A r \in 0..(plan[1] - 1) : First(plan, u) <= r /\ r < cursor[u] =>
             dset[r] = generateDatasetItem(cached, r)
    BY <1>1 DEF Written
  <2>2. \A r \in 0..(plan[1] - 1) : First(plan, u) <= r /\ r < cursor[u] =>
          dset'[r] = generateDatasetItem(cached, r)
    BY <1>8, <2>1
  <2>3. CASE u # t BY <1>10, <2>1, <2>2, <2>3
  <2>4. CASE u = t
    <3>1. cursor[u] = r0 /\ cursor'[u] = r0 + 1 BY <1>10, <2>4 DEF r0
    <3>2. \A r \in 0..(plan[1] - 1) : r < r0 + 1 => r < r0 \/ r = r0 BY <1>4
    <3>3. \A r \in 0..(plan[1] - 1) : First(plan, u) <= r /\ r < cursor'[u] =>
            dset'[r] = generateDatasetItem(cached, r)
      BY <1>8, <2>2, <3>1, <3>2
    <3>4. First(plan, u) <= r0 + 1 BY <1>4, <2>1, <2>4, <3>1
    <3> QED BY <1>5, <2>4, <3>1, <3>3, <3>4
  <2> QED BY <2>3, <2>4
<1>12. Written(plan, cached, dset', cursor')
  <2>1. plan \in Nat \X (Nat \ {0}) /\ plan[1] % 2 = 0 BY <1>1, PlanIs
  <2> QED BY <1>8, <1>9, <1>10, <1>11, <2>1 DEF Written
<1> QED BY <1>1, <1>3, <1>12 DEF DsetInv

\* Every step keeps the invariant.
LEMMA DsetStep == ASSUME DsetInv, [DsetNext]_dsetVars PROVE DsetInv'
<1>1. ASSUME NEW t \in DOMAIN cursor, WriteRow(t) PROVE DsetInv'
  BY <1>1, WriteKeeps
<1>2. CASE UNCHANGED dsetVars BY <1>2 DEF dsetVars, DsetInv
<1> QED BY <1>1, <1>2 DEF DsetNext

\* The invariant holds in every reachable state.
THEOREM DsetInvariance == DsetSpec => []DsetInv
<1>1. DsetInit => DsetInv BY DsetInitInv
<1>2. DsetInv /\ [DsetNext]_dsetVars => DsetInv' BY DsetStep
<1> QED BY <1>1, <1>2, PTL DEF DsetSpec

\* What the threads have written are rows.
LEMMA RowsFollow == ASSUME DsetInv PROVE AlgorithmTypeOK
<1>1. plan \in Datasets /\ cached \in Caches /\ Written(plan, cached, dset, cursor)
  BY DEF DsetInv
<1>2. ASSUME NEW r \in DOMAIN dset PROVE dset[r] = <<>> \/ dset[r] \in Rows
  <2>1. r \in 0..(plan[1] - 1) BY <1>1 DEF Written
  <2>2. r \in Nat BY <2>1
  <2>3. generateDatasetItem(cached, r) \in Rows BY <1>1, <2>2, ItemIs
  <2> QED BY <1>1, <2>1, <2>3 DEF Written
<1>3. ASSUME NEW t \in DOMAIN cursor
      PROVE  cursor[t] \in 0..(plan[2] * Size1(plan))
  <2>1. t \in 0..(plan[2] - 1) /\ cursor[t] \in Nat BY <1>1 DEF Written
  <2>2. cursor[t] <= First(plan, t) + Size1(plan) BY <1>1, <2>1 DEF Written
  <2>3. /\ First(plan, t) \in Nat /\ Size1(plan) \in Nat
        /\ plan[2] * Size1(plan) \in Nat
        /\ First(plan, t) + Size1(plan) <= plan[2] * Size1(plan)
    BY <1>1, <2>1, PlanIs
  <2> DEFINE top == plan[2] * Size1(plan)
  <2> HIDE DEF top
  <2>4. cursor[t] <= top BY <2>1, <2>2, <2>3 DEF top
  <2> QED BY <2>1, <2>3, <2>4 DEF top
<1> QED BY <1>1, <1>2, <1>3 DEF AlgorithmTypeOK, Size1

\* The rows of a cache and of a dataset are rows of words.
THEOREM AlgorithmTypeCorrect == DsetSpec => []AlgorithmTypeOK
BY RowsFollow, DsetInvariance, PTL

\* An offset that does not wrap gives the row of its index.
LEMMA SliceIs ==
  ASSUME NEW d, NEW rows \in Nat, NEW r \in 0..(rows - 1), Addressable(rows)
  PROVE  Slice(d, rows, r) = d[r]
<1> DEFINE top == 2^OffsetBits
           offset == (r * HashWords) % top
           end == (offset + HashWords) % top
<1>1. HashWords \in Nat \ {0} /\ top \in Nat \ {0} BY AlgorithmAssumption
<1>2. rows * HashWords < top BY DEF Addressable
<1> HIDE DEF top
<1>3. /\ r * HashWords \in Nat /\ rows * HashWords \in Nat
      /\ r * HashWords + HashWords <= rows * HashWords
  <2>1. rows = (r + 1) + (rows - r - 1) /\ rows - r - 1 \in Nat OBVIOUS
  <2>2. rows * HashWords = (r + 1) * HashWords + (rows - r - 1) * HashWords
    BY <1>1, <2>1, SMT
  <2>3. (rows - r - 1) * HashWords \in Nat BY <1>1, <2>1, SMT
  <2>4. (r + 1) * HashWords = r * HashWords + HashWords BY <1>1, SMT
  <2> QED BY <1>1, <2>2, <2>3, <2>4, SMT
<1>4. offset = r * HashWords
  <2> DEFINE o == r * HashWords
  <2>1. o \in Nat /\ o < top BY <1>1, <1>2, <1>3
  <2> HIDE DEF o
  <2>2. o % top = o BY <1>1, <2>1
  <2> QED BY <2>2 DEF o
<1>5. end = r * HashWords + HashWords
  <2> DEFINE o == r * HashWords + HashWords
  <2>1. o \in Nat /\ o < top BY <1>1, <1>2, <1>3
  <2> HIDE DEF o
  <2>2. o % top = o BY <1>1, <2>1
  <2> QED BY <1>4, <2>2 DEF o
<1>6. (r * HashWords) \div HashWords = r BY <1>1, SMT
<1>7. offset < end /\ end <= rows * HashWords BY <1>1, <1>3, <1>4, <1>5
<1>8. Slice(d, rows, r) = IF offset < end /\ end <= rows * HashWords
                          THEN d[offset \div HashWords] ELSE <<>>
  BY DEF Slice, top
<1> HIDE DEF offset, end
<1> QED BY <1>4, <1>6, <1>7, <1>8

\* When no thread is left, every row has been written, and as long as offsets
\* are wide enough it is the row that a slice gives.
LEMMA FullIsLight == ASSUME DsetInv PROVE LightIsFull
<1> SUFFICES ASSUME DatasetDone
             PROVE  /\ \A r \in DOMAIN dset : dset[r] # <<>>
                    /\ Addressable(plan[1]) =>
                         \A h \in SealHashes, n \in SealNonces :
                           hashimotoFull(dset, plan[1], h, n)
                             = hashimotoLight(plan[1] \div 2, cached, h, n)
  BY DEF LightIsFull
<1>1. plan \in Datasets /\ cached \in Caches /\ Written(plan, cached, dset, cursor)
  BY DEF DsetInv
<1>2. /\ plan[1] \in Nat /\ plan[2] \in Nat \ {0} /\ Size1(plan) \in Nat
      /\ plan[1] <= plan[2] * Size1(plan) /\ plan[1] % 2 = 0
  BY <1>1, PlanIs
<1>3. ASSUME NEW r \in 0..(plan[1] - 1)
      PROVE  dset[r] = generateDatasetItem(cached, r) /\ dset[r] # <<>>
  <2>1. PICK t \in 0..(plan[2] - 1) : First(plan, t) <= r /\ r < First(plan, t) + Size1(plan)
    BY <1>2, RowInBatch DEF First
  <2>2. t \in DOMAIN cursor /\ cursor[t] \in Nat BY <1>1 DEF Written
  <2>3. cursor[t] >= Limit(plan, t)
    BY <2>2 DEF DatasetDone, BatchLimit, BatchStart, Limit, First, Size1
  <2>4. First(plan, t) \in Nat BY <1>1, PlanIs
  <2>5. r < cursor[t] BY <1>2, <2>1, <2>2, <2>3, <2>4 DEF Limit
  <2>6. dset[r] = generateDatasetItem(cached, r) BY <1>1, <2>1, <2>5 DEF Written
  <2>7. r \in Nat BY <1>2
  <2> QED BY <1>1, <2>6, <2>7, ItemIs, RowIs
<1>4. DOMAIN dset = 0..(plan[1] - 1) BY <1>1 DEF Written
<1>5. 2 * (plan[1] \div 2) = plan[1] BY <1>2
<1>6. ASSUME Addressable(plan[1]), NEW h, NEW n
      PROVE  hashimotoFull(dset, plan[1], h, n)
               = hashimotoLight(plan[1] \div 2, cached, h, n)
  <2>1. ASSUME NEW r \in 0..(2 * (plan[1] \div 2) - 1)
        PROVE  Slice(dset, plan[1], r) = generateDatasetItem(cached, r)
    <3>1. r \in 0..(plan[1] - 1) BY <1>5
    <3> QED BY <1>2, <1>3, <1>6, <3>1, SliceIs
  <2>2. [r \in 0..(2 * (plan[1] \div 2) - 1) |-> Slice(dset, plan[1], r)]
          = [r \in 0..(2 * (plan[1] \div 2) - 1) |->
               generateDatasetItem(cached, r)]
    BY <2>1, Zenon
  <2> QED BY <2>2, Zenon DEF hashimotoFull, hashimotoLight
<1> QED BY <1>3, <1>4, <1>6

\* When all threads are done every row of the dataset is the item that the
\* light client computes, so that, in a dataset whose words an offset can
\* number, hashimoto is given the same function.
THEOREM LightIsFullHolds == DsetSpec => []LightIsFull
BY FullIsLight, DsetInvariance, PTL

\* A set of numbers that is not empty has a least one.
LEMMA LeastNumber ==
  ASSUME NEW S, S \subseteq Nat, S # {}
  PROVE  \E i \in S : \A j \in 0..(i - 1) : j \notin S
<1> DEFINE R == OpToRel(<, Nat)
<1>1. IsWellFoundedOn(R, Nat) BY NatLessThanWellFounded, Zenon
<1>2. \A x, y \in Nat : x < y => <<x, y>> \in R BY DEF OpToRel
<1> HIDE DEF R
<1>3. PICK i \in S : \A y \in S : ~(<<y, i>> \in R) BY <1>1, WFMin
<1>4. ASSUME NEW j \in 0..(i - 1) PROVE j \notin S
  <2>1. j \in Nat /\ i \in Nat /\ j < i OBVIOUS
  <2> QED BY <1>2, <1>3, <2>1
<1> QED BY <1>4
-----------------------------------------------------------------------------
(***************************************************************************)
(* The search for a prime ends, at the first one on its way down, so that  *)
(* a prime in the part by which the threshold grows makes the size grow.   *)
(***************************************************************************)

\* The steps, from n down by two at a time, at which a prime is met.
Stops(n) == {i \in Nat : Prime(n - 2 * i)}

\* The step at which the search from step k ends.
EndsAt(n, k, i) ==
  i \in Stops(n) /\ k <= i /\ \A h \in k..(i - 1) : h \notin Stops(n)

\* What is below the square of two has no divisor that counts.
LEMMA SmallIsPrime == ASSUME NEW m \in Int, m < 4 PROVE Prime(m)
<1>1. ASSUME NEW d \in Divisors PROVE d * d > m \/ m % d # 0
  <2> DEFINE square == d * d
  <2>1. d \in Int /\ d >= 2 /\ square \in Int BY SMT DEF Divisors
  <2>2. square >= 2 * d BY <2>1, SMT
  <2> HIDE DEF square
  <2>3. square > m BY <2>1, <2>2, SMT
  <2> QED BY <2>3 DEF square
<1> QED BY <1>1, Zenon DEF Prime

\* It always ends, for all numbers below four pass for prime.
LEMMA SearchEnds ==
  ASSUME NEW n \in Int, NEW k \in Nat PROVE \E i : EndsAt(n, k, i)
<1> DEFINE j == k + (IF n < 0 THEN 0 ELSE n)
           later == {m \in Nat : k + m \in Stops(n)}
<1>1. j \in Nat /\ k <= j /\ n - 2 * j \in Int /\ n - 2 * j < 4 OBVIOUS
<1>2. j \in Stops(n) BY <1>1, SmallIsPrime DEF Stops
<1> HIDE DEF j
<1>3. j - k \in Nat /\ k + (j - k) = j BY <1>1
<1>4. j - k \in later BY <1>2, <1>3
<1>5. PICK m \in later : \A l \in 0..(m - 1) : l \notin later
  <2>1. later \subseteq Nat OBVIOUS
  <2> HIDE DEF later
  <2> QED BY <1>4, <2>1, LeastNumber
<1>6. ASSUME NEW h \in k..(k + m - 1) PROVE h \notin Stops(n)
  <2>1. h - k \in 0..(m - 1) /\ h - k \in Nat /\ k + (h - k) = h OBVIOUS
  <2> QED BY <1>5, <2>1
<1>7. EndsAt(n, k, k + m) BY <1>6 DEF EndsAt
<1> QED BY <1>7

\* Unless it ends at k itself, it ends where the search from k + 1 does; and
\* two ends are one.
LEMMA OneEnd ==
  ASSUME NEW n \in Int, NEW k \in Nat, NEW i, NEW j,
         EndsAt(n, k, i), EndsAt(n, k, j) \/ EndsAt(n, k + 1, j)
  PROVE  i = j \/ (i = k /\ k \in Stops(n))
<1> DEFINE S == Stops(n)
<1>1. S \subseteq Nat BY DEF Stops
<1>2. /\ i \in S /\ k <= i /\ \A h \in k..(i - 1) : h \notin S
      /\ j \in S /\ k <= j /\ \A h \in (k + 1)..(j - 1) : h \notin S
  BY <1>1 DEF EndsAt
<1> HIDE DEF S
<1>3. ~(j < i) BY <1>1, <1>2
<1>4. i < j => i = k BY <1>1, <1>2
<1>5. i = j \/ i = k BY <1>1, <1>2, <1>3, <1>4
<1> QED BY <1>2, <1>5 DEF S

\* PrimeBelow is defined by a recursion upwards; as the search ends, there is
\* a function that it defines, and it gives the end of the search.
LEMMA PrimeBelowIs ==
  ASSUME NEW n \in Int
  PROVE  \E i : PrimeBelow(n) = n - 2 * i /\ EndsAt(n, 0, i)
<1> DEFINE Solves(f) ==
             f = [k \in Nat |-> IF Prime(n - 2 * k) THEN n - 2 * k ELSE f[k + 1]]
           S == Stops(n)
           stop == [k \in Nat |-> CHOOSE i : EndsAt(n, k, i)]
           g == [k \in Nat |-> n - 2 * stop[k]]
           down == CHOOSE f : Solves(f)
<1>1. ASSUME NEW f
      PROVE  Solves(f) <=> f = [k \in Nat |-> IF k \in S THEN n - 2 * k
                                              ELSE f[k + 1]]
  <2>1. \A k \in Nat : Prime(n - 2 * k) <=> k \in S BY Zenon DEF Stops
  <2> HIDE DEF S
  <2>2. [k \in Nat |-> IF Prime(n - 2 * k) THEN n - 2 * k ELSE f[k + 1]]
          = [k \in Nat |-> IF k \in S THEN n - 2 * k ELSE f[k + 1]]
    BY <2>1
  <2> QED BY <2>2, Zenon
<1>2. ASSUME NEW k \in Nat PROVE EndsAt(n, k, stop[k])
  <2>1. EndsAt(n, k, CHOOSE i : EndsAt(n, k, i)) BY SearchEnds, Zenon
  <2> QED BY <2>1
<1> HIDE DEF stop
<1>3. Solves(g)
  <2>1. ASSUME NEW k \in Nat
        PROVE  n - 2 * stop[k] = IF k \in S THEN n - 2 * k ELSE g[k + 1]
    <3>1. k + 1 \in Nat /\ g[k + 1] = n - 2 * stop[k + 1] OBVIOUS
    <3>2. EndsAt(n, k, stop[k]) /\ EndsAt(n, k + 1, stop[k + 1])
      BY <1>2, <3>1
    <3>3. CASE k \in S
      <4>1. stop[k] \in Nat /\ k <= stop[k]
            /\ \A h \in k..(stop[k] - 1) : h \notin S
        BY <3>2 DEF EndsAt, Stops
      <4> HIDE DEF S
      <4>2. stop[k] = k BY <3>3, <4>1
      <4> QED BY <3>3, <4>2
    <3>4. CASE k \notin S
      <4>1. stop[k] = stop[k + 1] BY <3>2, <3>4, OneEnd
      <4> HIDE DEF S
      <4> QED BY <3>1, <3>4, <4>1
    <3> QED BY <3>3, <3>4
  <2>2. g = [k \in Nat |-> IF k \in S THEN n - 2 * k ELSE g[k + 1]]
    <3>1. [k \in Nat |-> n - 2 * stop[k]]
            = [k \in Nat |-> IF k \in S THEN n - 2 * k ELSE g[k + 1]]
      <4> HIDE DEF g, S
      <4> QED BY <2>1
    <3> QED BY <3>1
  <2> HIDE DEF g, S, Solves
  <2> QED BY <1>1, <2>2
<1>4. Solves(down)
  <2> HIDE DEF g, Solves
  <2> QED BY <1>3, Zenon
<1>5. PrimeBelow(n) = down[0] BY Zenon DEF PrimeBelow
<1> HIDE DEF g, down
<1>6. down = [k \in Nat |-> IF k \in S THEN n - 2 * k ELSE down[k + 1]]
  <2> HIDE DEF S, Solves
  <2> QED BY <1>1, <1>4
<1>7. PICK i : EndsAt(n, 0, i)
  <2>1. 0 \in Nat OBVIOUS
  <2> QED BY <2>1, SearchEnds
<1>8. i \in Nat /\ i \in S /\ \A h \in 0..(i - 1) : h \notin S
  BY <1>7 DEF EndsAt, Stops
<1> HIDE DEF S
<1> DEFINE wrong == {m \in 0..i : down[i - m] # n - 2 * i}
<1>9. wrong = {}
  <2> SUFFICES ASSUME wrong # {} PROVE FALSE OBVIOUS
  <2>1. wrong \subseteq Nat OBVIOUS
  <2>2. PICK m \in wrong : \A l \in 0..(m - 1) : l \notin wrong
    <3> HIDE DEF wrong
    <3> QED BY <2>1, LeastNumber
  <2>3. m \in 0..i /\ down[i - m] # n - 2 * i BY <2>2, Zenon
  <2>9. i - m \in Nat BY <1>8, <2>3
  <2>4. m # 0 BY <1>6, <1>8, <2>3, <2>9
  <2>5. /\ m - 1 \in 0..(m - 1) /\ m - 1 \in 0..i
        /\ i - (m - 1) = (i - m) + 1 /\ i - m \in 0..(i - 1)
    BY <1>8, <2>3, <2>4
  <2>6. down[i - (m - 1)] = n - 2 * i BY <2>2, <2>5
  <2>7. down[(i - m) + 1] = n - 2 * i BY <2>5, <2>6
  <2>8. i - m \notin S BY <1>8, <2>5
  <2> QED BY <1>6, <2>3, <2>7, <2>8, <2>9
<1>10. down[0] = n - 2 * i
  <2>1. i \in 0..i /\ i - i = 0 BY <1>8
  <2> QED BY <1>9, <2>1
<1> QED BY <1>5, <1>7, <1>10

\* It is at most n, and no less than a prime at an even distance below n.
LEMMA PrimeBelowBetween ==
  ASSUME NEW n \in Int
  PROVE  /\ PrimeBelow(n) \in Int /\ PrimeBelow(n) <= n
         /\ \A j \in Nat : Prime(n - 2 * j) => n - 2 * j <= PrimeBelow(n)
<1>1. PICK i : PrimeBelow(n) = n - 2 * i /\ EndsAt(n, 0, i) BY PrimeBelowIs
<1>2. i \in Nat /\ \A h \in 0..(i - 1) : h \notin Stops(n)
  BY <1>1 DEF EndsAt, Stops
<1>3. ASSUME NEW j \in Nat, Prime(n - 2 * j)
      PROVE  n - 2 * j <= PrimeBelow(n)
  <2>1. j \in Stops(n) BY <1>3 DEF Stops
  <2>2. ~(j < i) BY <1>2, <2>1
  <2> QED BY <1>1, <1>2, <2>2
<1>4. PrimeBelow(n) \in Int /\ PrimeBelow(n) <= n BY <1>1, <1>2
<1> QED BY <1>3, <1>4

\* The first block of an epoch, its last one and the next.
LEMMA EpochsAre ==
  ASSUME NEW e \in Nat
  PROVE  /\ EpochOf(30000 * e) = e /\ EpochOf(30000 * e + 29999) = e
         /\ EpochOf(30000 * (e + 1)) = e + 1
BY SMT DEF EpochOf

\* The sizes of an epoch: of the tables, or past them.
SizeIn(e)      == IF e < maxEpoch THEN datasetSizes(e) ELSE calcDatasetSize(e)
CacheSizeIn(e) == IF e < maxEpoch THEN cacheSizes(e) ELSE calcCacheSize(e)

\* When both sizes of the next epoch are larger, comparing sizes tells.
LEMMA LargerTells ==
  ASSUME NEW e \in Nat,
         SizeIn(e) < SizeIn(e + 1), CacheSizeIn(e) < CacheSizeIn(e + 1)
  PROVE  SizesDiffer(e)
<1>1. \A b : /\ datasetSize(b) = SizeIn(EpochOf(b))
             /\ cacheSize(b) = CacheSizeIn(EpochOf(b))
  BY DEF datasetSize, cacheSize, SizeIn, CacheSizeIn
<1> DEFINE first == 30000 * e
           last == 30000 * e + 29999
           next == 30000 * (e + 1)
<1>2. EpochOf(first) = e /\ EpochOf(last) = e /\ EpochOf(next) = e + 1
  BY EpochsAre
<1> HIDE DEF first, last, next
<1>3. /\ datasetSize(first) = SizeIn(e) /\ cacheSize(first) = CacheSizeIn(e)
      /\ datasetSize(last) = SizeIn(e) /\ cacheSize(last) = CacheSizeIn(e)
      /\ datasetSize(next) = SizeIn(e + 1) /\ cacheSize(next) = CacheSizeIn(e + 1)
  BY <1>1, <1>2, Zenon
<1>4. /\ datasetSize(last) < datasetSize(next)
      /\ datasetSize(first) = datasetSize(last)
      /\ cacheSize(last) < cacheSize(next)
  BY <1>3, Zenon
<1> QED BY <1>4, SMT DEF SizesDiffer, first, last, next

\* The thresholds of an epoch grow by a step that no entry of the tables is
\* below its threshold.
LEMMA ThresholdsAre ==
  ASSUME NEW e \in Nat
  PROVE  /\ DatasetThreshold(e) = 8388607 + 65536 * e
         /\ CacheThreshold(e) = 262143 + 2048 * e
BY SMT, TablesAssumption DEF DatasetThreshold, CacheThreshold

\* What an entry of the tables is between.
LEMMA EntriesAre ==
  ASSUME NEW e \in 0..(maxEpoch - 1)
  PROVE  /\ SizeIn(e) \in Int /\ CacheSizeIn(e) \in Int
         /\ SizeIn(e) <= DatasetThreshold(e)
         /\ SizeIn(e) >= DatasetThreshold(e) - 198
         /\ CacheSizeIn(e) <= CacheThreshold(e)
         /\ CacheSizeIn(e) >= CacheThreshold(e) - 198
<1> DEFINE g == datasetGaps[e + 1]
           h == cacheGaps[e + 1]
<1>1. e \in Nat /\ e < maxEpoch /\ e + 1 \in 1..maxEpoch BY SMT DEF maxEpoch
<1>2. g \in 0..99 /\ h \in 0..99
  <2> DEFINE i == e + 1
  <2>1. i \in 1..maxEpoch BY <1>1
  <2> HIDE DEF i
  <2>2. datasetGaps[i] \in 0..99 /\ cacheGaps[i] \in 0..99
    BY <2>1, TablesAssumption, SMT
  <2> QED BY <2>2 DEF i
<1>3. /\ SizeIn(e) = DatasetThreshold(e) - 2 * g
      /\ CacheSizeIn(e) = CacheThreshold(e) - 2 * h
  BY <1>1, Zenon DEF SizeIn, CacheSizeIn, datasetSizes, cacheSizes
<1> HIDE DEF g, h
<1>4. DatasetThreshold(e) \in Int /\ CacheThreshold(e) \in Int
  BY <1>1, ThresholdsAre, SMT
<1> QED BY <1>2, <1>3, <1>4, SMT

\* In the tables each entry is above the threshold of the epoch before.
LEMMA TablesTell == \A e \in 0..(maxEpoch - 2) : SizesDiffer(e)
<1> TAKE e \in 0..(maxEpoch - 2)
<1>1. /\ e \in Nat /\ e + 1 \in Nat
      /\ e \in 0..(maxEpoch - 1) /\ e + 1 \in 0..(maxEpoch - 1)
  BY SMT DEF maxEpoch
<1>2. /\ DatasetThreshold(e) = 8388607 + 65536 * e
      /\ CacheThreshold(e) = 262143 + 2048 * e
      /\ DatasetThreshold(e + 1) = 8388607 + 65536 * (e + 1)
      /\ CacheThreshold(e + 1) = 262143 + 2048 * (e + 1)
  BY <1>1, ThresholdsAre
<1>3. /\ SizeIn(e) \in Int /\ SizeIn(e + 1) \in Int
      /\ CacheSizeIn(e) \in Int /\ CacheSizeIn(e + 1) \in Int
      /\ SizeIn(e) <= DatasetThreshold(e)
      /\ SizeIn(e + 1) >= DatasetThreshold(e + 1) - 198
      /\ CacheSizeIn(e) <= CacheThreshold(e)
      /\ CacheSizeIn(e + 1) >= CacheThreshold(e + 1) - 198
  BY <1>1, EntriesAre, Zenon
<1>4. SizeIn(e) < SizeIn(e + 1) BY <1>1, <1>2, <1>3, SMT
<1>5. CacheSizeIn(e) < CacheSizeIn(e + 1) BY <1>1, <1>2, <1>3, SMT
<1> QED BY <1>1, <1>4, <1>5, LargerTells

\* Past the tables the search ends no lower than a prime that it can meet, and
\* no higher than where it begins.
LEMMA SearchedAre ==
  ASSUME NEW e \in Nat, e >= maxEpoch
  PROVE  /\ SizeIn(e) \in Int /\ CacheSizeIn(e) \in Int
         /\ SizeIn(e) <= DatasetThreshold(e)
         /\ CacheSizeIn(e) <= CacheThreshold(e)
         /\ \A p \in Int : /\ Prime(p) /\ p <= DatasetThreshold(e)
                           /\ (DatasetThreshold(e) - p) % 2 = 0
                           => p <= SizeIn(e)
         /\ \A p \in Int : /\ Prime(p) /\ p <= CacheThreshold(e)
                           /\ (CacheThreshold(e) - p) % 2 = 0
                           => p <= CacheSizeIn(e)
<1>1. ASSUME NEW n \in Int, NEW p \in Int, Prime(p), p <= n, (n - p) % 2 = 0
      PROVE  p <= PrimeBelow(n)
  <2> DEFINE j == (n - p) \div 2
  <2>1. j \in Nat /\ p = n - 2 * j BY <1>1, SMT
  <2> HIDE DEF j
  <2>2. Prime(n - 2 * j) BY <1>1, <2>1, Zenon
  <2> QED BY <2>1, <2>2, PrimeBelowBetween
<1>2. DatasetThreshold(e) \in Int /\ CacheThreshold(e) \in Int
  BY ThresholdsAre, SMT
<1>3. ~(e < maxEpoch) BY SMT DEF maxEpoch
<1>4. /\ SizeIn(e) = PrimeBelow(DatasetThreshold(e))
      /\ CacheSizeIn(e) = PrimeBelow(CacheThreshold(e))
  BY <1>3, Zenon DEF SizeIn, CacheSizeIn, calcDatasetSize, calcCacheSize
<1> QED BY <1>1, <1>2, <1>4, PrimeBelowBetween

\* The two sizes after the tables, at least.
LEMMA PastTables ==
  /\ SizeIn(2048) >= 142606333 /\ CacheSizeIn(2048) >= 4456433
  /\ SizeIn(2049) >= 142671833 /\ CacheSizeIn(2049) >= 4458491
<1>1. /\ Prime(142606333) /\ Prime(142671833)
      /\ Prime(4456433) /\ Prime(4458491)
  BY PrimesAssumption, SMT DEF DatasetPrimes, CachePrimes
<1>2. /\ 2048 \in Nat /\ 2048 >= maxEpoch /\ 2049 \in Nat /\ 2049 >= maxEpoch
      /\ 142606333 \in Int /\ 142671833 \in Int
      /\ 4456433 \in Int /\ 4458491 \in Int
  BY SMT DEF maxEpoch
<1>3. /\ DatasetThreshold(2048) = 142606335 /\ CacheThreshold(2048) = 4456447
      /\ DatasetThreshold(2049) = 142671871 /\ CacheThreshold(2049) = 4458495
  BY <1>2, ThresholdsAre, SMT
<1>4. SizeIn(2048) >= 142606333
  <2>1. 142606333 <= 142606335 /\ (142606335 - 142606333) % 2 = 0 BY SMT
  <2>2. 142606333 <= SizeIn(2048) BY <1>1, <1>2, <1>3, <2>1, SearchedAre, SMT
  <2> QED BY <1>2, <2>2, SearchedAre, SMT
<1>5. CacheSizeIn(2048) >= 4456433
  <2>1. 4456433 <= 4456447 /\ (4456447 - 4456433) % 2 = 0 BY SMT
  <2>2. 4456433 <= CacheSizeIn(2048) BY <1>1, <1>2, <1>3, <2>1, SearchedAre, SMT
  <2> QED BY <1>2, <2>2, SearchedAre, SMT
<1>6. SizeIn(2049) >= 142671833
  <2>1. 142671833 <= 142671871 /\ (142671871 - 142671833) % 2 = 0 BY SMT
  <2>2. 142671833 <= SizeIn(2049) BY <1>1, <1>2, <1>3, <2>1, SearchedAre, SMT
  <2> QED BY <1>2, <2>2, SearchedAre, SMT
<1>7. CacheSizeIn(2049) >= 4458491
  <2>1. 4458491 <= 4458495 /\ (4458495 - 4458491) % 2 = 0 BY SMT
  <2>2. 4458491 <= CacheSizeIn(2049) BY <1>1, <1>2, <1>3, <2>1, SearchedAre, SMT
  <2> QED BY <1>2, <2>2, SearchedAre, SMT
<1> QED BY <1>4, <1>5, <1>6, <1>7, SMT

\* Where the search takes over from the tables, and once after: the prime that
\* it finds is above the threshold of the epoch before.
LEMMA SeamTells == SizesDiffer(2047) /\ SizesDiffer(2048)
<1>1. /\ 2047 \in Nat /\ 2048 \in Nat /\ 2049 \in Nat
      /\ 2047 + 1 = 2048 /\ 2048 + 1 = 2049
      /\ 2047 \in 0..(maxEpoch - 1) /\ 2048 >= maxEpoch /\ 2049 >= maxEpoch
  BY SMT DEF maxEpoch
<1>2. /\ DatasetThreshold(2047) = 142540799 /\ CacheThreshold(2047) = 4454399
      /\ DatasetThreshold(2048) = 142606335 /\ CacheThreshold(2048) = 4456447
  BY <1>1, ThresholdsAre, SMT
<1>3. /\ SizeIn(2047) \in Int /\ SizeIn(2047) <= 142540799
      /\ CacheSizeIn(2047) \in Int /\ CacheSizeIn(2047) <= 4454399
  BY <1>1, <1>2, EntriesAre, SMT
<1>4. /\ SizeIn(2048) \in Int /\ SizeIn(2048) <= 142606335
      /\ CacheSizeIn(2048) \in Int /\ CacheSizeIn(2048) <= 4456447
      /\ SizeIn(2049) \in Int /\ CacheSizeIn(2049) \in Int
  BY <1>1, <1>2, SearchedAre, SMT
<1>5. SizeIn(2047) < SizeIn(2048) /\ CacheSizeIn(2047) < CacheSizeIn(2048)
  BY <1>3, <1>4, PastTables, SMT
<1>6. SizeIn(2048) < SizeIn(2049) /\ CacheSizeIn(2048) < CacheSizeIn(2049)
  BY <1>4, PastTables, SMT
<1>7. SizesDiffer(2047) BY <1>1, <1>5, LargerTells, SMT
<1>8. SizesDiffer(2048) BY <1>1, <1>6, LargerTells, SMT
<1> QED BY <1>7, <1>8

\* All the epochs of the tables and the one after them.
LEMMA SizesTell == \A e \in 0..maxEpoch : SizesDiffer(e)
<1> TAKE e \in 0..maxEpoch
<1>1. e \in 0..(maxEpoch - 2) \/ e = 2047 \/ e = 2048 BY SMT DEF maxEpoch
<1> QED BY <1>1, TablesTell, SeamTells, SMT

\* CmpDagSize, which compares the sizes of two datasets, tells two epochs
\* apart: all those of the tables, and where the search for a prime takes over
\* from them.
THEOREM SizeTellsEpochHolds == DsetSpec => []SizeTellsEpoch
<1>1. SizeTellsEpoch BY SizesTell, Zenon DEF SizeTellsEpoch
<1>2. [](SizeTellsEpoch) BY <1>1, PTL
<1> QED BY <1>2
==============================================================================
