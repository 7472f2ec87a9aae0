--------------------------- MODULE InventoryProofs ---------------------------
(***************************************************************************)
(* Proofs about what a character carries, for any number of slots and      *)
(* objects, any stacks, and any number of requests.                        *)
(***************************************************************************)
EXTENDS Inventory, NumberLemmas, FiniteSetTheorems, TLAPS

-----------------------------------------------------------------------------
(* Sums over the objects. *)

\* Where two functions differ in one object, their sums differ as that does.
LEMMA SumChange ==
    ASSUME NEW f \in [Objects -> Nat], NEW g \in [Objects -> Nat], NEW x \in Objects,
           \A o \in Objects \ {x} : g[o] = f[o]
    PROVE  SumOf(f) \in Nat /\ SumOf(g) \in Nat /\ SumOf(g) = SumOf(f) - f[x] + g[x]
<1> DEFINE a == f
           b == g
<1>0. LastObject \in Nat /\ Objects = 1 .. LastObject /\ x \in 1 .. LastObject
  BY InventoryAssumption DEF Objects
<1>1. \A o \in 1 .. LastObject : a[o] \in Nat /\ b[o] \in Nat /\ (o # x => b[o] = a[o])
  BY <1>0
<1> HIDE DEF a, b
<1>2. SumTo(b, LastObject) = SumTo(a, LastObject) - a[x] + b[x]
  <2>1. \A n \in Nat : \A o \in 1 .. n :
          (\A i \in 1 .. n : a[i] \in Nat /\ b[i] \in Nat /\ (i # o => b[i] = a[i]))
            => SumTo(b, n) = SumTo(a, n) - a[o] + b[o]
    BY SumChanges
  <2> QED BY <1>0, <1>1, <2>1
<1>3. SumTo(a, LastObject) \in Nat /\ SumTo(b, LastObject) \in Nat
  BY <1>0, <1>1, SumIsNat
<1> QED BY <1>2, <1>3 DEF SumOf, a, b

\* A sum of smaller numbers is smaller.
LEMMA SumAtMost ==
    ASSUME NEW f \in [Objects -> Nat], NEW g \in [Objects -> Nat],
           \A o \in Objects : g[o] <= f[o]
    PROVE  SumOf(g) <= SumOf(f) /\ SumOf(f) \in Nat /\ SumOf(g) \in Nat
<1>0. LastObject \in Nat /\ Objects = 1 .. LastObject
  BY InventoryAssumption DEF Objects
<1>1. \A o \in 1 .. LastObject : f[o] \in Nat /\ g[o] \in Nat /\ g[o] <= f[o]
  BY <1>0
<1>2. SumTo(g, LastObject) <= SumTo(f, LastObject)
  BY <1>0, <1>1, SumOfSmaller
<1>3. SumTo(f, LastObject) \in Nat /\ SumTo(g, LastObject) \in Nat
  BY <1>0, <1>1, SumIsNat
<1> QED BY <1>2, <1>3 DEF SumOf

-----------------------------------------------------------------------------
(* Inventories. *)

\* What the numbers of slots and objects are.
LEMMA Numbers ==
  /\ LastObject \in Nat /\ Objects = 1 .. LastObject /\ 0 \notin Objects /\ Objects \subseteq Nat
  /\ Slots \subseteq Nat /\ 0 \notin Slots /\ Nobody = 0
  /\ Bags = Slots /\ Slots \subseteq Kinds /\ {Food, Trash, Cloth} \subseteq Kinds
  /\ Food \notin Bags /\ Trash \notin Bags /\ Cloth \notin Bags
  /\ MaxStack \in Nat \ {0} /\ MaxCount \in Nat \ {0} /\ MaxStack <= MaxCount
  /\ MaxBulk \in Nat /\ BagBulk \in Nat
BY InventoryAssumption DEF Objects, Slots, Bags, Kinds, Nobody

\* The fields of an inventory.
LEMMA Fields ==
    ASSUME NEW v \in Inventories
    PROVE  /\ v.heap \in [Objects -> ItemType]
           /\ v.loadout \in [Slots -> {0} \cup Objects]
           /\ v.open \in SUBSET Slots
           /\ v.containers \in [Slots -> Seq(Objects)]
           /\ v.ground \in [Objects -> Nat]
BY DEF Inventories, Nobody

\* An item is what its fields say.
LEMMA ItemFields ==
    ASSUME NEW m \in ItemType
    PROVE  /\ m.guid \in 0 .. (LastObject + 1) /\ m.kind \in Kinds
           /\ m.count \in 0 .. MaxCount /\ m.slot \in {0} \cup Slots
BY DEF ItemType

\* Who is held.
LEMMA HeldMeans ==
    ASSUME NEW v \in Inventories, NEW o
    PROVE  o \in Held(v) <=> \E s \in Slots : \E i \in DOMAIN v.containers[s] : v.containers[s][i] = o
BY DEF Held, Range

\* Who is worn.
LEMMA WornMeans ==
    ASSUME NEW v \in Inventories, NEW o \in Objects
    PROVE  o \in Worn(v) <=> \E s \in Slots : v.loadout[s] = o
BY Numbers DEF Worn

\* Positions in a container are numbers, and what is there are objects.
LEMMA ContainerIs ==
    ASSUME NEW v \in Inventories, NEW s \in Slots
    PROVE  /\ v.containers[s] \in Seq(Objects) /\ Len(v.containers[s]) \in Nat
           /\ DOMAIN v.containers[s] = 1 .. Len(v.containers[s])
           /\ \A i \in DOMAIN v.containers[s] : v.containers[s][i] \in Objects
<1>1. v.containers[s] \in Seq(Objects)
  BY Fields
<1> QED BY <1>1

\* A new object is one that nothing refers to.
LEMMA NewObjectIs ==
    ASSUME NEW v \in Inventories, FreeObjects(v) # {}
    PROVE  NewObject(v) \in Objects /\ v.heap[NewObject(v)].guid = 0
<1>1. FreeObjects(v) \in SUBSET Nat
  BY Numbers DEF FreeObjects
<1>2. NewObject(v) \in FreeObjects(v)
  BY <1>1, MinIn DEF NewObject
<1> QED BY <1>2 DEF FreeObjects

\* A new guid is one that no object has: there is one more of them than objects.
LEMMA NewGuidIs ==
    ASSUME NEW v \in Inventories
    PROVE  /\ NewGuid(v) \in 1 .. (LastObject + 1)
           /\ \A o \in Objects : v.heap[o].guid # NewGuid(v)
<1> DEFINE G == {v.heap[o].guid : o \in Objects}
           U == 1 .. (LastObject + 1)
<1>1. U \ G # {}
  <2> SUFFICES ASSUME U \subseteq G PROVE FALSE
    OBVIOUS
  <2>1. IsFiniteSet(Objects) /\ Cardinality(Objects) = LastObject
    BY Numbers, FS_Interval
  <2>2. IsFiniteSet(U) /\ Cardinality(U) = LastObject + 1
    BY Numbers, FS_Interval
  <2> DEFINE f == [g \in U |-> CHOOSE o \in Objects : v.heap[o].guid = g]
  <2>3. \A g \in U : f[g] \in Objects /\ v.heap[f[g]].guid = g
    OBVIOUS
  <2>4. f \in [U -> Objects]
    BY <2>3
  <2> HIDE DEF f, U
  <2>5. PICK x, y \in U : x # y /\ f[x] = f[y]
    <3>1. Cardinality(Objects) < Cardinality(U)
      BY <2>1, <2>2, Numbers
    <3> QED BY <2>1, <2>2, <2>4, <3>1, FS_PigeonHole
  <2> QED BY <2>3, <2>5
<1>2. U \ G \in SUBSET Nat
  BY Numbers
<1>3. NewGuid(v) \in U \ G
  BY <1>1, <1>2, MinIn DEF NewGuid
<1> QED BY <1>3

\* There is room for so many new objects.
Room(v, k) == Cardinality(FreeObjects(v)) >= k

\* Where there is room there is a new object.
LEMMA RoomMeans ==
    ASSUME NEW v \in Inventories, NEW k \in Nat \ {0}, Room(v, k)
    PROVE  FreeObjects(v) # {}
BY FS_EmptySet DEF Room

\* What takes one object leaves room for one less.
LEMMA RoomLeft ==
    ASSUME NEW v \in Inventories, NEW w \in Inventories, NEW k \in Nat, Room(v, k + 1),
           NEW n \in Objects,
           \A o \in Objects \ {n} : v.heap[o].guid = 0 => w.heap[o].guid = 0
    PROVE  Room(w, k)
<1>1. IsFiniteSet(Objects)
  BY Numbers, FS_Interval
<1>2. IsFiniteSet(FreeObjects(v)) /\ IsFiniteSet(FreeObjects(w))
  BY <1>1, FS_Subset DEF FreeObjects
<1>3. FreeObjects(v) \ {n} \subseteq FreeObjects(w)
  BY DEF FreeObjects
<1>4. /\ Cardinality(FreeObjects(v)) \in Nat /\ Cardinality(FreeObjects(w)) \in Nat
      /\ Cardinality(FreeObjects(v) \ {n}) >= Cardinality(FreeObjects(v)) - 1
      /\ Cardinality(FreeObjects(v) \ {n}) \in Nat
      /\ Cardinality(FreeObjects(v) \ {n}) <= Cardinality(FreeObjects(w))
  BY <1>2, <1>3, FS_RemoveElement, FS_CardinalityType, FS_Subset
<1> QED BY <1>4 DEF Room

-----------------------------------------------------------------------------
(* What is true of every inventory, after whatever lapses. *)

\* A count that an item in use has, as long as no request was miscounted.
Fair(l, kind, count) ==
    "miscount" \notin l => count > 0 /\ (kind \in Bags => count = 1)

\* What objects in use are like after these lapses.
Proper(l, v) ==
    \A o \in Objects : v.heap[o].guid # 0 =>
        /\ Fair(l, v.heap[o].kind, v.heap[o].count)
        /\ v.heap[o].slot # 0 => v.heap[o].kind = v.heap[o].slot

\* What is referred to is in use.
Named(v) ==
    /\ \A s \in Slots : \A i \in DOMAIN v.containers[s] : v.heap[v.containers[s][i]].guid # 0
    /\ \A o \in Objects : v.ground[o] > 0 => v.heap[o].guid # 0

\* Containers and loadout hold copies of their own.
Apart(v) ==
    \A s, t \in Slots : \A i \in DOMAIN v.containers[s] :
        /\ v.containers[s][i] # v.loadout[t]
        /\ \A j \in DOMAIN v.containers[t] : v.containers[s][i] = v.containers[t][j] => s = t

\* A container keeps its items by guid.
Keyed(v) ==
    \A s \in Slots : \A i, j \in DOMAIN v.containers[s] :
        v.heap[v.containers[s][i]].guid = v.heap[v.containers[s][j]].guid => i = j

\* A bag is worn in the slot it is for, and its container is open.
Fitted(v) ==
    \A s \in Slots :
        IF s \in v.open
        THEN /\ v.loadout[s] # 0
             /\ v.heap[v.loadout[s]].guid # 0 /\ v.heap[v.loadout[s]].slot = s
        ELSE v.loadout[s] = 0 /\ v.containers[s] = <<>>

\* An inventory as the operations find it and leave it.
Sound(l, v) == v \in Inventories /\ Proper(l, v) /\ Named(v) /\ Apart(v) /\ Keyed(v) /\ Fitted(v)

\* An object in use stays the item it is.
Kept(v, w) ==
    \A o \in Objects : v.heap[o].guid # 0 =>
        /\ w.heap[o].guid = v.heap[o].guid /\ w.heap[o].kind = v.heap[o].kind
        /\ w.heap[o].slot = v.heap[o].slot

-----------------------------------------------------------------------------
(* What the operations do to the fields of an inventory. *)

\* Other objects.
LEMMA HeapSet ==
    ASSUME NEW v \in Inventories, NEW h \in [Objects -> ItemType]
    PROVE  LET w == [v EXCEPT !.heap = h] IN
           /\ w \in Inventories /\ w.heap = h
           /\ w.loadout = v.loadout /\ w.open = v.open
           /\ w.containers = v.containers /\ w.ground = v.ground
BY DEF Inventories

\* Other containers.
LEMMA ContainersSet ==
    ASSUME NEW v \in Inventories, NEW c \in [Slots -> Seq(Objects)]
    PROVE  LET w == [v EXCEPT !.containers = c] IN
           /\ w \in Inventories /\ w.containers = c
           /\ w.heap = v.heap /\ w.loadout = v.loadout /\ w.open = v.open
           /\ w.ground = v.ground
BY DEF Inventories

\* Other entities on the ground.
LEMMA GroundSet ==
    ASSUME NEW v \in Inventories, NEW g \in [Objects -> Nat]
    PROVE  LET w == [v EXCEPT !.ground = g] IN
           /\ w \in Inventories /\ w.ground = g
           /\ w.heap = v.heap /\ w.loadout = v.loadout /\ w.open = v.open
           /\ w.containers = v.containers
BY DEF Inventories

\* A new object nobody refers to yet changes nothing else.
LEMMA AllocIs ==
    ASSUME NEW v \in Inventories, NEW item \in ItemType, FreeObjects(v) # {}
    PROVE  LET w == Alloc(v, item) IN
           /\ w \in Inventories
           /\ w.heap = [v.heap EXCEPT ![NewObject(v)] = item]
           /\ w.loadout = v.loadout /\ w.open = v.open
           /\ w.containers = v.containers /\ w.ground = v.ground
<1> DEFINE h == [v.heap EXCEPT ![NewObject(v)] = item]
<1>1. h \in [Objects -> ItemType]
  BY Fields, NewObjectIs
<1>2. Alloc(v, item) = [v EXCEPT !.heap = h]
  BY DEF Alloc
<1> HIDE DEF h
<1>3. LET w == [v EXCEPT !.heap = h] IN
      /\ w \in Inventories /\ w.heap = h
      /\ w.loadout = v.loadout /\ w.open = v.open
      /\ w.containers = v.containers /\ w.ground = v.ground
  BY <1>1, HeapSet
<1> QED BY <1>2, <1>3 DEF h

\* A copy of an item.
LEMMA CopyIs ==
    ASSUME NEW m \in ItemType, NEW count \in 0 .. MaxCount, NEW s \in {0} \cup Slots
    PROVE  LET copy == [m EXCEPT !.count = count, !.slot = s] IN
           /\ copy \in ItemType
           /\ copy.guid = m.guid /\ copy.kind = m.kind /\ copy.count = count /\ copy.slot = s
BY DEF ItemType

\* An item whose count is another.
LEMMA CountIs ==
    ASSUME NEW m \in ItemType, NEW count \in 0 .. MaxCount
    PROVE  LET copy == [m EXCEPT !.count = count] IN
           /\ copy \in ItemType
           /\ copy.guid = m.guid /\ copy.kind = m.kind /\ copy.count = count /\ copy.slot = m.slot
BY DEF ItemType

\* From v to w, a copy of o was put into container s, at its end or in the
\* place of the item with its guid.
Filed(v, w, o, s, count) ==
    LET n == NewObject(v)
        c == v.containers[s]
        d == w.containers[s]
    IN  /\ w \in Inventories
        /\ \A p \in Objects \ {n} : w.heap[p] = v.heap[p]
        /\ w.heap[n].guid = v.heap[o].guid /\ w.heap[n].kind = v.heap[o].kind
        /\ w.heap[n].count = count /\ w.heap[n].slot = 0
        /\ w.loadout = v.loadout /\ w.open = v.open /\ w.ground = v.ground
        /\ \A t \in Slots \ {s} : w.containers[t] = v.containers[t]
        /\ \E m \in DOMAIN d :
             /\ d[m] = n
             /\ \A i \in DOMAIN d \ {m} :
                   i \in DOMAIN c /\ d[i] = c[i] /\ v.heap[c[i]].guid # v.heap[o].guid
             /\ \A i \in DOMAIN c : i \in DOMAIN d
             /\ \A i \in DOMAIN c : i = m => v.heap[c[i]].guid = v.heap[o].guid

\* addContainerItem
LEMMA AddContainerItemIs ==
    ASSUME NEW v \in Inventories, Keyed(v), FreeObjects(v) # {},
           NEW o \in Objects, NEW s \in Slots, NEW count \in 0 .. MaxCount
    PROVE  Filed(v, AddContainerItem(v, o, s, count), o, s, count)
<1> DEFINE n == NewObject(v)
           c == v.containers[s]
           copy == [v.heap[o] EXCEPT !.count = count, !.slot = 0]
           here == Positions(v, s, v.heap[o].guid)
           e == IF here = {} THEN Append(c, n) ELSE [c EXCEPT ![Min(here)] = n]
           a == Alloc(v, copy)
           cs == [v.containers EXCEPT ![s] = e]
<1>1. /\ copy \in ItemType
      /\ copy.guid = v.heap[o].guid /\ copy.kind = v.heap[o].kind
      /\ copy.count = count /\ copy.slot = 0
  <2>1. v.heap[o] \in ItemType /\ count \in 0 .. MaxCount /\ 0 \in {0} \cup Slots
    BY Fields, Numbers
  <2> QED BY <2>1 DEF ItemType
<1>2. /\ a \in Inventories
      /\ a.heap = [v.heap EXCEPT ![n] = copy]
      /\ a.loadout = v.loadout /\ a.open = v.open
      /\ a.containers = v.containers /\ a.ground = v.ground
  <2> HIDE DEF copy
  <2> QED BY <1>1, AllocIs
<1>3. c \in Seq(Objects) /\ n \in Objects /\ Len(c) \in Nat /\ DOMAIN c = 1 .. Len(c)
  BY ContainerIs, NewObjectIs
<1>4. /\ e \in Seq(Objects)
      /\ \E m \in DOMAIN e :
           /\ e[m] = n
           /\ \A i \in DOMAIN e \ {m} :
                 i \in DOMAIN c /\ e[i] = c[i] /\ v.heap[c[i]].guid # v.heap[o].guid
           /\ \A i \in DOMAIN c : i \in DOMAIN e
           /\ \A i \in DOMAIN c : i = m => v.heap[c[i]].guid = v.heap[o].guid
  <2>1. CASE here = {}
    <3>1. e = Append(c, n) /\ \A i \in DOMAIN c : v.heap[c[i]].guid # v.heap[o].guid
      BY <2>1 DEF Positions
    <3>2. /\ e \in Seq(Objects) /\ DOMAIN e = 1 .. Len(c) + 1
          /\ e[Len(c) + 1] = n /\ \A i \in 1 .. Len(c) : e[i] = c[i]
      <4>1. \A q \in Seq(Objects), x \in Objects :
              /\ Append(q, x) \in Seq(Objects) /\ Len(Append(q, x)) = Len(q) + 1
              /\ Append(q, x)[Len(q) + 1] = x
              /\ \A i \in 1 .. Len(q) : Append(q, x)[i] = q[i]
        OBVIOUS
      <4>2. /\ Append(c, n) \in Seq(Objects) /\ Len(Append(c, n)) = Len(c) + 1
            /\ Append(c, n)[Len(c) + 1] = n
            /\ \A i \in 1 .. Len(c) : Append(c, n)[i] = c[i]
        <5> HIDE DEF c, n
        <5> QED BY <1>3, <4>1
      <4> HIDE DEF e, c, n
      <4> QED BY <3>1, <4>2
    <3> HIDE DEF e, c, n
    <3>3. Len(c) + 1 \in DOMAIN e /\ \A i \in DOMAIN e \ {Len(c) + 1} : i \in DOMAIN c
      BY <1>3, <3>2
    <3> QED BY <1>3, <3>1, <3>2, <3>3
  <2>2. CASE here # {}
    <3> DEFINE m == Min(here)
    <3>1. m \in DOMAIN c /\ v.heap[c[m]].guid = v.heap[o].guid
      <4>1. here \in SUBSET Nat
        BY <1>3 DEF Positions
      <4>2. m \in here
        BY <2>2, <4>1, MinIn
      <4> QED BY <4>2 DEF Positions
    <3>2. \A i \in DOMAIN c : v.heap[c[i]].guid = v.heap[o].guid => i = m
      BY <3>1 DEF Keyed
    <3>3. e = [c EXCEPT ![m] = n]
      BY <2>2
    <3> HIDE DEF e, c, n, m
    <3>4. e \in Seq(Objects) /\ DOMAIN e = DOMAIN c /\ e[m] = n /\ \A i \in DOMAIN c \ {m} : e[i] = c[i]
      BY <1>3, <3>1, <3>3
    <3> QED BY <3>1, <3>2, <3>4
  <2> QED BY <2>1, <2>2
<1>5. AddContainerItem(v, o, s, count) = [a EXCEPT !.containers = [a.containers EXCEPT ![s] =
            IF here = {} THEN Append(a.containers[s], n) ELSE [a.containers[s] EXCEPT ![Min(here)] = n]]]
  BY DEF AddContainerItem
<1> HIDE DEF a, copy, e, here
<1>6. AddContainerItem(v, o, s, count) = [a EXCEPT !.containers = cs]
  BY <1>2, <1>5 DEF e
<1>7. cs \in [Slots -> Seq(Objects)] /\ cs[s] = e /\ \A t \in Slots \ {s} : cs[t] = v.containers[t]
  BY <1>4, Fields
<1> HIDE DEF cs
<1>8. LET w == [a EXCEPT !.containers = cs] IN
      /\ w \in Inventories /\ w.containers = cs
      /\ w.heap = a.heap /\ w.loadout = a.loadout /\ w.open = a.open /\ w.ground = a.ground
  BY <1>2, <1>7, ContainersSet
<1>9. a.heap[n] = copy /\ \A p \in Objects \ {n} : a.heap[p] = v.heap[p]
  BY <1>2, <1>3, Fields
<1> DEFINE w == AddContainerItem(v, o, s, count)
<1>10. /\ w \in Inventories /\ w.containers = cs
       /\ w.heap = a.heap /\ w.loadout = v.loadout /\ w.open = v.open /\ w.ground = v.ground
  BY <1>2, <1>6, <1>8
<1> HIDE DEF w, n, c
<1>11. w.containers[s] = e /\ \A t \in Slots \ {s} : w.containers[t] = v.containers[t]
  BY <1>7, <1>10
<1> QED BY <1>1, <1>4, <1>9, <1>10, <1>11 DEF Filed, w, n, c

\* Another count of one object.
LEMMA CountSet ==
    ASSUME NEW v \in Inventories, NEW x \in Objects, NEW count \in 0 .. MaxCount
    PROVE  LET w == [v EXCEPT !.heap[x].count = count] IN
           /\ w \in Inventories
           /\ \A p \in Objects \ {x} : w.heap[p] = v.heap[p]
           /\ w.heap[x].guid = v.heap[x].guid /\ w.heap[x].kind = v.heap[x].kind
           /\ w.heap[x].slot = v.heap[x].slot /\ w.heap[x].count = count
           /\ w.loadout = v.loadout /\ w.open = v.open
           /\ w.containers = v.containers /\ w.ground = v.ground
<1> DEFINE item == [v.heap[x] EXCEPT !.count = count]
           h == [v.heap EXCEPT ![x] = item]
<1>1. /\ item \in ItemType
      /\ item.guid = v.heap[x].guid /\ item.kind = v.heap[x].kind
      /\ item.count = count /\ item.slot = v.heap[x].slot
  <2>1. v.heap[x] \in ItemType
    BY Fields
  <2> QED BY <2>1, CountIs
<1> DEFINE w == [v EXCEPT !.heap = h]
<1>2. [v EXCEPT !.heap[x].count = count] = w
  OBVIOUS
<1> HIDE DEF item
<1>3. h \in [Objects -> ItemType] /\ h[x] = item /\ \A p \in Objects \ {x} : h[p] = v.heap[p]
  BY <1>1, Fields
<1> HIDE DEF h
<1>4. /\ w \in Inventories /\ w.heap = h
      /\ w.loadout = v.loadout /\ w.open = v.open
      /\ w.containers = v.containers /\ w.ground = v.ground
  BY <1>3, HeapSet
<1> HIDE DEF w
<1> QED BY <1>1, <1>2, <1>3, <1>4

\* What is put on a stack adds to its count.
LEMMA AddToStackIs ==
    ASSUME NEW v \in Inventories, NEW s \in Slots, NEW i \in DOMAIN v.containers[s],
           NEW count \in 0 .. MaxCount, v.heap[v.containers[s][i]].count + count <= MaxCount
    PROVE  LET w == AddToStack(v, s, i, count)
               x == v.containers[s][i]
           IN
           /\ w \in Inventories /\ x \in Objects
           /\ \A p \in Objects \ {x} : w.heap[p] = v.heap[p]
           /\ w.heap[x].guid = v.heap[x].guid /\ w.heap[x].kind = v.heap[x].kind
           /\ w.heap[x].slot = v.heap[x].slot /\ w.heap[x].count = v.heap[x].count + count
           /\ w.loadout = v.loadout /\ w.open = v.open
           /\ w.containers = v.containers /\ w.ground = v.ground
<1> DEFINE x == v.containers[s][i]
           sum == v.heap[x].count + count
<1>1. x \in Objects
  BY ContainerIs
<1>2. sum \in 0 .. MaxCount
  <2>1. v.heap[x].count \in 0 .. MaxCount
    BY <1>1, Fields, ItemFields
  <2> QED BY <2>1, Numbers
<1>3. AddToStack(v, s, i, count) = [v EXCEPT !.heap[x].count = sum]
  BY DEF AddToStack
<1> HIDE DEF x, sum
<1>4. LET w == [v EXCEPT !.heap[x].count = sum] IN
      /\ w \in Inventories
      /\ \A p \in Objects \ {x} : w.heap[p] = v.heap[p]
      /\ w.heap[x].guid = v.heap[x].guid /\ w.heap[x].kind = v.heap[x].kind
      /\ w.heap[x].slot = v.heap[x].slot /\ w.heap[x].count = sum
      /\ w.loadout = v.loadout /\ w.open = v.open
      /\ w.containers = v.containers /\ w.ground = v.ground
  BY <1>1, <1>2, CountSet
<1> QED BY <1>1, <1>3, <1>4 DEF x, sum

\* removeContainerItem of a part of the object.
LEMMA RemovePartIs ==
    ASSUME NEW v \in Inventories, NEW o \in Objects, NEW s \in Slots,
           NEW count \in 0 .. MaxCount, count < v.heap[o].count
    PROVE  LET w == RemoveContainerItem(v, o, s, count) IN
           /\ w \in Inventories
           /\ \A p \in Objects \ {o} : w.heap[p] = v.heap[p]
           /\ w.heap[o].guid = v.heap[o].guid /\ w.heap[o].kind = v.heap[o].kind
           /\ w.heap[o].slot = v.heap[o].slot /\ w.heap[o].count = v.heap[o].count - count
           /\ w.loadout = v.loadout /\ w.open = v.open
           /\ w.containers = v.containers /\ w.ground = v.ground
<1> DEFINE rest == v.heap[o].count - count
<1>1. rest \in 0 .. MaxCount /\ v.heap[o].count # count
  <2>1. v.heap[o].count \in 0 .. MaxCount
    BY Fields, ItemFields
  <2> QED BY <2>1, Numbers
<1>2. RemoveContainerItem(v, o, s, count) = [v EXCEPT !.heap[o].count = rest]
  BY <1>1 DEF RemoveContainerItem
<1> HIDE DEF rest
<1>3. LET w == [v EXCEPT !.heap[o].count = rest] IN
      /\ w \in Inventories
      /\ \A p \in Objects \ {o} : w.heap[p] = v.heap[p]
      /\ w.heap[o].guid = v.heap[o].guid /\ w.heap[o].kind = v.heap[o].kind
      /\ w.heap[o].slot = v.heap[o].slot /\ w.heap[o].count = rest
      /\ w.loadout = v.loadout /\ w.open = v.open
      /\ w.containers = v.containers /\ w.ground = v.ground
  BY <1>1, CountSet
<1> QED BY <1>2, <1>3 DEF rest

\* removeContainerItem of the whole takes the item with its guid out.
LEMMA RemoveWholeIs ==
    ASSUME NEW v \in Inventories, NEW o \in Objects, NEW s \in SlotsHolding(v, v.heap[o].guid)
    PROVE  LET w == RemoveContainerItem(v, o, s, v.heap[o].count)
               c == v.containers[s]
               d == w.containers[s]
           IN
           /\ w \in Inventories
           /\ w.heap = v.heap /\ w.loadout = v.loadout /\ w.open = v.open /\ w.ground = v.ground
           /\ \A t \in Slots \ {s} : w.containers[t] = v.containers[t]
           /\ \E m \in DOMAIN c :
                /\ v.heap[c[m]].guid = v.heap[o].guid
                /\ \A j \in DOMAIN d : LET i == IF j < m THEN j ELSE j + 1
                                       IN  i \in DOMAIN c /\ i # m /\ d[j] = c[i]
                /\ \A i \in DOMAIN c \ {m} : \E j \in DOMAIN d : d[j] = c[i]
<1> DEFINE c == v.containers[s]
           m == Min(Positions(v, s, v.heap[o].guid))
           r == RemoveAt(c, m)
           cs == [v.containers EXCEPT ![s] = r]
<1>0. s \in Slots /\ Positions(v, s, v.heap[o].guid) # {}
  BY DEF SlotsHolding
<1>1. c \in Seq(Objects) /\ Len(c) \in Nat /\ DOMAIN c = 1 .. Len(c)
  BY <1>0, ContainerIs
<1>2. m \in DOMAIN c /\ v.heap[c[m]].guid = v.heap[o].guid
  <2>1. Positions(v, s, v.heap[o].guid) \in SUBSET Nat
    BY <1>1 DEF Positions
  <2>2. m \in Positions(v, s, v.heap[o].guid)
    BY <1>0, <2>1, MinIn
  <2> QED BY <2>2 DEF Positions
<1>3. RemoveContainerItem(v, o, s, v.heap[o].count) = [v EXCEPT !.containers = cs]
  BY DEF RemoveContainerItem
<1> HIDE DEF c, m
<1>4. /\ r \in Seq(Objects) /\ Len(r) = Len(c) - 1
      /\ \A j \in 1 .. Len(c) - 1 : r[j] = IF j < m THEN c[j] ELSE c[j + 1]
  BY <1>1, <1>2, RemoveAtIs
<1> HIDE DEF r
<1>5. DOMAIN r = 1 .. Len(c) - 1 /\ m \in 1 .. Len(c)
  BY <1>1, <1>2, <1>4
<1>6. \A j \in DOMAIN r : LET i == IF j < m THEN j ELSE j + 1
                          IN  i \in DOMAIN c /\ i # m /\ r[j] = c[i]
  BY <1>1, <1>4, <1>5
<1>7. ASSUME NEW i \in DOMAIN c \ {m} PROVE \E j \in DOMAIN r : r[j] = c[i]
  <2>1. CASE i < m
    <3>1. i \in DOMAIN r /\ r[i] = c[i]
      BY <1>1, <1>4, <1>5, <2>1
    <3> QED BY <3>1
  <2>2. CASE i > m
    <3>1. i - 1 \in 1 .. Len(c) - 1 /\ ~(i - 1 < m) /\ (i - 1) + 1 = i
      BY <1>1, <1>5, <2>2
    <3>2. i - 1 \in DOMAIN r /\ r[i - 1] = c[i]
      BY <1>4, <1>5, <3>1
    <3> QED BY <3>2
  <2>3. i < m \/ i > m
    BY <1>1, <1>5
  <2> QED BY <2>1, <2>2, <2>3
<1>8. cs \in [Slots -> Seq(Objects)] /\ cs[s] = r /\ \A t \in Slots \ {s} : cs[t] = v.containers[t]
  BY <1>0, <1>4, Fields
<1> HIDE DEF cs
<1>9. LET w == [v EXCEPT !.containers = cs] IN
      /\ w \in Inventories /\ w.containers = cs
      /\ w.heap = v.heap /\ w.loadout = v.loadout /\ w.open = v.open /\ w.ground = v.ground
  BY <1>8, ContainersSet
<1>10. \E k \in DOMAIN c :
         /\ v.heap[c[k]].guid = v.heap[o].guid
         /\ \A j \in DOMAIN r : LET i == IF j < k THEN j ELSE j + 1
                                IN  i \in DOMAIN c /\ i # k /\ r[j] = c[i]
         /\ \A i \in DOMAIN c \ {k} : \E j \in DOMAIN r : r[j] = c[i]
  BY <1>2, <1>6, <1>7
<1> QED BY <1>3, <1>8, <1>9, <1>10 DEF c

\* Another entity on the ground.
LEMMA GroundIs ==
    ASSUME NEW v \in Inventories, NEW o \in Objects
    PROVE  LET w == Ground(v, o) IN
           /\ w \in Inventories
           /\ w.ground = [v.ground EXCEPT ![o] = @ + 1]
           /\ w.heap = v.heap /\ w.loadout = v.loadout /\ w.open = v.open
           /\ w.containers = v.containers
<1> DEFINE g == [v.ground EXCEPT ![o] = @ + 1]
<1>1. g \in [Objects -> Nat]
  BY Fields
<1>2. Ground(v, o) = [v EXCEPT !.ground = g]
  BY DEF Ground
<1> HIDE DEF g
<1>3. LET w == [v EXCEPT !.ground = g] IN
      /\ w \in Inventories /\ w.ground = g
      /\ w.heap = v.heap /\ w.loadout = v.loadout /\ w.open = v.open
      /\ w.containers = v.containers
  BY <1>1, GroundSet
<1> QED BY <1>2, <1>3 DEF g

\* From v to w, a copy of o was put into slot s, and an empty container opened.
Equipped(v, w, o, s) ==
    LET n == NewObject(v)
    IN  /\ w \in Inventories
        /\ \A p \in Objects \ {n} : w.heap[p] = v.heap[p]
        /\ w.heap[n].guid = v.heap[o].guid /\ w.heap[n].kind = v.heap[o].kind
        /\ w.heap[n].count = 1 /\ w.heap[n].slot = s
        /\ w.loadout = [v.loadout EXCEPT ![s] = n]
        /\ w.open = v.open \cup {s}
        /\ w.containers = [v.containers EXCEPT ![s] = <<>>]
        /\ w.ground = v.ground

\* equipItem
LEMMA EquipItemIs ==
    ASSUME NEW v \in Inventories, FreeObjects(v) # {}, NEW o \in Objects, NEW s \in Slots
    PROVE  Equipped(v, EquipItem(v, o, s), o, s)
<1> DEFINE n == NewObject(v)
           copy == [v.heap[o] EXCEPT !.count = 1, !.slot = s]
           a == Alloc(v, copy)
           l == [v.loadout EXCEPT ![s] = n]
           p == v.open \cup {s}
           c == [v.containers EXCEPT ![s] = <<>>]
<1>1. /\ copy \in ItemType
      /\ copy.guid = v.heap[o].guid /\ copy.kind = v.heap[o].kind
      /\ copy.count = 1 /\ copy.slot = s
  <2>1. v.heap[o] \in ItemType /\ 1 \in 0 .. MaxCount
    BY Fields, Numbers
  <2> QED BY <2>1 DEF ItemType
<1> HIDE DEF copy
<1>2. /\ a \in Inventories
      /\ a.heap = [v.heap EXCEPT ![n] = copy]
      /\ a.loadout = v.loadout /\ a.open = v.open
      /\ a.containers = v.containers /\ a.ground = v.ground
  BY <1>1, AllocIs
<1>3. EquipItem(v, o, s) = [a EXCEPT !.loadout = [a.loadout EXCEPT ![s] = n],
                              !.open = a.open \cup {s}, !.containers = [a.containers EXCEPT ![s] = <<>>]]
  BY DEF EquipItem, copy
<1> HIDE DEF a
<1>4. EquipItem(v, o, s) = [a EXCEPT !.loadout = l, !.open = p, !.containers = c]
  BY <1>2, <1>3
<1>5. /\ l \in [Slots -> {0} \cup Objects] /\ p \in SUBSET Slots
      /\ c \in [Slots -> Seq(Objects)]
  <2>1. n \in Objects /\ <<>> \in Seq(Objects)
    BY NewObjectIs
  <2> QED BY <2>1, Fields
<1> HIDE DEF l, p, c
<1>6. LET w == [a EXCEPT !.loadout = l, !.open = p, !.containers = c] IN
      /\ w \in Inventories
      /\ w.loadout = l /\ w.open = p /\ w.containers = c
      /\ w.heap = a.heap /\ w.ground = a.ground
  BY <1>2, <1>5 DEF Inventories, Nobody
<1> DEFINE w == EquipItem(v, o, s)
<1>7. /\ w \in Inventories
      /\ w.loadout = l /\ w.open = p /\ w.containers = c
      /\ w.heap = a.heap /\ w.ground = v.ground
  BY <1>2, <1>4, <1>6
<1>8. a.heap[n] = copy /\ \A q \in Objects \ {n} : a.heap[q] = v.heap[q]
  BY <1>2, NewObjectIs, Fields
<1> HIDE DEF w, n
<1> QED BY <1>1, <1>7, <1>8 DEF Equipped, w, n, l, p, c

\* removeLoadoutItem empties the slot, and closes the container.
LEMMA RemoveLoadoutItemIs ==
    ASSUME NEW v \in Inventories, NEW s \in Slots
    PROVE  LET w == RemoveLoadoutItem(v, s) IN
           /\ w \in Inventories
           /\ w.loadout = [v.loadout EXCEPT ![s] = 0]
           /\ w.open = v.open \ {s}
           /\ w.containers = [v.containers EXCEPT ![s] = <<>>]
           /\ w.heap = v.heap /\ w.ground = v.ground
<1> DEFINE l == [v.loadout EXCEPT ![s] = 0]
           p == v.open \ {s}
           c == [v.containers EXCEPT ![s] = <<>>]
<1>1. /\ l \in [Slots -> {0} \cup Objects] /\ p \in SUBSET Slots
      /\ c \in [Slots -> Seq(Objects)]
  <2>1. <<>> \in Seq(Objects)
    OBVIOUS
  <2> QED BY <2>1, Fields
<1>2. RemoveLoadoutItem(v, s) = [v EXCEPT !.loadout = l, !.open = p, !.containers = c]
  BY DEF RemoveLoadoutItem, Nobody
<1> HIDE DEF l, p, c
<1>3. LET w == [v EXCEPT !.loadout = l, !.open = p, !.containers = c] IN
      /\ w \in Inventories
      /\ w.loadout = l /\ w.open = p /\ w.containers = c
      /\ w.heap = v.heap /\ w.ground = v.ground
  BY <1>1 DEF Inventories, Nobody
<1> QED BY <1>2, <1>3 DEF l, p, c

-----------------------------------------------------------------------------
(* The operations keep an inventory sound, and its objects what they are. *)

\* A step that takes at most so many new objects.
Step(l, v, w, taken) ==
    /\ Sound(l, w) /\ Kept(v, w)
    /\ \A k \in Nat : Room(v, k + taken) => Room(w, k)

\* Steps add up.
LEMMA StepsCompose ==
    ASSUME NEW l, NEW u, NEW v, NEW w, NEW a \in Nat, NEW b \in Nat,
           Step(l, u, v, a), Step(l, v, w, b)
    PROVE  Step(l, u, w, a + b)
<1>1. Kept(u, w)
  BY DEF Step, Kept
<1>2. ASSUME NEW k \in Nat, Room(u, k + (a + b)) PROVE Room(w, k)
  <2>1. k + b \in Nat /\ (k + b) + a = k + (a + b)
    OBVIOUS
  <2>2. Room(v, k + b)
    BY <1>2, <2>1 DEF Step
  <2> QED BY <2>2 DEF Step
<1> QED BY <1>1, <1>2 DEF Step

\* What is there is unused where it was, and so takes no new object.
LEMMA SameRoom ==
    ASSUME NEW v \in Inventories, NEW w \in Inventories,
           \A o \in Objects : v.heap[o].guid = w.heap[o].guid
    PROVE  \A k \in Nat : Room(v, k + 0) => Room(w, k)
<1>1. FreeObjects(v) = FreeObjects(w)
  BY DEF FreeObjects
<1> QED BY <1>1 DEF Room

\* Who is worn or held is in use.
LEMMA InUse ==
    ASSUME NEW l, NEW v, Sound(l, v)
    PROVE  /\ v \in Inventories
           /\ \A s \in Slots : v.loadout[s] # 0 =>
                /\ v.loadout[s] \in Objects /\ s \in v.open
                /\ v.heap[v.loadout[s]].guid # 0 /\ v.heap[v.loadout[s]].slot = s
                /\ v.heap[v.loadout[s]].kind = s
                /\ ("miscount" \notin l => v.heap[v.loadout[s]].count = 1)
           /\ \A s \in Slots : \A i \in DOMAIN v.containers[s] :
                /\ v.containers[s][i] \in Objects /\ s \in v.open
                /\ v.heap[v.containers[s][i]].guid # 0
           /\ \A o \in Live(v) : o \in Objects /\ v.heap[o].guid # 0
<1>1. v \in Inventories
  BY DEF Sound
<1>2. ASSUME NEW s \in Slots, v.loadout[s] # 0
      PROVE  /\ v.loadout[s] \in Objects /\ s \in v.open
             /\ v.heap[v.loadout[s]].guid # 0 /\ v.heap[v.loadout[s]].slot = s
             /\ v.heap[v.loadout[s]].kind = s
             /\ ("miscount" \notin l => v.heap[v.loadout[s]].count = 1)
  <2>1. v.loadout[s] \in Objects
    BY <1>1, <1>2, Fields
  <2>2. /\ s \in v.open
        /\ v.heap[v.loadout[s]].guid # 0 /\ v.heap[v.loadout[s]].slot = s
    BY <1>2 DEF Sound, Fitted
  <2>3. /\ v.heap[v.loadout[s]].kind = s
        /\ ("miscount" \notin l => v.heap[v.loadout[s]].count = 1)
    BY <2>1, <2>2, Numbers DEF Sound, Proper, Fair
  <2> QED BY <2>1, <2>2, <2>3
<1>3. ASSUME NEW s \in Slots, NEW i \in DOMAIN v.containers[s]
      PROVE  /\ v.containers[s][i] \in Objects /\ s \in v.open
             /\ v.heap[v.containers[s][i]].guid # 0
  <2>1. v.containers[s] # <<>>
    BY <1>3
  <2> QED BY <1>1, <2>1, ContainerIs DEF Sound, Fitted, Named
<1>4. ASSUME NEW o \in Live(v) PROVE o \in Objects /\ v.heap[o].guid # 0
  <2>1. CASE o \in Held(v)
    BY <1>1, <1>3, <2>1, HeldMeans
  <2>2. CASE o \in Worn(v)
    <3>1. PICK s \in Slots : v.loadout[s] = o /\ o # 0
      BY <2>2, Numbers DEF Worn
    <3> QED BY <1>2, <3>1
  <2>3. CASE o \in Lying(v)
    BY <2>3 DEF Lying, Sound, Named
  <2> QED BY <2>1, <2>2, <2>3 DEF Live
<1> QED BY <1>1, <1>2, <1>3, <1>4

\* A new object is not referred to.
LEMMA NewIsUnused ==
    ASSUME NEW l, NEW v, Sound(l, v), NEW n \in Objects, v.heap[n].guid = 0
    PROVE  /\ \A s \in Slots : v.loadout[s] # n
           /\ \A s \in Slots : \A i \in DOMAIN v.containers[s] : v.containers[s][i] # n
           /\ v.ground[n] = 0 /\ n \notin Live(v)
<1>1. v.ground[n] \in Nat
  BY Fields DEF Sound
<1> QED BY <1>1, InUse, Numbers DEF Sound, Named

\* addContainerItem
LEMMA AddContainerItemStep ==
    ASSUME NEW l, NEW v, Sound(l, v), FreeObjects(v) # {},
           NEW o \in Objects, v.heap[o].guid # 0, NEW s \in v.open,
           NEW count \in 0 .. MaxCount, Fair(l, v.heap[o].kind, count)
    PROVE  Step(l, v, AddContainerItem(v, o, s, count), 1)
<1> DEFINE w == AddContainerItem(v, o, s, count)
           n == NewObject(v)
           c == v.containers[s]
           d == w.containers[s]
<1>0. v \in Inventories /\ s \in Slots /\ Keyed(v) /\ count \in 0 .. MaxCount
  BY Fields, Numbers DEF Sound
<1>1. Filed(v, w, o, s, count)
  BY <1>0, AddContainerItemIs
<1>2. PICK m \in DOMAIN d :
           /\ d[m] = n
           /\ \A i \in DOMAIN d \ {m} :
                 i \in DOMAIN c /\ d[i] = c[i] /\ v.heap[c[i]].guid # v.heap[o].guid
  BY <1>1 DEF Filed
<1> HIDE DEF w, n
<1>3. n \in Objects /\ v.heap[n].guid = 0
  BY <1>0, NewObjectIs DEF n
<1>4. /\ w.heap[n].guid = v.heap[o].guid /\ w.heap[n].kind = v.heap[o].kind
      /\ w.heap[n].count = count /\ w.heap[n].slot = 0
      /\ w \in Inventories
      /\ w.loadout = v.loadout /\ w.open = v.open /\ w.ground = v.ground
      /\ \A t \in Slots \ {s} : w.containers[t] = v.containers[t]
  BY <1>1 DEF Filed, n
<1>5. \A p \in Objects \ {n} : w.heap[p] = v.heap[p]
  BY <1>1 DEF Filed, n
<1>6. Kept(v, w)
  BY <1>3, <1>5 DEF Kept
<1>7. Proper(l, w)
  <2>1. Fair(l, w.heap[n].kind, w.heap[n].count)
    BY <1>4
  <2> QED BY <1>4, <1>5, <2>1 DEF Sound, Proper
<1>8. /\ \A t \in Slots : v.loadout[t] # n
      /\ \A t \in Slots : \A i \in DOMAIN v.containers[t] : v.containers[t][i] # n
      /\ v.ground[n] = 0
  BY <1>3, NewIsUnused
<1>9. ASSUME NEW t \in Slots, NEW i \in DOMAIN w.containers[t]
      PROVE  \/ t = s /\ i = m /\ w.containers[t][i] = n
             \/ /\ i \in DOMAIN v.containers[t] /\ w.containers[t][i] = v.containers[t][i]
                /\ v.containers[t][i] \in Objects \ {n}
                /\ t = s => i # m /\ v.heap[v.containers[t][i]].guid # v.heap[o].guid
  BY <1>0, <1>2, <1>4, <1>8, <1>9, InUse
<1>10. Named(w)
  <2>1. \A t \in Slots : \A i \in DOMAIN w.containers[t] : w.heap[w.containers[t][i]].guid # 0
    BY <1>4, <1>5, <1>9 DEF Sound, Named
  <2>2. \A p \in Objects : w.ground[p] > 0 => w.heap[p].guid # 0
    BY <1>4, <1>5, <1>8 DEF Sound, Named
  <2> QED BY <2>1, <2>2 DEF Named
<1>11. Apart(w)
  <2> SUFFICES ASSUME NEW t \in Slots, NEW u \in Slots, NEW i \in DOMAIN w.containers[t]
               PROVE  /\ w.containers[t][i] # w.loadout[u]
                      /\ \A j \in DOMAIN w.containers[u] :
                            w.containers[t][i] = w.containers[u][j] => t = u
    BY DEF Apart
  <2>1. w.containers[t][i] # w.loadout[u]
    BY <1>4, <1>8, <1>9 DEF Sound, Apart
  <2>2. ASSUME NEW j \in DOMAIN w.containers[u], w.containers[t][i] = w.containers[u][j]
        PROVE  t = u
    BY <1>9, <2>2 DEF Sound, Apart
  <2> QED BY <2>1, <2>2
<1>12. Keyed(w)
  <2> SUFFICES ASSUME NEW t \in Slots, NEW i \in DOMAIN w.containers[t], NEW j \in DOMAIN w.containers[t],
                      w.heap[w.containers[t][i]].guid = w.heap[w.containers[t][j]].guid
               PROVE  i = j
    BY DEF Keyed
  <2>1. ASSUME NEW k \in DOMAIN w.containers[t]
        PROVE  LET x == w.containers[t][k] IN
               \/ t = s /\ k = m /\ w.heap[x].guid = v.heap[o].guid
               \/ /\ k \in DOMAIN v.containers[t] /\ x = v.containers[t][k]
                  /\ w.heap[x].guid = v.heap[x].guid
                  /\ t = s => k # m /\ w.heap[x].guid # v.heap[o].guid
    <3>1. CASE t = s /\ k = m /\ w.containers[t][k] = n
      BY <1>4, <3>1
    <3>2. CASE /\ k \in DOMAIN v.containers[t] /\ w.containers[t][k] = v.containers[t][k]
               /\ v.containers[t][k] \in Objects \ {n}
               /\ t = s => k # m /\ v.heap[v.containers[t][k]].guid # v.heap[o].guid
      <4>1. w.heap[v.containers[t][k]] = v.heap[v.containers[t][k]]
        BY <1>5, <3>2
      <4> QED BY <3>2, <4>1
    <3>3. \/ t = s /\ k = m /\ w.containers[t][k] = n
          \/ /\ k \in DOMAIN v.containers[t] /\ w.containers[t][k] = v.containers[t][k]
             /\ v.containers[t][k] \in Objects \ {n}
             /\ t = s => k # m /\ v.heap[v.containers[t][k]].guid # v.heap[o].guid
      BY <1>9
    <3> QED BY <3>1, <3>2, <3>3
  <2>2. CASE t = s /\ (i = m \/ j = m)
    BY <2>1, <2>2
  <2>3. CASE ~(t = s /\ i = m) /\ ~(t = s /\ j = m)
    <3>1. /\ i \in DOMAIN v.containers[t] /\ j \in DOMAIN v.containers[t]
          /\ v.heap[v.containers[t][i]].guid = v.heap[v.containers[t][j]].guid
      BY <2>1, <2>3
    <3> QED BY <3>1 DEF Sound, Keyed
  <2> QED BY <2>2, <2>3
<1>13. Fitted(w)
  <2> SUFFICES ASSUME NEW t \in Slots
               PROVE  IF t \in w.open
                      THEN /\ w.loadout[t] # 0
                           /\ w.heap[w.loadout[t]].guid # 0 /\ w.heap[w.loadout[t]].slot = t
                      ELSE w.loadout[t] = 0 /\ w.containers[t] = <<>>
    BY DEF Fitted
  <2>1. CASE t \in v.open
    <3>1. v.loadout[t] \in Objects \ {n}
      BY <1>8, <2>1, InUse DEF Sound, Fitted
    <3> QED BY <1>4, <1>5, <2>1, <3>1 DEF Sound, Fitted
  <2>2. CASE t \notin v.open
    BY <1>4, <2>2 DEF Sound, Fitted
  <2> QED BY <2>1, <2>2
<1>14. \A k \in Nat : Room(v, k + 1) => Room(w, k)
  <2> SUFFICES ASSUME NEW k \in Nat, Room(v, k + 1) PROVE Room(w, k)
    OBVIOUS
  <2>1. w \in Inventories /\ \A p \in Objects \ {n} : v.heap[p].guid = 0 => w.heap[p].guid = 0
    BY <1>4, <1>5
  <2> QED BY <1>0, <1>3, <2>1, RoomLeft
<1> QED BY <1>4, <1>6, <1>7, <1>10, <1>11, <1>12, <1>13, <1>14 DEF Step, Sound, w

\* Nothing but counts and entities on the ground changes.
LEMMA SameShapeStep ==
    ASSUME NEW l, NEW v, Sound(l, v), NEW w \in Inventories,
           w.loadout = v.loadout, w.open = v.open, w.containers = v.containers,
           \A p \in Objects :
              /\ w.heap[p].guid = v.heap[p].guid /\ w.heap[p].kind = v.heap[p].kind
              /\ w.heap[p].slot = v.heap[p].slot
              /\ v.heap[p].guid # 0 => Fair(l, v.heap[p].kind, w.heap[p].count)
              /\ w.ground[p] > 0 => v.heap[p].guid # 0
    PROVE  Step(l, v, w, 0)
<1>0. v \in Inventories
  BY DEF Sound
<1>1. Kept(v, w)
  BY DEF Kept
<1>2. Proper(l, w)
  BY DEF Sound, Proper, Fair
<1>3. Named(w)
  BY <1>0, ContainerIs DEF Sound, Named
<1>4. Apart(w)
  BY DEF Sound, Apart
<1>5. Keyed(w)
  <2>1. \A s \in Slots : \A i \in DOMAIN v.containers[s] : v.containers[s][i] \in Objects
    BY <1>0, ContainerIs
  <2> QED BY <2>1 DEF Sound, Keyed
<1>6. Fitted(w)
  <2>1. \A s \in v.open : s \in Slots /\ v.loadout[s] \in Objects
    BY <1>0, Fields, InUse DEF Sound, Fitted
  <2> QED BY <2>1 DEF Sound, Fitted
<1>7. \A k \in Nat : Room(v, k + 0) => Room(w, k)
  BY <1>0, SameRoom
<1> QED BY <1>1, <1>2, <1>3, <1>4, <1>5, <1>6, <1>7 DEF Step, Sound

\* The counts of objects in use.
LEMMA CountType ==
    ASSUME NEW l, NEW v, Sound(l, v), NEW o \in Objects
    PROVE  /\ v.heap[o].count \in 0 .. MaxCount /\ v.heap[o].count \in Nat
           /\ v.heap[o].guid # 0 => Fair(l, v.heap[o].kind, v.heap[o].count)
           /\ v.heap[o].kind \in Kinds
           /\ v.ground[o] \in Nat
<1>1. v.heap[o].count \in 0 .. MaxCount /\ v.heap[o].kind \in Kinds
  BY Fields, ItemFields DEF Sound
<1>2. v.ground[o] \in Nat
  BY Fields DEF Sound
<1>3. v.heap[o].guid # 0 => Fair(l, v.heap[o].kind, v.heap[o].count)
  BY DEF Sound, Proper
<1> QED BY <1>1, <1>2, <1>3, Numbers

\* Onto a stack that has room for it.
LEMMA AddToStackStep ==
    ASSUME NEW l, NEW v, Sound(l, v), NEW s \in Slots, NEW count \in 0 .. MaxCount,
           NEW kind \in Kinds, NEW i \in Stacks(v, s, kind, count)
    PROVE  /\ Step(l, v, AddToStack(v, s, i, count), 0)
           /\ i \in DOMAIN v.containers[s] /\ kind \notin Bags
           /\ v.heap[v.containers[s][i]].kind = kind
           /\ v.heap[v.containers[s][i]].count + count <= MaxCount
<1> DEFINE x == v.containers[s][i]
           w == AddToStack(v, s, i, count)
<1>0. v \in Inventories
  BY DEF Sound
<1>1. /\ i \in DOMAIN v.containers[s] /\ StackSize(kind) > 1 /\ v.heap[x].kind = kind
      /\ v.heap[x].count + count <= StackSize(kind)
  BY DEF Stacks
<1>3. x \in Objects /\ v.heap[x].guid # 0
  BY <1>1, InUse
<1>2. kind \notin Bags /\ v.heap[x].count + count <= MaxCount
  <2>1. v.heap[x].count \in Nat /\ count \in Nat
    BY <1>3, CountType, Numbers
  <2>2. kind \notin Bags /\ v.heap[x].count + count <= MaxStack
    BY <1>1, Numbers DEF StackSize
  <2> HIDE DEF x
  <2> QED BY <2>1, <2>2, Numbers
<1>4. /\ w \in Inventories
      /\ \A p \in Objects \ {x} : w.heap[p] = v.heap[p]
      /\ w.heap[x].guid = v.heap[x].guid /\ w.heap[x].kind = v.heap[x].kind
      /\ w.heap[x].slot = v.heap[x].slot /\ w.heap[x].count = v.heap[x].count + count
      /\ w.loadout = v.loadout /\ w.open = v.open
      /\ w.containers = v.containers /\ w.ground = v.ground
  <2>1. i \in DOMAIN v.containers[s] /\ v.heap[x].count + count <= MaxCount
    BY <1>1, <1>2
  <2> QED BY <1>0, <2>1, AddToStackIs
<1> HIDE DEF w, x
<1>5. ASSUME NEW p \in Objects
      PROVE  /\ w.heap[p].guid = v.heap[p].guid /\ w.heap[p].kind = v.heap[p].kind
             /\ w.heap[p].slot = v.heap[p].slot
             /\ v.heap[p].guid # 0 => Fair(l, v.heap[p].kind, w.heap[p].count)
             /\ w.ground[p] > 0 => v.heap[p].guid # 0
  <2>1. v.heap[p].guid # 0 => Fair(l, v.heap[p].kind, v.heap[p].count)
    BY DEF Sound, Proper
  <2>2. w.ground[p] > 0 => v.heap[p].guid # 0
    BY <1>4 DEF Sound, Named
  <2>3. v.heap[p].count \in Nat /\ count \in Nat
    BY CountType, Numbers
  <2> QED BY <1>1, <1>2, <1>4, <2>1, <2>2, <2>3 DEF Fair
<1>6. Step(l, v, w, 0)
  BY <1>4, <1>5, SameShapeStep
<1> QED BY <1>1, <1>2, <1>6 DEF w, x

\* A part of an object.
LEMMA RemovePartStep ==
    ASSUME NEW l, NEW v, Sound(l, v), NEW o \in Objects, v.heap[o].guid # 0, NEW s \in Slots,
           NEW count \in 0 .. MaxCount, count < v.heap[o].count
    PROVE  Step(l, v, RemoveContainerItem(v, o, s, count), 0)
<1> DEFINE w == RemoveContainerItem(v, o, s, count)
<1>0. v \in Inventories /\ count \in 0 .. MaxCount
  BY Numbers DEF Sound
<1>1. /\ w \in Inventories
      /\ \A p \in Objects \ {o} : w.heap[p] = v.heap[p]
      /\ w.heap[o].guid = v.heap[o].guid /\ w.heap[o].kind = v.heap[o].kind
      /\ w.heap[o].slot = v.heap[o].slot /\ w.heap[o].count = v.heap[o].count - count
      /\ w.loadout = v.loadout /\ w.open = v.open
      /\ w.containers = v.containers /\ w.ground = v.ground
  BY <1>0, RemovePartIs
<1> HIDE DEF w
<1>2. ASSUME NEW p \in Objects
      PROVE  /\ w.heap[p].guid = v.heap[p].guid /\ w.heap[p].kind = v.heap[p].kind
             /\ w.heap[p].slot = v.heap[p].slot
             /\ v.heap[p].guid # 0 => Fair(l, v.heap[p].kind, w.heap[p].count)
             /\ w.ground[p] > 0 => v.heap[p].guid # 0
  <2>1. v.heap[p].guid # 0 => Fair(l, v.heap[p].kind, v.heap[p].count)
    BY DEF Sound, Proper
  <2>2. w.ground[p] > 0 => v.heap[p].guid # 0
    BY <1>1 DEF Sound, Named
  <2>3. v.heap[p].count \in Nat /\ v.heap[o].count \in Nat /\ count \in Nat
    BY CountType, Numbers
  <2> QED BY <1>1, <2>1, <2>2, <2>3 DEF Fair
<1> QED BY <1>1, <1>2, SameShapeStep DEF w

\* Another entity on the ground.
LEMMA GroundStep ==
    ASSUME NEW l, NEW v, Sound(l, v), NEW o \in Objects, v.heap[o].guid # 0
    PROVE  Step(l, v, Ground(v, o), 0)
<1> DEFINE w == Ground(v, o)
<1>0. v \in Inventories /\ v.ground \in [Objects -> Nat]
  BY Fields DEF Sound
<1>1. /\ w \in Inventories
      /\ w.ground = [v.ground EXCEPT ![o] = @ + 1]
      /\ w.heap = v.heap /\ w.loadout = v.loadout /\ w.open = v.open
      /\ w.containers = v.containers
  BY <1>0, GroundIs
<1> HIDE DEF w
<1>2. ASSUME NEW p \in Objects
      PROVE  /\ w.heap[p].guid = v.heap[p].guid /\ w.heap[p].kind = v.heap[p].kind
             /\ w.heap[p].slot = v.heap[p].slot
             /\ v.heap[p].guid # 0 => Fair(l, v.heap[p].kind, w.heap[p].count)
             /\ w.ground[p] > 0 => v.heap[p].guid # 0
  BY <1>0, <1>1 DEF Sound, Proper, Fair, Named
<1> QED BY <1>1, <1>2, SameShapeStep DEF w

\* The whole of an object.
LEMMA RemoveWholeStep ==
    ASSUME NEW l, NEW v, Sound(l, v), NEW o \in Objects, NEW s \in SlotsHolding(v, v.heap[o].guid)
    PROVE  Step(l, v, RemoveContainerItem(v, o, s, v.heap[o].count), 0)
<1> DEFINE w == RemoveContainerItem(v, o, s, v.heap[o].count)
           c == v.containers[s]
           d == w.containers[s]
<1>0. v \in Inventories /\ s \in Slots
  BY DEF Sound, SlotsHolding
<1>1. /\ w \in Inventories
      /\ w.heap = v.heap /\ w.loadout = v.loadout /\ w.open = v.open /\ w.ground = v.ground
      /\ \A t \in Slots \ {s} : w.containers[t] = v.containers[t]
      /\ \E m \in DOMAIN c :
           /\ v.heap[c[m]].guid = v.heap[o].guid
           /\ \A j \in DOMAIN d : LET i == IF j < m THEN j ELSE j + 1
                                  IN  i \in DOMAIN c /\ i # m /\ d[j] = c[i]
           /\ \A i \in DOMAIN c \ {m} : \E j \in DOMAIN d : d[j] = c[i]
  BY <1>0, RemoveWholeIs
<1> HIDE DEF w
<1>2. PICK m \in DOMAIN c :
           \A j \in DOMAIN d : LET i == IF j < m THEN j ELSE j + 1
                               IN  i \in DOMAIN c /\ i # m /\ d[j] = c[i]
  BY <1>1
<1>3. DOMAIN c \subseteq Nat /\ DOMAIN d \subseteq Nat /\ m \in Nat
  BY <1>0, <1>1, ContainerIs
<1>4. \A t \in Slots : \A j \in DOMAIN w.containers[t] :
        \E i \in DOMAIN v.containers[t] : w.containers[t][j] = v.containers[t][i]
  BY <1>1, <1>2
<1>5. Named(w)
  BY <1>1, <1>4 DEF Sound, Named
<1>6. Apart(w)
  <2> SUFFICES ASSUME NEW t \in Slots, NEW u \in Slots, NEW i \in DOMAIN w.containers[t]
               PROVE  /\ w.containers[t][i] # w.loadout[u]
                      /\ \A j \in DOMAIN w.containers[u] :
                            w.containers[t][i] = w.containers[u][j] => t = u
    BY DEF Apart
  <2> QED BY <1>1, <1>4 DEF Sound, Apart
<1>7. Keyed(w)
  <2> SUFFICES ASSUME NEW t \in Slots, NEW i \in DOMAIN w.containers[t], NEW j \in DOMAIN w.containers[t],
                      w.heap[w.containers[t][i]].guid = w.heap[w.containers[t][j]].guid
               PROVE  i = j
    BY DEF Keyed
  <2>1. CASE t # s
    <3>1. w.containers[t] = v.containers[t] /\ w.heap = v.heap
      BY <1>1, <2>1
    <3> QED BY <3>1 DEF Sound, Keyed
  <2>2. CASE t = s
    <3> DEFINE a == IF i < m THEN i ELSE i + 1
               b == IF j < m THEN j ELSE j + 1
    <3>1. /\ a \in DOMAIN c /\ d[i] = c[a]
          /\ b \in DOMAIN c /\ d[j] = c[b]
      BY <1>2, <2>2
    <3>2. v.heap[c[a]].guid = v.heap[c[b]].guid
      BY <1>1, <2>2, <3>1
    <3> HIDE DEF a, b, c, d
    <3>3. a = b
      BY <1>0, <3>1, <3>2 DEF Sound, Keyed, c
    <3> QED BY <1>3, <2>2, <3>3 DEF a, b, d
  <2> QED BY <2>1, <2>2
<1>8. Fitted(w)
  <2> SUFFICES ASSUME NEW t \in Slots, t \notin v.open PROVE w.containers[t] = <<>>
    BY <1>1 DEF Sound, Fitted
  <2>1. t # s
    <3>1. v.containers[t] = <<>>
      BY DEF Sound, Fitted
    <3> QED BY <1>2, <3>1
  <2> QED BY <1>1, <2>1 DEF Sound, Fitted
<1>9. Proper(l, w) /\ Kept(v, w)
  BY <1>1 DEF Sound, Proper, Fair, Kept
<1>10. \A k \in Nat : Room(v, k + 0) => Room(w, k)
  BY <1>0, <1>1, SameRoom
<1> QED BY <1>1, <1>5, <1>6, <1>7, <1>8, <1>9, <1>10 DEF Step, Sound, w

\* removeContainerItem
LEMMA RemoveContainerItemStep ==
    ASSUME NEW l, NEW v, Sound(l, v), NEW o \in Objects, v.heap[o].guid # 0,
           NEW s \in SlotsHolding(v, v.heap[o].guid),
           NEW count \in 0 .. MaxCount, count <= v.heap[o].count
    PROVE  Step(l, v, RemoveContainerItem(v, o, s, count), 0)
<1>0. v.heap[o].count \in Nat /\ count \in Nat /\ s \in Slots
  BY CountType, Numbers DEF SlotsHolding
<1>1. CASE count = v.heap[o].count
  BY <1>1, RemoveWholeStep
<1>2. CASE count < v.heap[o].count
  BY <1>0, <1>2, RemovePartStep
<1> QED BY <1>0, <1>1, <1>2

\* removeLoadoutItem
LEMMA RemoveLoadoutItemStep ==
    ASSUME NEW l, NEW v, Sound(l, v), NEW s \in Slots
    PROVE  Step(l, v, RemoveLoadoutItem(v, s), 0)
<1> DEFINE w == RemoveLoadoutItem(v, s)
<1>0. /\ v \in Inventories
      /\ v.loadout \in [Slots -> {0} \cup Objects] /\ v.containers \in [Slots -> Seq(Objects)]
  BY Fields DEF Sound
<1>1. /\ w \in Inventories
      /\ w.loadout = [v.loadout EXCEPT ![s] = 0]
      /\ w.open = v.open \ {s}
      /\ w.containers = [v.containers EXCEPT ![s] = <<>>]
      /\ w.heap = v.heap /\ w.ground = v.ground
  BY <1>0, RemoveLoadoutItemIs
<1> HIDE DEF w
<1>2. /\ w.loadout[s] = 0 /\ w.containers[s] = <<>>
      /\ \A t \in Slots \ {s} : w.loadout[t] = v.loadout[t] /\ w.containers[t] = v.containers[t]
  BY <1>0, <1>1
<1>3. \A t \in Slots : \A i \in DOMAIN w.containers[t] :
         t # s /\ i \in DOMAIN v.containers[t] /\ w.containers[t][i] = v.containers[t][i]
               /\ w.containers[t][i] \in Objects
  BY <1>0, <1>2, ContainerIs
<1>4. Named(w)
  BY <1>1, <1>3 DEF Sound, Named
<1>5. Apart(w)
  <2> SUFFICES ASSUME NEW t \in Slots, NEW u \in Slots, NEW i \in DOMAIN w.containers[t]
               PROVE  /\ w.containers[t][i] # w.loadout[u]
                      /\ \A j \in DOMAIN w.containers[u] :
                            w.containers[t][i] = w.containers[u][j] => t = u
    BY DEF Apart
  <2> QED BY <1>2, <1>3, Numbers DEF Sound, Apart
<1>6. Keyed(w)
  BY <1>1, <1>3 DEF Sound, Keyed
<1>7. Fitted(w)
  BY <1>1, <1>2 DEF Sound, Fitted
<1>8. Proper(l, w) /\ Kept(v, w)
  BY <1>1 DEF Sound, Proper, Fair, Kept
<1>9. \A k \in Nat : Room(v, k + 0) => Room(w, k)
  BY <1>0, <1>1, SameRoom
<1> QED BY <1>1, <1>4, <1>5, <1>6, <1>7, <1>8, <1>9 DEF Step, Sound, w

\* equipItem into a slot that is free.
LEMMA EquipItemStep ==
    ASSUME NEW l, NEW v, Sound(l, v), FreeObjects(v) # {}, NEW s \in Slots,
           NEW o \in Objects, v.heap[o].guid # 0, v.heap[o].kind = s
    PROVE  Step(l, v, EquipItem(v, o, s), 1)
<1> DEFINE w == EquipItem(v, o, s)
           n == NewObject(v)
<1>0. /\ v \in Inventories /\ v.heap \in [Objects -> ItemType]
      /\ v.loadout \in [Slots -> {0} \cup Objects] /\ v.containers \in [Slots -> Seq(Objects)]
  BY Fields DEF Sound
<1>1. Equipped(v, w, o, s)
  BY <1>0, EquipItemIs
<1> HIDE DEF w, n
<1>2. n \in Objects /\ v.heap[n].guid = 0
  BY <1>0, NewObjectIs DEF n
<1>3. /\ w.heap[n].guid = v.heap[o].guid /\ w.heap[n].kind = v.heap[o].kind
      /\ w.heap[n].count = 1 /\ w.heap[n].slot = s
      /\ w \in Inventories /\ w.open = v.open \cup {s} /\ w.ground = v.ground
  BY <1>1 DEF Equipped, n
<1>4. /\ \A p \in Objects \ {n} : w.heap[p] = v.heap[p]
      /\ w.loadout[s] = n /\ w.containers[s] = <<>>
      /\ \A t \in Slots \ {s} : w.loadout[t] = v.loadout[t] /\ w.containers[t] = v.containers[t]
  BY <1>0, <1>1, <1>2 DEF Equipped, n
<1>5. /\ \A t \in Slots : v.loadout[t] # n
      /\ \A t \in Slots : \A i \in DOMAIN v.containers[t] : v.containers[t][i] # n
      /\ v.ground[n] = 0
  BY <1>2, NewIsUnused
<1>6. \A t \in Slots : \A i \in DOMAIN w.containers[t] :
         /\ t # s /\ i \in DOMAIN v.containers[t] /\ w.containers[t][i] = v.containers[t][i]
         /\ w.containers[t][i] \in Objects \ {n}
  BY <1>0, <1>4, <1>5, ContainerIs
<1>7. Named(w)
  <2>1. \A t \in Slots : \A i \in DOMAIN w.containers[t] : w.heap[w.containers[t][i]].guid # 0
    BY <1>3, <1>4, <1>6 DEF Sound, Named
  <2>2. \A p \in Objects : w.ground[p] > 0 => w.heap[p].guid # 0
    BY <1>3, <1>4 DEF Sound, Named
  <2> QED BY <2>1, <2>2 DEF Named
<1>8. Apart(w)
  <2> SUFFICES ASSUME NEW t \in Slots, NEW u \in Slots, NEW i \in DOMAIN w.containers[t]
               PROVE  /\ w.containers[t][i] # w.loadout[u]
                      /\ \A j \in DOMAIN w.containers[u] :
                            w.containers[t][i] = w.containers[u][j] => t = u
    BY DEF Apart
  <2> QED BY <1>4, <1>6 DEF Sound, Apart
<1>9. Keyed(w)
  <2> SUFFICES ASSUME NEW t \in Slots, NEW i \in DOMAIN w.containers[t], NEW j \in DOMAIN w.containers[t],
                      w.heap[w.containers[t][i]].guid = w.heap[w.containers[t][j]].guid
               PROVE  i = j
    BY DEF Keyed
  <2> QED BY <1>4, <1>6 DEF Sound, Keyed
<1>10. Fitted(w)
  <2> SUFFICES ASSUME NEW t \in Slots
               PROVE  IF t \in w.open
                      THEN /\ w.loadout[t] # 0
                           /\ w.heap[w.loadout[t]].guid # 0 /\ w.heap[w.loadout[t]].slot = t
                      ELSE w.loadout[t] = 0 /\ w.containers[t] = <<>>
    BY DEF Fitted
  <2>1. CASE t = s
    BY <1>2, <1>3, <1>4, <2>1, Numbers
  <2>2. CASE t # s /\ t \in v.open
    <3>1. v.loadout[t] \in Objects \ {n}
      BY <1>5, <2>2, InUse DEF Sound, Fitted
    <3> QED BY <1>3, <1>4, <2>2, <3>1 DEF Sound, Fitted
  <2>3. CASE t # s /\ t \notin v.open
    BY <1>3, <1>4, <2>3 DEF Sound, Fitted
  <2> QED BY <2>1, <2>2, <2>3
<1>11. Proper(l, w)
  BY <1>3, <1>4, Numbers DEF Sound, Proper, Fair
<1>12. Kept(v, w)
  BY <1>2, <1>4 DEF Kept
<1>13. \A k \in Nat : Room(v, k + 1) => Room(w, k)
  <2> SUFFICES ASSUME NEW k \in Nat, Room(v, k + 1) PROVE Room(w, k)
    OBVIOUS
  <2>1. w \in Inventories /\ \A p \in Objects \ {n} : v.heap[p].guid = 0 => w.heap[p].guid = 0
    BY <1>3, <1>4
  <2> QED BY <1>0, <1>2, <2>1, RoomLeft
<1> QED BY <1>3, <1>7, <1>8, <1>9, <1>10, <1>11, <1>12, <1>13 DEF Step, Sound, w

\* generateItem
LEMMA GenerateItemStep ==
    ASSUME NEW l, NEW v, Sound(l, v), FreeObjects(v) # {},
           NEW kind \in Kinds, NEW count \in 0 .. MaxCount, Fair(l, kind, count)
    PROVE  LET w == GenerateItem(v, kind, count)
               n == NewObject(v)
           IN
           /\ Step(l, v, w, 1)
           /\ n \in Objects /\ v.heap[n].guid = 0
           /\ w.heap[n].guid # 0 /\ w.heap[n].kind = kind /\ w.heap[n].count = count
           /\ w.heap[n].slot = 0
           /\ \A p \in Objects \ {n} : w.heap[p] = v.heap[p] /\ w.heap[p].guid # w.heap[n].guid
           /\ w.loadout = v.loadout /\ w.open = v.open
           /\ w.containers = v.containers /\ w.ground = v.ground
<1> DEFINE w == GenerateItem(v, kind, count)
           n == NewObject(v)
           item == Item(NewGuid(v), kind, count)
<1>0. v \in Inventories /\ v.heap \in [Objects -> ItemType]
  BY Fields DEF Sound
<1>1. /\ item \in ItemType
      /\ item.guid = NewGuid(v) /\ item.kind = kind /\ item.count = count /\ item.slot = 0
      /\ NewGuid(v) # 0 /\ \A p \in Objects : v.heap[p].guid # NewGuid(v)
  <2>1. NewGuid(v) \in 0 .. (LastObject + 1) /\ count \in 0 .. MaxCount /\ 0 \in {0} \cup Slots
    BY <1>0, NewGuidIs, Numbers
  <2>2. NewGuid(v) # 0 /\ \A p \in Objects : v.heap[p].guid # NewGuid(v)
    BY <1>0, NewGuidIs, Numbers
  <2> HIDE DEF w, n
  <2> QED BY <2>1, <2>2 DEF Item, ItemType
<1> HIDE DEF item
<1>2. w = Alloc(v, item)
  BY DEF GenerateItem, item
<1> HIDE DEF w
<1>3. /\ w \in Inventories
      /\ w.heap = [v.heap EXCEPT ![n] = item]
      /\ w.loadout = v.loadout /\ w.open = v.open
      /\ w.containers = v.containers /\ w.ground = v.ground
  BY <1>0, <1>1, <1>2, AllocIs
<1>4. n \in Objects /\ v.heap[n].guid = 0
  BY <1>0, NewObjectIs
<1> HIDE DEF n
<1>5. w.heap[n] = item /\ \A p \in Objects \ {n} : w.heap[p] = v.heap[p]
  BY <1>0, <1>3, <1>4
<1>6. /\ \A t \in Slots : v.loadout[t] # n
      /\ \A t \in Slots : \A i \in DOMAIN v.containers[t] :
            v.containers[t][i] # n /\ v.containers[t][i] \in Objects
  BY <1>4, NewIsUnused, InUse
<1>7. Named(w)
  <2>1. \A t \in Slots : \A i \in DOMAIN w.containers[t] : w.heap[w.containers[t][i]].guid # 0
    BY <1>3, <1>5, <1>6 DEF Sound, Named
  <2>2. \A p \in Objects : w.ground[p] > 0 => w.heap[p].guid # 0
    BY <1>1, <1>3, <1>5 DEF Sound, Named
  <2> QED BY <2>1, <2>2 DEF Named
<1>8. Apart(w)
  BY <1>3 DEF Sound, Apart
<1>9. Keyed(w)
  BY <1>3, <1>5, <1>6 DEF Sound, Keyed
<1>10. Fitted(w)
  <2>1. \A t \in v.open : t \in Slots /\ v.loadout[t] \in Objects \ {n}
    BY <1>0, <1>6, Fields, InUse DEF Sound, Fitted
  <2> QED BY <1>3, <1>5, <2>1 DEF Sound, Fitted
<1>11. Proper(l, w)
  BY <1>1, <1>5, Numbers DEF Sound, Proper, Fair
<1>12. Kept(v, w)
  BY <1>4, <1>5 DEF Kept
<1>13. \A k \in Nat : Room(v, k + 1) => Room(w, k)
  <2> SUFFICES ASSUME NEW k \in Nat, Room(v, k + 1) PROVE Room(w, k)
    OBVIOUS
  <2>1. w \in Inventories /\ \A p \in Objects \ {n} : v.heap[p].guid = 0 => w.heap[p].guid = 0
    BY <1>3, <1>5
  <2> QED BY <1>0, <1>4, <2>1, RoomLeft
<1>14. Step(l, v, w, 1)
  BY <1>3, <1>7, <1>8, <1>9, <1>10, <1>11, <1>12, <1>13 DEF Step, Sound
<1> QED BY <1>1, <1>3, <1>4, <1>5, <1>14 DEF w, n

-----------------------------------------------------------------------------
(* What the handlers are made of. *)

\* How many objects are free is a number.
LEMMA FreeIsNumber ==
    ASSUME NEW v
    PROVE  Cardinality(FreeObjects(v)) \in Nat
<1>1. IsFiniteSet(Objects)
  BY FS_Interval, Numbers
<1>2. FreeObjects(v) \subseteq Objects
  BY DEF FreeObjects
<1> QED BY <1>1, <1>2, FS_Subset, FS_CardinalityType

\* Where there is room for more there is room for less.
LEMMA RoomForLess ==
    ASSUME NEW v, NEW a \in Nat, NEW b \in Nat, a <= b, Room(v, b)
    PROVE  Room(v, a)
BY FreeIsNumber DEF Room

\* A step may take less than it might.
LEMMA StepWider ==
    ASSUME NEW l, NEW v, NEW w, NEW a \in Nat, NEW b \in Nat, a <= b, Step(l, v, w, a)
    PROVE  Step(l, v, w, b)
<1> SUFFICES ASSUME NEW k \in Nat, Room(v, k + b) PROVE Room(w, k)
  BY DEF Step
<1>1. k + a \in Nat /\ k + b \in Nat /\ k + a <= k + b
  OBVIOUS
<1>2. Room(v, k + a)
  BY <1>1, RoomForLess
<1> QED BY <1>2 DEF Step

\* Nothing is a step.
LEMMA NoStep ==
    ASSUME NEW l, NEW v, Sound(l, v)
    PROVE  Step(l, v, v, 0)
<1>1. \A k \in Nat : k + 0 = k
  OBVIOUS
<1>2. Kept(v, v)
  BY DEF Kept
<1> QED BY <1>1, <1>2 DEF Step

\* What a step leaves of the room there was.
LEMMA StepLeaves ==
    ASSUME NEW l, NEW v, NEW w, NEW a \in Nat, NEW k \in Nat, Step(l, v, w, a), Room(v, k + a)
    PROVE  Sound(l, w) /\ Kept(v, w) /\ Room(w, k)
BY DEF Step

\* The least of the slots of a set is one of them.
LEMMA LeastSlot ==
    ASSUME NEW S \in SUBSET Slots, S # {}
    PROVE  Min(S) \in S
BY Numbers, MinIn

\* lootContainerItem: to the ground, into a container that has room for it, or
\* onto a stack there.
LEMMA LootContainerCases ==
    ASSUME NEW l, NEW v, Sound(l, v), NEW o \in Objects, NEW count
    PROVE  LET w == LootContainerItem(v, o, count)
               kind == v.heap[o].kind
           IN
           \/ w = Ground(v, o)
           \/ \E s \in v.open :
                 HasSpace(v, s, kind, count) /\ w = AddContainerItem(v, o, s, count)
           \/ \E s \in v.open : \E i \in Stacks(v, s, kind, count) :
                 HasSpace(v, s, kind, count) /\ w = AddToStack(v, s, i, count)
<1> DEFINE w == LootContainerItem(v, o, count)
           kind == v.heap[o].kind
           roomy == Roomy(v, kind, count)
           s == Min(roomy)
           stacks == Stacks(v, s, kind, count)
<1>1. CASE roomy = {}
  BY <1>1 DEF LootContainerItem
<1>2. CASE roomy # {}
  <2>1. roomy \subseteq v.open /\ v.open \in SUBSET Slots
    BY Fields DEF Sound, Roomy
  <2>2. s \in roomy
    <3> HIDE DEF roomy
    <3> QED BY <1>2, <2>1, LeastSlot
  <2>3. s \in v.open /\ HasSpace(v, s, kind, count) /\ s \in Slots
    <3> HIDE DEF s
    <3> QED BY <2>1, <2>2 DEF Roomy
  <2>4. CASE stacks = {}
    <3>1. w = AddContainerItem(v, o, s, count)
      BY <1>2, <2>4 DEF LootContainerItem
    <3> HIDE DEF s
    <3> QED BY <2>3, <3>1
  <2>5. CASE stacks # {}
    <3>1. w = AddToStack(v, s, Min(stacks), count)
      BY <1>2, <2>5 DEF LootContainerItem
    <3>2. stacks \subseteq Nat
      <4>1. stacks \subseteq DOMAIN v.containers[s]
        BY DEF Stacks
      <4> HIDE DEF s, stacks
      <4>2. DOMAIN v.containers[s] = 1 .. Len(v.containers[s])
        BY <2>3, ContainerIs DEF Sound
      <4> QED BY <4>1, <4>2
    <3>3. Min(stacks) \in stacks
      <4> HIDE DEF stacks
      <4> QED BY <2>5, <3>2, MinIn
    <3> HIDE DEF s
    <3> QED BY <2>3, <3>1, <3>3
  <2> QED BY <2>4, <2>5
<1> QED BY <1>1, <1>2

\* lootContainerItem
LEMMA LootContainerItemStep ==
    ASSUME NEW l, NEW v, Sound(l, v), Room(v, 1), NEW o \in Objects, v.heap[o].guid # 0,
           NEW count \in 0 .. MaxCount, Fair(l, v.heap[o].kind, count)
    PROVE  Step(l, v, LootContainerItem(v, o, count), 1)
<1> DEFINE w == LootContainerItem(v, o, count)
           kind == v.heap[o].kind
<1>0. v \in Inventories /\ FreeObjects(v) # {} /\ v.open \in SUBSET Slots /\ kind \in Kinds
      /\ count \in 0 .. MaxCount
  BY RoomMeans, Fields, CountType, Numbers DEF Sound
<1> HIDE DEF w
<1>1. ASSUME w = Ground(v, o) PROVE Step(l, v, w, 1)
  <2>1. Step(l, v, w, 0) /\ 0 \in Nat /\ 1 \in Nat /\ 0 <= 1
    BY <1>1, GroundStep
  <2> QED BY <2>1, StepWider
<1>2. ASSUME NEW s \in v.open, w = AddContainerItem(v, o, s, count)
      PROVE  Step(l, v, w, 1)
  BY <1>0, <1>2, AddContainerItemStep
<1>3. ASSUME NEW s \in v.open, NEW i \in Stacks(v, s, kind, count), w = AddToStack(v, s, i, count)
      PROVE  Step(l, v, w, 1)
  <2> HIDE DEF kind
  <2> QED BY <1>0, <1>3, AddToStackStep, StepWider
<1>4. Step(l, v, w, 1)
  BY <1>1, <1>2, <1>3, LootContainerCases DEF w
<1> QED BY <1>4 DEF w

\* lootItem: worn, or into a container.
LEMMA LootItemStep ==
    ASSUME NEW l, NEW v, Sound(l, v), Room(v, 1), NEW o \in Objects, v.heap[o].guid # 0
    PROVE  Step(l, v, LootItem(v, o), 1)
<1>0. v \in Inventories /\ FreeObjects(v) # {} /\ v.heap[o].count \in 0 .. MaxCount
      /\ Fair(l, v.heap[o].kind, v.heap[o].count) /\ (v.heap[o].kind \in Bags => v.heap[o].kind \in Slots)
  BY RoomMeans, CountType, Numbers DEF Sound
<1>1. CASE v.heap[o].kind \in Bags /\ v.loadout[v.heap[o].kind] = Nobody
  BY <1>0, <1>1, EquipItemStep DEF LootItem
<1>2. CASE ~(v.heap[o].kind \in Bags /\ v.loadout[v.heap[o].kind] = Nobody)
  BY <1>0, <1>2, LootContainerItemStep DEF LootItem
<1> QED BY <1>1, <1>2

\* As many as asked for, or as there are.
Clamp(n, count) == IF count > n THEN n ELSE count

\* What a clamped count is.
LEMMA ClampIs ==
    ASSUME NEW n \in 0 .. MaxCount, NEW count \in 0 .. MaxCount
    PROVE  /\ Clamp(n, count) \in 0 .. MaxCount /\ Clamp(n, count) <= n
           /\ count <= n => Clamp(n, count) = count
BY Numbers DEF Clamp

\* removeInventoryItem: from the loadout, from nowhere, or from a container.
LEMMA RemoveInventoryCases ==
    ASSUME NEW l, NEW v, Sound(l, v), NEW o \in Objects, NEW count
    PROVE  LET w == RemoveInventoryItem(v, o, count)
               slot == v.heap[o].slot
           IN
           \/ /\ slot \in Slots /\ v.loadout[slot] # 0
              /\ v.heap[v.loadout[slot]].guid = v.heap[o].guid
              /\ IsWorn(v, o)
              /\ w = RemoveLoadoutItem(v, slot)
           \/ SlotsHolding(v, v.heap[o].guid) = {} /\ ~IsWorn(v, o) /\ w = v
           \/ /\ Min(SlotsHolding(v, v.heap[o].guid)) \in SlotsHolding(v, v.heap[o].guid)
              /\ ~IsWorn(v, o)
              /\ w = RemoveContainerItem(v, o, Min(SlotsHolding(v, v.heap[o].guid)),
                                         Clamp(v.heap[o].count, count))
<1> DEFINE holding == SlotsHolding(v, v.heap[o].guid)
<1>0. v.heap[o].slot \in {0} \cup Slots /\ holding \subseteq Slots
  BY Fields, ItemFields DEF Sound, SlotsHolding
<1>1. CASE IsWorn(v, o)
  BY <1>0, <1>1, Numbers DEF IsWorn, RemoveInventoryItem
<1>2. CASE ~IsWorn(v, o) /\ holding = {}
  BY <1>2 DEF RemoveInventoryItem
<1>3. CASE ~IsWorn(v, o) /\ holding # {}
  <2>1. RemoveInventoryItem(v, o, count)
          = RemoveContainerItem(v, o, Min(holding), Clamp(v.heap[o].count, count))
    BY <1>3 DEF RemoveInventoryItem, Clamp
  <2>2. Min(holding) \in holding
    <3> HIDE DEF holding
    <3> QED BY <1>0, <1>3, LeastSlot
  <2> QED BY <1>3, <2>1, <2>2
<1> QED BY <1>1, <1>2, <1>3

\* removeInventoryItem
LEMMA RemoveInventoryItemStep ==
    ASSUME NEW l, NEW v, Sound(l, v), NEW o \in Objects, v.heap[o].guid # 0,
           NEW count \in 0 .. MaxCount
    PROVE  Step(l, v, RemoveInventoryItem(v, o, count), 0)
<1> DEFINE w == RemoveInventoryItem(v, o, count)
           holding == SlotsHolding(v, v.heap[o].guid)
           s == Min(holding)
           some == Clamp(v.heap[o].count, count)
<1> HIDE DEF w
<1>0. some \in 0 .. MaxCount /\ some <= v.heap[o].count
  BY CountType, ClampIs
<1>1. ASSUME s \in holding, w = RemoveContainerItem(v, o, s, some)
      PROVE  Step(l, v, w, 0)
  <2> HIDE DEF s, some
  <2> QED BY <1>0, <1>1, RemoveContainerItemStep
<1>2. ASSUME v.heap[o].slot \in Slots, w = RemoveLoadoutItem(v, v.heap[o].slot)
      PROVE  Step(l, v, w, 0)
  BY <1>2, RemoveLoadoutItemStep
<1>3. w = v => Step(l, v, w, 0)
  BY NoStep
<1>4. Step(l, v, w, 0)
  BY <1>1, <1>2, <1>3, RemoveInventoryCases DEF w
<1> QED BY <1>4 DEF w

\* Two steps in a row.
LEMMA StepsTo ==
    ASSUME NEW l, NEW u, NEW v, NEW w, NEW a \in Nat, NEW b \in Nat, NEW c \in Nat, a + b <= c,
           Step(l, u, v, a), Step(l, v, w, b)
    PROVE  Step(l, u, w, c)
<1>1. Step(l, u, w, a + b) /\ a + b \in Nat
  BY StepsCompose
<1> QED BY <1>1, StepWider

\* A request that counts what there is, as long as none was miscounted.
Said(l, n, count) == "miscount" \notin l => count \in 1 .. n

\* What such a request names is a count an item in use has.
LEMMA SaidFair ==
    ASSUME NEW l, NEW kind, NEW n \in Nat, Fair(l, kind, n), NEW count \in Nat, Said(l, n, count)
    PROVE  Fair(l, kind, count)
BY DEF Fair, Said

\* dropItem
LEMMA DropItemStep ==
    ASSUME NEW l, NEW v, Sound(l, v), Room(v, 1), NEW o \in Objects, v.heap[o].guid # 0,
           NEW count \in 0 .. MaxCount, Said(l, v.heap[o].count, count)
    PROVE  Step(l, v, DropItem(v, o, count), 1)
<1> DEFINE removed == RemoveInventoryItem(v, o, count)
           generated == GenerateItem(removed, v.heap[o].kind, count)
           n == NewObject(removed)
<1>0. v.heap[o].kind \in Kinds /\ Fair(l, v.heap[o].kind, count)
  BY CountType, SaidFair, Numbers
<1>1. Step(l, v, removed, 0)
  BY RemoveInventoryItemStep
<1> HIDE DEF removed
<1>2. /\ Sound(l, removed) /\ removed.heap[o].guid # 0
      /\ removed \in Inventories /\ FreeObjects(removed) # {}
  <2>1. 1 \in Nat \ {0} /\ 0 \in Nat /\ 1 + 0 = 1
    OBVIOUS
  <2>2. Sound(l, removed) /\ Kept(v, removed) /\ Room(removed, 1)
    BY <1>1, <2>1, StepLeaves
  <2> QED BY <2>1, <2>2, RoomMeans DEF Kept, Sound
<1>3. Step(l, removed, Ground(removed, o), 0)
  BY <1>2, GroundStep
<1>4. Step(l, removed, generated, 1) /\ n \in Objects /\ generated.heap[n].guid # 0
  BY <1>0, <1>2, GenerateItemStep
<1> HIDE DEF generated, n
<1>5. Step(l, generated, Ground(generated, n), 0)
  BY <1>4, GroundStep DEF Step
<1>6. /\ Step(l, v, Ground(removed, o), 1) /\ Step(l, v, removed, 1)
      /\ Step(l, removed, Ground(generated, n), 1)
  BY <1>1, <1>3, <1>4, <1>5, StepsTo, StepWider
<1>7. Step(l, v, Ground(generated, n), 1)
  BY <1>1, <1>6, StepsTo
<1>8. \/ DropItem(v, o, count) = Ground(removed, o)
      \/ DropItem(v, o, count) = Ground(generated, n)
      \/ DropItem(v, o, count) = removed
  BY DEF DropItem, removed, generated, n
<1> QED BY <1>6, <1>7, <1>8

\* equipContainerItem
LEMMA EquipContainerItemStep ==
    ASSUME NEW l, NEW v, Sound(l, v), Room(v, 2), NEW s \in Slots,
           NEW o \in Objects, v.heap[o].guid # 0, v.heap[o].kind = s, v.heap[o].count > 0,
           Min(SlotsHolding(v, v.heap[o].guid)) \in SlotsHolding(v, v.heap[o].guid)
    PROVE  Step(l, v, EquipContainerItem(v, o, s), 2)
<1> DEFINE from == Min(SlotsHolding(v, v.heap[o].guid))
           old == v.loadout[s]
           taken == RemoveContainerItem(v, o, from, 1)
           removed == RemoveLoadoutItem(taken, s)
           stowed == IF old = Nobody THEN taken ELSE LootContainerItem(removed, old, 1)
<1>0. /\ 1 <= v.heap[o].count /\ 1 \in 0 .. MaxCount /\ 1 \in Nat /\ 2 \in Nat /\ 0 \in Nat
      /\ \A kind : Fair(l, kind, 1)
  BY CountType, Numbers DEF Fair
<1>1. Step(l, v, taken, 0)
  <2> HIDE DEF from
  <2> QED BY <1>0, RemoveContainerItemStep DEF from
<1> HIDE DEF taken, from
<1>2. Step(l, taken, removed, 0)
  BY <1>1, RemoveLoadoutItemStep DEF Step
<1> HIDE DEF removed
<1>3. ASSUME old # Nobody PROVE Step(l, removed, LootContainerItem(removed, old, 1), 1)
  <2>1. old \in Objects /\ v.heap[old].guid # 0
    BY <1>3, InUse, Numbers
  <2> HIDE DEF old
  <2>2. Sound(l, removed) /\ removed.heap[old].guid # 0
    BY <1>1, <1>2, <2>1 DEF Step, Kept
  <2>3. Room(taken, 1 + 1)
    BY <1>1, StepLeaves, 2 + 0 = 2, 1 + 1 = 2, <1>0
  <2>4. Room(removed, 1)
    <3>1. Room(taken, 1)
      BY <1>0, <2>3, RoomForLess, 1 <= 2, 1 + 1 = 2
    <3> QED BY <1>0, <1>2, <3>1, StepLeaves, 1 + 0 = 1
  <2> QED BY <1>0, <2>1, <2>2, <2>4, LootContainerItemStep
<1>4. Step(l, v, stowed, 1)
  <2>1. CASE old = Nobody
    BY <1>0, <1>1, <2>1, StepWider, 0 <= 1
  <2>2. CASE old # Nobody
    <3>1. Step(l, v, removed, 0)
      BY <1>1, <1>2, StepsTo, 0 + 0 <= 0, <1>0
    <3>2. stowed = LootContainerItem(removed, old, 1)
      BY <2>2
    <3> HIDE DEF stowed, old
    <3> QED BY <1>0, <1>3, <2>2, <3>1, <3>2, StepsTo, 0 + 1 <= 1
  <2> QED BY <2>1, <2>2
<1> HIDE DEF stowed
<1>5. Step(l, stowed, EquipItem(stowed, o, s), 1)
  <2>1. /\ Sound(l, stowed) /\ stowed.heap[o].guid # 0 /\ stowed.heap[o].kind = s
        /\ Room(stowed, 1)
    BY <1>0, <1>4, StepLeaves, 1 + 1 = 2 DEF Kept
  <2>2. FreeObjects(stowed) # {}
    BY <1>0, <2>1, RoomMeans DEF Sound
  <2> QED BY <2>1, <2>2, EquipItemStep
<1>6. Step(l, v, EquipItem(stowed, o, s), 2)
  BY <1>0, <1>4, <1>5, StepsTo, 1 + 1 <= 2
<1>7. \/ EquipContainerItem(v, o, s) = EquipItem(stowed, o, s)
      \/ EquipContainerItem(v, o, s) = taken
  BY DEF EquipContainerItem, stowed, removed, taken, from
<1>8. Step(l, v, taken, 2)
  BY <1>0, <1>1, StepWider, 0 <= 2
<1> QED BY <1>6, <1>7, <1>8

\* A moved item is put into its container.
LEMMA PutMovedStep ==
    ASSUME NEW l, NEW v, Sound(l, v), Room(v, 2), NEW o \in Objects, v.heap[o].guid # 0,
           NEW s \in v.open, NEW whole \in BOOLEAN,
           NEW count \in 0 .. MaxCount, Fair(l, v.heap[o].kind, count)
    PROVE  Step(l, v, PutMoved(v, o, s, whole, count), 2)
<1> DEFINE generated == GenerateItem(v, v.heap[o].kind, 1)
           n == NewObject(v)
<1>0. /\ FreeObjects(v) # {} /\ v.heap[o].kind \in Kinds
      /\ 0 \in Nat /\ 1 \in Nat /\ 2 \in Nat \ {0} /\ 1 \in 0 .. MaxCount
      /\ Fair(l, v.heap[o].kind, 1)
  BY RoomMeans, CountType, Numbers DEF Sound, Fair
<1>1. CASE whole
  <2>1. Step(l, v, AddContainerItem(v, o, s, count), 1)
    BY <1>0, AddContainerItemStep
  <2> QED BY <1>0, <1>1, <2>1, StepWider, 1 <= 2 DEF PutMoved
<1>2. CASE ~whole
  <2>1. /\ Step(l, v, generated, 1) /\ n \in Objects /\ generated.heap[n].guid # 0
        /\ generated.heap[n].kind = v.heap[o].kind /\ generated.open = v.open
    BY <1>0, GenerateItemStep
  <2> HIDE DEF generated, n
  <2>2. Sound(l, generated) /\ Room(generated, 1)
    BY <1>0, <2>1, StepLeaves, 1 + 1 = 2
  <2>3. FreeObjects(generated) # {}
    BY <1>0, <2>2, RoomMeans DEF Sound
  <2>4. Step(l, generated, AddContainerItem(generated, n, s, count), 1)
    BY <2>1, <2>2, <2>3, AddContainerItemStep
  <2>5. PutMoved(v, o, s, whole, count) = AddContainerItem(generated, n, s, count)
    BY <1>2 DEF PutMoved, generated, n
  <2> QED BY <1>0, <2>1, <2>4, <2>5, StepsTo, 1 + 1 <= 2
<1> QED BY <1>1, <1>2

\* removeContainerItem leaves the loadout and the ground alone.
LEMMA RemoveContainerItemLeaves ==
    ASSUME NEW l, NEW v, Sound(l, v), NEW o \in Objects, v.heap[o].guid # 0,
           NEW s \in SlotsHolding(v, v.heap[o].guid),
           NEW count \in 0 .. MaxCount, count <= v.heap[o].count
    PROVE  LET w == RemoveContainerItem(v, o, s, count) IN
           /\ w.loadout = v.loadout /\ w.open = v.open /\ w.ground = v.ground
           /\ \A p \in Objects \ {o} : w.heap[p] = v.heap[p]
           /\ \A t \in Slots \ {s} : w.containers[t] = v.containers[t]
<1>0. /\ v.heap[o].count \in Nat /\ count \in Nat /\ count \in 0 .. MaxCount /\ s \in Slots
      /\ v \in Inventories
  BY CountType, Numbers DEF SlotsHolding, Sound
<1>1. CASE count = v.heap[o].count
  BY <1>0, <1>1, RemoveWholeIs
<1>2. CASE count < v.heap[o].count
  BY <1>0, <1>2, RemovePartIs
<1> QED BY <1>0, <1>1, <1>2

\* containerMoveItem to the end.
LEMMA MoveToEndStep ==
    ASSUME NEW l, NEW v, Sound(l, v), Room(v, 2), NEW o \in Objects, v.heap[o].guid # 0,
           NEW from \in SlotsHolding(v, v.heap[o].guid), NEW to \in v.open,
           NEW count \in 0 .. MaxCount, count <= v.heap[o].count,
           Said(l, v.heap[o].count, count)
    PROVE  Step(l, v, MoveToEnd(v, o, from, to, count), 2)
<1> DEFINE removed == RemoveContainerItem(v, o, from, count)
           whole == v.heap[o].count = count
<1>0. Fair(l, v.heap[o].kind, count) /\ 2 + 0 = 2 /\ 0 + 2 <= 2 /\ 0 \in Nat /\ 2 \in Nat
  BY CountType, SaidFair, Numbers
<1>1. Step(l, v, removed, 0) /\ removed.open = v.open
  BY RemoveContainerItemStep, RemoveContainerItemLeaves
<1> HIDE DEF removed
<1>2. /\ Sound(l, removed) /\ Room(removed, 2)
      /\ removed.heap[o].guid # 0 /\ removed.heap[o].kind = v.heap[o].kind
  BY <1>0, <1>1, StepLeaves DEF Kept
<1>3. Step(l, removed, PutMoved(removed, o, to, whole, count), 2)
  <2>1. whole \in BOOLEAN
    OBVIOUS
  <2> HIDE DEF whole
  <2> QED BY <1>0, <1>1, <1>2, <2>1, PutMovedStep
<1>4. MoveToEnd(v, o, from, to, count) = PutMoved(removed, o, to, whole, count)
  BY DEF MoveToEnd, removed
<1> HIDE DEF whole
<1> QED BY <1>0, <1>1, <1>3, <1>4, StepsTo

\* containerMoveItem onto the item at a slot.
LEMMA MoveOntoStep ==
    ASSUME NEW l, NEW v, Sound(l, v), Room(v, 2), NEW o \in Objects, v.heap[o].guid # 0,
           NEW from \in SlotsHolding(v, v.heap[o].guid), NEW to \in v.open, NEW i,
           NEW count \in 0 .. MaxCount, count <= v.heap[o].count,
           Said(l, v.heap[o].count, count)
    PROVE  Step(l, v, MoveOnto(v, o, from, to, i, count), 2)
<1> DEFINE removed == RemoveContainerItem(v, o, from, count)
           kind == v.heap[o].kind
<1>0. /\ 0 <= 2 /\ 0 + 0 <= 2 /\ 0 \in Nat /\ 2 \in Nat
      /\ count \in 0 .. MaxCount /\ to \in Slots /\ kind \in Kinds
  BY Fields, CountType, Numbers DEF Sound
<1>1. Step(l, v, removed, 0)
  BY RemoveContainerItemStep
<1>2. CASE i \in Stacks(removed, to, kind, count)
  <2>1. MoveOnto(v, o, from, to, i, count) = AddToStack(removed, to, i, count)
    BY <1>2 DEF MoveOnto
  <2> HIDE DEF removed, kind
  <2>2. Step(l, removed, AddToStack(removed, to, i, count), 0)
    BY <1>0, <1>1, <1>2, AddToStackStep DEF Step
  <2> QED BY <1>0, <1>1, <2>1, <2>2, StepsTo
<1>3. CASE i \notin Stacks(removed, to, kind, count)
  <2>1. MoveOnto(v, o, from, to, i, count) = MoveToEnd(v, o, from, to, count)
    BY <1>3 DEF MoveOnto, MoveToEnd
  <2> QED BY <2>1, MoveToEndStep
<1> QED BY <1>2, <1>3

\* A worn bag goes to a container.
LEMMA StowWornStep ==
    ASSUME NEW l, NEW v, Sound(l, v), Room(v, 1), NEW s \in Slots, v.loadout[s] # Nobody,
           NEW to \in v.open, NEW count \in 0 .. MaxCount, Said(l, v.heap[v.loadout[s]].count, count)
    PROVE  Step(l, v, StowWorn(v, s, to, count), 1)
<1> DEFINE removed == RemoveLoadoutItem(v, s)
           old == v.loadout[s]
<1>0. /\ 0 <= 1 /\ 0 + 1 <= 1 /\ 1 + 0 = 1 /\ 0 \in Nat /\ 1 \in Nat \ {0}
      /\ old \in Objects /\ v.heap[old].guid # 0 /\ v \in Inventories
      /\ Fair(l, v.heap[old].kind, count)
  <2>1. old \in Objects /\ v.heap[old].guid # 0 /\ v \in Inventories
    BY InUse, Numbers
  <2> HIDE DEF old
  <2>2. Fair(l, v.heap[old].kind, count)
    BY <2>1, CountType, SaidFair, Numbers DEF old
  <2> QED BY <2>1, <2>2
<1>1. Step(l, v, removed, 0) /\ removed.open = v.open \ {s}
  BY <1>0, RemoveLoadoutItemStep, RemoveLoadoutItemIs
<1> HIDE DEF removed, old
<1>2. CASE to = s
  <2>1. StowWorn(v, s, to, count) = removed
    BY <1>2 DEF StowWorn, removed
  <2> QED BY <1>0, <1>1, <2>1, StepWider
<1>3. CASE to # s
  <2>1. /\ Sound(l, removed) /\ Room(removed, 1) /\ removed.heap[old].guid # 0
        /\ removed.heap[old].kind = v.heap[old].kind
    BY <1>0, <1>1, StepLeaves DEF Kept
  <2>2. FreeObjects(removed) # {}
    BY <1>0, <2>1, RoomMeans DEF Sound
  <2>3. Step(l, removed, AddContainerItem(removed, old, to, count), 1)
    BY <1>0, <1>1, <1>3, <2>1, <2>2, AddContainerItemStep
  <2>4. StowWorn(v, s, to, count) = AddContainerItem(removed, old, to, count)
    BY <1>3 DEF StowWorn, removed, old
  <2> QED BY <1>0, <1>1, <2>3, <2>4, StepsTo
<1> QED BY <1>2, <1>3

\* Nothing but the heap of v differs in w, and that in what nothing refers to.
Tidied(v, t, w) ==
    /\ w \in Inventories
    /\ w.loadout = v.loadout /\ w.open = v.open
    /\ w.containers = v.containers /\ w.ground = v.ground
    /\ \A o \in Objects :
         w.heap[o] = IF o \in Live(v) \/ o = t.obj THEN v.heap[o] ELSE Unused

\* What collecting leaves of an inventory.
LEMMA CollectedHeap ==
    ASSUME NEW v \in Inventories, NEW t, NEW w, w = Collected(v, t)
    PROVE  Tidied(v, t, w)
<1> DEFINE h == [o \in Objects |-> IF o \in Live(v) \/ o = t.obj THEN v.heap[o] ELSE Unused]
           x == [v EXCEPT !.heap = h]
<1>1. Unused \in ItemType /\ v.heap \in [Objects -> ItemType]
  BY Numbers, Fields DEF Unused, Item, ItemType
<1>2. h \in [Objects -> ItemType]
  BY <1>1
<1>3. w = x
  BY DEF Collected
<1>4. \A o \in Objects : h[o] = IF o \in Live(v) \/ o = t.obj THEN v.heap[o] ELSE Unused
  OBVIOUS
<1>5. /\ x \in Inventories /\ x.heap = h
      /\ x.loadout = v.loadout /\ x.open = v.open
      /\ x.containers = v.containers /\ x.ground = v.ground
  <2> HIDE DEF h
  <2> QED BY <1>2, HeapSet
<1> HIDE DEF x, h
<1> QED BY <1>3, <1>4, <1>5 DEF Tidied

\* Objects that nothing refers to are collected; whatever is referred to stays.
LEMMA CollectedIs ==
    ASSUME NEW l, NEW v, Sound(l, v), NEW t, NEW w, w = Collected(v, t)
    PROVE  /\ Sound(l, w)
           /\ w.loadout = v.loadout /\ w.open = v.open
           /\ w.containers = v.containers /\ w.ground = v.ground
           /\ \A o \in Live(v) : o \in Objects /\ w.heap[o] = v.heap[o]
           /\ \A o \in Objects : o = t.obj => w.heap[o] = v.heap[o]
           /\ \A o \in Objects : w.heap[o] = v.heap[o] \/ w.heap[o].guid = 0
<1>0. v \in Inventories /\ v.open \in SUBSET Slots
  BY Fields DEF Sound
<1>1. Unused.guid = 0
  BY DEF Unused, Item
<1>2. Tidied(v, t, w)
  BY <1>0, CollectedHeap
<1>3. /\ w \in Inventories
      /\ w.loadout = v.loadout /\ w.open = v.open
      /\ w.containers = v.containers /\ w.ground = v.ground
  BY <1>2 DEF Tidied
<1>4. \A o \in Objects : w.heap[o] = IF o \in Live(v) \/ o = t.obj THEN v.heap[o] ELSE Unused
  BY <1>2 DEF Tidied
<1>6. /\ \A s \in v.open : v.loadout[s] \in Objects /\ v.loadout[s] \in Live(v)
      /\ \A s \in Slots : \A i \in DOMAIN v.containers[s] :
            v.containers[s][i] \in Objects /\ v.containers[s][i] \in Live(v)
      /\ \A o \in Objects : v.ground[o] > 0 => o \in Live(v)
  <2>1. \A s \in v.open : v.loadout[s] \in Objects /\ v.loadout[s] \in Live(v)
    BY <1>0, InUse, WornMeans DEF Sound, Fitted, Live
  <2>2. \A s \in Slots : \A i \in DOMAIN v.containers[s] :
            v.containers[s][i] \in Objects /\ v.containers[s][i] \in Live(v)
    BY <1>0, InUse, HeldMeans DEF Live
  <2>3. \A o \in Objects : v.ground[o] > 0 => o \in Live(v)
    BY DEF Live, Lying
  <2> QED BY <2>1, <2>2, <2>3
<1>7. Proper(l, w)
  BY <1>1, <1>4 DEF Sound, Proper, Fair
<1>8. Named(w)
  BY <1>3, <1>4, <1>6 DEF Sound, Named
<1>9. Apart(w)
  BY <1>3 DEF Sound, Apart
<1>10. Keyed(w)
  BY <1>3, <1>4, <1>6 DEF Sound, Keyed
<1>11. Fitted(w)
  BY <1>3, <1>4, <1>6 DEF Sound, Fitted
<1>12. Sound(l, w)
  BY <1>3, <1>7, <1>8, <1>9, <1>10, <1>11 DEF Sound
<1>13. /\ \A o \in Live(v) : o \in Objects /\ w.heap[o] = v.heap[o]
       /\ \A o \in Objects : o = t.obj => w.heap[o] = v.heap[o]
       /\ \A o \in Objects : w.heap[o] = v.heap[o] \/ w.heap[o].guid = 0
  BY <1>1, <1>4, InUse
<1> QED BY <1>3, <1>12, <1>13

-----------------------------------------------------------------------------
(* The invariant, and what the player and the timers do. *)

\* What a timer runs on.
Timed ==
    /\ timer \in [use: {"none", "consume", "shred"}, obj: {Nobody} \cup Objects]
    /\ timer.use # "none" => timer.obj \in Objects /\ inv.heap[timer.obj].guid # 0
    /\ timer.use = "consume" => inv.heap[timer.obj].kind = Food
    /\ timer.use = "shred" => inv.heap[timer.obj].kind \in Bags

\* The lapses the model tells apart.
Lapses == {"busy", "split", "overfill", "full bag", "miscount", "own slot"}

\* The invariant that the others rest on.
IInv ==
    /\ Sound(lapses, inv)
    /\ Timed
    /\ ledger \in [Kinds -> Int]
    /\ lapses \subseteq Lapses
    /\ requests \in 0 .. MaxRequests

\* The fields of a timer.
LEMMA TimerIs ==
    ASSUME NEW t \in [use: {"none", "consume", "shred"}, obj: {Nobody} \cup Objects]
    PROVE  t.use \in {"none", "consume", "shred"} /\ t.obj \in {Nobody} \cup Objects
OBVIOUS

\* No timer.
LEMMA NoTimer ==
    /\ NoUse \in [use: {"none", "consume", "shred"}, obj: {Nobody} \cup Objects]
    /\ NoUse.use = "none" /\ NoUse.obj = Nobody
BY DEF NoUse

\* What is sound after some lapses is sound after more.
LEMMA SoundAfter ==
    ASSUME NEW l, NEW m, l \subseteq m, NEW v, Sound(l, v)
    PROVE  Sound(m, v)
<1>1. \A kind, count : Fair(l, kind, count) => Fair(m, kind, count)
  BY DEF Fair
<1>2. Proper(m, v)
  BY <1>1 DEF Sound, Proper
<1> QED BY <1>2 DEF Sound

\* The item of the timer is not collected.
LEMMA CollectedKeeps ==
    ASSUME NEW l, NEW v, Sound(l, v), NEW t, NEW w, w = Collected(v, t)
    PROVE  Sound(l, w) /\ \A o \in Objects : o = t.obj => w.heap[o] = v.heap[o]
<1>1. Sound(l, w)
  BY CollectedIs
<1>2. v \in Inventories
  BY DEF Sound
<1>3. \A o \in Objects : o = t.obj => w.heap[o] = v.heap[o]
  <2>1. Tidied(v, t, w)
    BY <1>2, CollectedHeap
  <2> QED BY <2>1 DEF Tidied
<1> QED BY <1>1, <1>3

\* One request more.
LEMMA RequestCounts ==
    ASSUME requests \in 0 .. MaxRequests, Request
    PROVE  requests' \in 0 .. MaxRequests
<1>1. requests < MaxRequests /\ requests' = requests + 1 /\ MaxRequests \in Nat
  BY InventoryAssumption DEF Request
<1> QED BY <1>1

\* What ends a step: the objects nothing refers to are collected, and the item
\* of the timer stays what it is.
LEMMA Settled ==
    ASSUME IInv, NEW l, l \subseteq lapses', NEW v, Sound(l, v), Kept(inv, v),
           timer' = timer \/ timer' = NoUse, inv' = Collected(v, timer')
    PROVE  Sound(lapses', inv') /\ Timed'
<1>1. /\ Sound(l, inv')
      /\ \A o \in Objects : o = timer'.obj => inv'.heap[o] = v.heap[o]
  <2> DEFINE w == inv'
             t == timer'
  <2>1. w = Collected(v, t)
    OBVIOUS
  <2> HIDE DEF w, t
  <2>2. Sound(l, w) /\ \A o \in Objects : o = t.obj => w.heap[o] = v.heap[o]
    <3>1. Sound(l, w)
      BY <2>1, CollectedIs
    <3>2. v \in Inventories
      BY DEF Sound
    <3>3. \A o \in Objects : o \in Live(v) \/ o = t.obj => w.heap[o] = v.heap[o]
      <4>1. Tidied(v, t, w)
        BY <2>1, <3>2, CollectedHeap
      <4> QED BY <4>1 DEF Tidied
    <3> QED BY <3>1, <3>3
  <2> QED BY <2>2 DEF w, t
<1>2. Sound(lapses', inv')
  BY <1>1, SoundAfter
<1>3. CASE timer' = NoUse
  BY <1>2, <1>3, NoTimer DEF Timed
<1>4. CASE timer' = timer
  <2>1. timer.use # "none" =>
          /\ timer.obj \in Objects /\ inv.heap[timer.obj].guid # 0
          /\ inv'.heap[timer.obj].guid = inv.heap[timer.obj].guid
          /\ inv'.heap[timer.obj].kind = inv.heap[timer.obj].kind
    BY <1>1, <1>4 DEF IInv, Timed, Kept
  <2> QED BY <1>2, <1>4, <2>1 DEF IInv, Timed
<1> QED BY <1>2, <1>3, <1>4

\* The step of a request.
LEMMA RequestDone ==
    ASSUME IInv, NEW touched, NEW careless, careless \subseteq Lapses, NEW v,
           Sound(lapses \cup careless, v), Kept(inv, v), Done(v, touched, careless)
    PROVE  IInv'
<1>1. /\ timer' = timer /\ ledger' = ledger /\ inv' = Collected(v, timer')
      /\ lapses' = lapses \cup Busy(touched, v) \cup careless
  BY DEF Done
<1>2. requests' \in 0 .. MaxRequests
  BY RequestCounts DEF Done, IInv
<1>3. Busy(touched, v) \subseteq Lapses
  BY DEF Busy, Lapses
<1>4. lapses \cup careless \subseteq lapses' /\ lapses' \subseteq Lapses
  BY <1>1, <1>3 DEF IInv
<1>5. Sound(lapses', inv') /\ Timed'
  BY <1>1, <1>4, Settled
<1> QED BY <1>1, <1>2, <1>4, <1>5 DEF IInv

\* What is carried is in use, and is found where it is.
LEMMA CarriedIs ==
    ASSUME NEW l, NEW v, Sound(l, v), NEW o \in Objects
    PROVE  /\ o \in Held(v) \/ o \in Worn(v) \/ o \in Lying(v) => v.heap[o].guid # 0
           /\ o \in Held(v) =>
                 Min(SlotsHolding(v, v.heap[o].guid)) \in SlotsHolding(v, v.heap[o].guid)
           /\ SlotsHolding(v, v.heap[o].guid) \subseteq Slots
<1>0. v \in Inventories
  BY DEF Sound
<1> DEFINE holding == SlotsHolding(v, v.heap[o].guid)
<1>1. o \in Held(v) \/ o \in Worn(v) \/ o \in Lying(v) => v.heap[o].guid # 0
  BY InUse DEF Live
<1>2. holding \subseteq Slots
  BY DEF SlotsHolding
<1>3. ASSUME o \in Held(v) PROVE Min(holding) \in holding
  <2>1. PICK s \in Slots : \E i \in DOMAIN v.containers[s] : v.containers[s][i] = o
    BY <1>0, <1>3, HeldMeans
  <2>2. s \in holding
    BY <2>1 DEF SlotsHolding, Positions
  <2> HIDE DEF holding
  <2> QED BY <1>2, <2>2, LeastSlot
<1> QED BY <1>1, <1>2, <1>3

\* Where there is room for three there is room for one and for two.
LEMMA RoomForAll ==
    ASSUME Roomy3
    PROVE  Room(inv, 3) /\ Room(inv, 2) /\ Room(inv, 1) /\ FreeObjects(inv) # {}
<1>1. Room(inv, 3)
  BY DEF Roomy3, Room
<1>2. Room(inv, 2) /\ Room(inv, 1)
  BY <1>1, RoomForLess, 2 <= 3, 1 <= 3
<1>3. FreeObjects(inv) # {}
  BY <1>2, FS_EmptySet DEF Room
<1> QED BY <1>1, <1>2, <1>3

\* lootItem takes nothing off the ground.
LEMMA LootItemGround ==
    ASSUME NEW l, NEW v, Sound(l, v), Room(v, 1), NEW o \in Objects, v.heap[o].guid # 0
    PROVE  LET w == LootItem(v, o) IN
           w.ground \in [Objects -> Nat] /\ \A p \in Objects : w.ground[p] >= v.ground[p]
<1> DEFINE w == LootItem(v, o)
           kind == v.heap[o].kind
           count == v.heap[o].count
<1>0. /\ v \in Inventories /\ FreeObjects(v) # {} /\ v.open \in SUBSET Slots
      /\ v.ground \in [Objects -> Nat] /\ Keyed(v)
      /\ count \in 0 .. MaxCount /\ (kind \in Bags => kind \in Slots) /\ kind \in Kinds
  BY RoomMeans, Fields, CountType, Numbers DEF Sound
<1>1. CASE kind \in Bags /\ v.loadout[kind] = Nobody
  <2>1. w = EquipItem(v, o, kind)
    BY <1>1 DEF LootItem
  <2>2. Equipped(v, w, o, kind)
    BY <1>0, <1>1, <2>1, EquipItemIs
  <2>3. w.ground = v.ground
    BY <2>2 DEF Equipped
  <2> QED BY <1>0, <2>3
<1>2. CASE ~(kind \in Bags /\ v.loadout[kind] = Nobody)
  <2>1. w = LootContainerItem(v, o, count)
    BY <1>2 DEF LootItem
  <2> HIDE DEF w, count, kind
  <2>2. ASSUME w = Ground(v, o)
        PROVE  w.ground \in [Objects -> Nat] /\ \A p \in Objects : w.ground[p] >= v.ground[p]
    <3>1. w.ground = [v.ground EXCEPT ![o] = @ + 1]
      BY <1>0, <2>2, GroundIs
    <3> QED BY <1>0, <3>1
  <2>3. ASSUME NEW s \in v.open, w = AddContainerItem(v, o, s, count)
        PROVE  w.ground = v.ground
    BY <1>0, <2>3, AddContainerItemIs DEF Filed
  <2>4. ASSUME NEW s \in v.open, NEW i \in Stacks(v, s, kind, count), w = AddToStack(v, s, i, count)
        PROVE  w.ground = v.ground
    BY <1>0, <2>4, AddToStackIs, AddToStackStep
  <2>5. \/ w = Ground(v, o)
        \/ \E s \in v.open : w = AddContainerItem(v, o, s, count)
        \/ \E s \in v.open : \E i \in Stacks(v, s, kind, count) : w = AddToStack(v, s, i, count)
    BY <2>1, LootContainerCases DEF kind
  <2>6. w.ground \in [Objects -> Nat] /\ \A p \in Objects : w.ground[p] >= v.ground[p]
    BY <1>0, <2>2, <2>3, <2>4, <2>5
  <2> QED BY <2>6 DEF w
<1> QED BY <1>1, <1>2

\* pickupItem
LEMMA PickUpStep ==
    ASSUME NEW l, Sound(l, inv), NEW o \in Objects, o \in Lying(inv), Roomy3
    PROVE  Step(l, inv, [LootItem(inv, o) EXCEPT !.ground[o] = @ - 1], 1)
<1> DEFINE looted == LootItem(inv, o)
           g == [looted.ground EXCEPT ![o] = @ - 1]
           w == [looted EXCEPT !.ground = g]
<1>0. /\ Sound(l, inv) /\ inv.heap[o].guid # 0 /\ Room(inv, 1)
      /\ inv.ground \in [Objects -> Nat] /\ inv.ground[o] > 0
  BY CarriedIs, RoomForAll, Fields DEF Lying, Sound
<1>1. Step(l, inv, looted, 1)
  BY <1>0, LootItemStep
<1>2. looted.ground \in [Objects -> Nat] /\ \A p \in Objects : looted.ground[p] >= inv.ground[p]
  BY <1>0, LootItemGround
<1>3. [LootItem(inv, o) EXCEPT !.ground[o] = @ - 1] = w
  <2>1. looted \in Inventories
    BY <1>1 DEF Step, Sound
  <2> HIDE DEF looted
  <2>2. [looted EXCEPT !.ground[o] = @ - 1] = w
    BY <2>1 DEF Inventories
  <2> QED BY <2>2 DEF looted
<1> HIDE DEF looted
<1>4. g \in [Objects -> Nat] /\ \A p \in Objects : g[p] > 0 => looted.ground[p] > 0
  BY <1>0, <1>2
<1> HIDE DEF g
<1>5. /\ w \in Inventories /\ w.heap = looted.heap /\ w.ground = g
      /\ w.loadout = looted.loadout /\ w.open = looted.open /\ w.containers = looted.containers
  BY <1>1, <1>4, GroundSet DEF Step, Sound
<1> HIDE DEF w
<1>6. Step(l, looted, w, 0)
  <2>1. Sound(l, looted)
    BY <1>1 DEF Step
  <2>2. \A p \in Objects :
          /\ looted.heap[p].guid # 0 => Fair(l, looted.heap[p].kind, looted.heap[p].count)
          /\ w.ground[p] > 0 => looted.heap[p].guid # 0
    BY <1>4, <1>5, <2>1 DEF Sound, Proper, Named
  <2> QED BY <1>5, <2>1, <2>2, SameShapeStep
<1>7. Step(l, inv, w, 1)
  BY <1>1, <1>6, StepsTo, 1 \in Nat, 0 \in Nat, 1 + 0 <= 1
<1> QED BY <1>3, <1>7

\* containerMoveItem between containers
LEMMA MoveStep ==
    ASSUME NEW l, Sound(l, inv), NEW o \in Objects, o \in Held(inv),
           NEW to \in Slots, Open(to), Roomy3, NEW count \in 0 .. MaxCount,
           count <= inv.heap[o].count, Said(l, inv.heap[o].count, count)
    PROVE  LET from == Min(SlotsHolding(inv, inv.heap[o].guid)) IN
           /\ Step(l, inv, MoveToEnd(inv, o, from, to, count), 2)
           /\ \A i : Step(l, inv, MoveOnto(inv, o, from, to, i, count), 2)
<1> DEFINE from == Min(SlotsHolding(inv, inv.heap[o].guid))
<1>1. /\ Sound(l, inv) /\ inv.heap[o].guid # 0 /\ Room(inv, 2) /\ to \in inv.open
      /\ from \in SlotsHolding(inv, inv.heap[o].guid)
  BY CarriedIs, RoomForAll DEF Open
<1> HIDE DEF from
<1>2. Step(l, inv, MoveToEnd(inv, o, from, to, count), 2)
  BY <1>1, MoveToEndStep
<1>3. \A i : Step(l, inv, MoveOnto(inv, o, from, to, i, count), 2)
  BY <1>1, MoveOntoStep
<1> QED BY <1>2, <1>3 DEF from

\* What is left after a use.
LEMMA ConsumeStep ==
    ASSUME NEW l, Sound(l, inv), Timed, timer.use = "consume", Roomy3
    PROVE  LET removed == RemoveInventoryItem(inv, timer.obj, 1) IN
           Step(l, inv, LootContainerItem(GenerateItem(removed, Trash, 1), NewObject(removed), 1), 2)
<1> DEFINE removed == RemoveInventoryItem(inv, timer.obj, 1)
           generated == GenerateItem(removed, Trash, 1)
           n == NewObject(removed)
<1>0. /\ 0 \in Nat /\ 1 \in Nat \ {0} /\ 2 \in Nat /\ 2 + 0 = 2 /\ 1 + 1 = 2 /\ 1 + 1 <= 2 /\ 0 + 2 <= 2
      /\ 1 <= 2 /\ 1 \in 0 .. MaxCount /\ Trash \in Kinds /\ Trash \notin Bags
      /\ Fair(l, Trash, 1)
  BY Numbers DEF Fair
<1>1. /\ Sound(l, inv) /\ timer.obj \in Objects /\ inv.heap[timer.obj].guid # 0 /\ Room(inv, 2)
  BY RoomForAll DEF Timed
<1>2. Step(l, inv, removed, 0)
  <2>1. \A o \in Objects : inv.heap[o].guid # 0 =>
            Step(l, inv, RemoveInventoryItem(inv, o, 1), 0)
    BY <1>0, <1>1, RemoveInventoryItemStep
  <2> QED BY <1>1, <2>1
<1> HIDE DEF removed
<1>3. Sound(l, removed) /\ Room(removed, 2) /\ FreeObjects(removed) # {}
  <2>1. Sound(l, removed) /\ Room(removed, 2)
    BY <1>0, <1>1, <1>2, StepLeaves
  <2> QED BY <1>0, <2>1, RoomForLess, RoomMeans DEF Sound
<1>4. /\ Step(l, removed, generated, 1) /\ n \in Objects /\ generated.heap[n].guid # 0
      /\ generated.heap[n].kind = Trash
  BY <1>0, <1>3, GenerateItemStep
<1> HIDE DEF generated, n
<1>5. Sound(l, generated) /\ Room(generated, 1)
  BY <1>0, <1>3, <1>4, StepLeaves
<1>6. Step(l, generated, LootContainerItem(generated, n, 1), 1)
  BY <1>0, <1>4, <1>5, LootContainerItemStep
<1>7. Step(l, removed, LootContainerItem(generated, n, 1), 2)
  BY <1>0, <1>4, <1>6, StepsTo
<1>8. Step(l, inv, LootContainerItem(generated, n, 1), 2)
  BY <1>0, <1>2, <1>7, StepsTo
<1> QED BY <1>8 DEF generated, n, removed

\* What is left of a shredded bag.
LEMMA ShredStep ==
    ASSUME NEW l, Sound(l, inv), Timed, timer.use = "shred", Roomy3
    PROVE  LET removed == RemoveInventoryItem(inv, timer.obj, 1) IN
           Step(l, inv, LootItem(GenerateItem(removed, Cloth, ClothCount), NewObject(removed)), 2)
<1> DEFINE removed == RemoveInventoryItem(inv, timer.obj, 1)
           generated == GenerateItem(removed, Cloth, ClothCount)
           n == NewObject(removed)
<1>0. /\ 0 \in Nat /\ 1 \in Nat \ {0} /\ 2 \in Nat /\ 2 + 0 = 2 /\ 1 + 1 = 2 /\ 1 + 1 <= 2 /\ 0 + 2 <= 2
      /\ 1 <= 2 /\ 1 \in 0 .. MaxCount /\ Cloth \in Kinds /\ Cloth \notin Bags
      /\ ClothCount \in 0 .. MaxCount /\ Fair(l, Cloth, ClothCount)
  BY Numbers, InventoryAssumption DEF Fair
<1>1. /\ Sound(l, inv) /\ timer.obj \in Objects /\ inv.heap[timer.obj].guid # 0 /\ Room(inv, 2)
  BY RoomForAll DEF Timed
<1>2. Step(l, inv, removed, 0)
  <2>1. \A o \in Objects : inv.heap[o].guid # 0 =>
            Step(l, inv, RemoveInventoryItem(inv, o, 1), 0)
    BY <1>0, <1>1, RemoveInventoryItemStep
  <2> QED BY <1>1, <2>1
<1> HIDE DEF removed
<1>3. Sound(l, removed) /\ Room(removed, 2) /\ FreeObjects(removed) # {}
  <2>1. Sound(l, removed) /\ Room(removed, 2)
    BY <1>0, <1>1, <1>2, StepLeaves
  <2> QED BY <1>0, <2>1, RoomForLess, RoomMeans DEF Sound
<1>4. Step(l, removed, generated, 1) /\ n \in Objects /\ generated.heap[n].guid # 0
  BY <1>0, <1>3, GenerateItemStep
<1> HIDE DEF generated, n
<1>5. Sound(l, generated) /\ Room(generated, 1)
  BY <1>0, <1>3, <1>4, StepLeaves
<1>6. Step(l, generated, LootItem(generated, n), 1)
  BY <1>0, <1>4, <1>5, LootItemStep
<1>7. Step(l, removed, LootItem(generated, n), 2)
  BY <1>0, <1>4, <1>6, StepsTo
<1>8. Step(l, inv, LootItem(generated, n), 2)
  BY <1>0, <1>2, <1>7, StepsTo
<1> QED BY <1>8 DEF generated, n, removed

\* What the player has at first.
LEMMA InitSound ==
    ASSUME Init, NEW l
    PROVE  Sound(l, inv)
<1> DEFINE h == [o \in Objects |->
                  CASE o \in Slots -> [Item(o, o, 1) EXCEPT !.slot = o]
                    [] o = LastSlot + 1 -> Item(o, Food, MaxStack)
                    [] o = LastSlot + 2 -> Item(o, 1, 1)
                    [] OTHER -> Unused]
<1>1. /\ inv.heap = h /\ inv.open = Slots
      /\ inv.loadout = [s \in Slots |-> s]
      /\ inv.containers = [s \in Slots |-> IF s = 1 THEN <<LastSlot + 1>> ELSE <<>>]
      /\ inv.ground = [o \in Objects |-> IF o = LastSlot + 2 THEN 1 ELSE 0]
  BY DEF Init
<1>2. /\ LastSlot \in Nat \ {0} /\ LastObject \in Nat /\ LastSlot + 2 <= LastObject
      /\ 1 \in Slots /\ 1 \in Kinds /\ Food \in Kinds /\ Cloth \in Kinds
      /\ Slots \subseteq Objects /\ LastSlot + 1 \in Objects \ Slots /\ LastSlot + 2 \in Objects \ Slots
      /\ LastSlot + 1 # LastSlot + 2
  BY InventoryAssumption, Numbers DEF Slots, Objects
<1>3. /\ \A o \in Slots : h[o] = [guid |-> o, kind |-> o, count |-> 1, slot |-> o]
      /\ h[LastSlot + 1] = [guid |-> LastSlot + 1, kind |-> Food, count |-> MaxStack, slot |-> 0]
      /\ h[LastSlot + 2] = [guid |-> LastSlot + 2, kind |-> 1, count |-> 1, slot |-> 0]
      /\ \A o \in Objects \ (Slots \cup {LastSlot + 1, LastSlot + 2}) :
            h[o] = [guid |-> 0, kind |-> Cloth, count |-> 0, slot |-> 0]
  BY <1>2 DEF Item, Unused
<1> HIDE DEF h
<1>4. \A o \in Objects :
         /\ h[o] \in ItemType
         /\ o \in Slots => h[o].guid = o /\ h[o].kind = o /\ h[o].count = 1 /\ h[o].slot = o
         /\ o = LastSlot + 1 => h[o].guid = o /\ h[o].kind = Food /\ h[o].count = MaxStack /\ h[o].slot = 0
         /\ o = LastSlot + 2 => h[o].guid = o /\ h[o].kind = 1 /\ h[o].count = 1 /\ h[o].slot = 0
         /\ o \notin Slots \cup {LastSlot + 1, LastSlot + 2} => h[o].guid = 0
  <2> TAKE o \in Objects
  <2>0. /\ MaxStack \in Nat \ {0} /\ MaxStack \in 0 .. MaxCount /\ 0 \in 0 .. MaxCount
        /\ Slots \subseteq Kinds /\ o \in 0 .. (LastObject + 1) /\ 1 \in 0 .. MaxCount
    BY <1>2, Numbers DEF Objects
  <2>1. CASE o \in Slots
    <3>1. o \in Kinds /\ o \in {0} \cup Slots /\ o # LastSlot + 1 /\ o # LastSlot + 2 /\ 1 \in 0 .. MaxCount
      BY <1>2, <2>0, <2>1
    <3>2. h[o] = [guid |-> o, kind |-> o, count |-> 1, slot |-> o]
      BY <1>3, <2>1
    <3> QED BY <2>0, <2>1, <3>1, <3>2 DEF ItemType
  <2>2. CASE o = LastSlot + 1
    BY <1>2, <1>3, <2>0, <2>2 DEF ItemType
  <2>3. CASE o = LastSlot + 2
    BY <1>2, <1>3, <2>0, <2>3 DEF ItemType
  <2>4. CASE o \notin Slots \cup {LastSlot + 1, LastSlot + 2}
    BY <1>2, <1>3, <2>0, <2>4 DEF ItemType
  <2> QED BY <2>1, <2>2, <2>3, <2>4
<1>5. h \in [Objects -> ItemType]
  BY <1>4 DEF h
<1>6. /\ inv.loadout \in [Slots -> {Nobody} \cup Objects] /\ inv.open \in SUBSET Slots
      /\ inv.ground \in [Objects -> Nat]
  BY <1>1, <1>2
<1>7. inv.containers \in [Slots -> Seq(Objects)]
  <2>1. <<LastSlot + 1>> \in Seq(Objects) /\ <<>> \in Seq(Objects)
    BY <1>2
  <2> QED BY <1>1, <2>1
<1>8. inv \in Inventories
  <2>1. inv = [heap |-> inv.heap, loadout |-> inv.loadout, open |-> inv.open,
               containers |-> inv.containers, ground |-> inv.ground]
    BY DEF Init
  <2> QED BY <1>1, <1>5, <1>6, <1>7, <2>1 DEF Inventories
<1>9. \A s \in Slots : \A i \in DOMAIN inv.containers[s] :
         s = 1 /\ i = 1 /\ inv.containers[s][i] = LastSlot + 1
  BY <1>1
<1>10. Proper(l, inv)
  BY <1>1, <1>2, <1>4, Numbers DEF Proper, Fair
<1>11. Named(inv)
  <2>1. \A o \in Objects : inv.ground[o] > 0 => o = LastSlot + 2
    BY <1>1
  <2> QED BY <1>1, <1>2, <1>4, <1>9, <2>1, Numbers DEF Named
<1>12. Apart(inv)
  BY <1>1, <1>2, <1>9 DEF Apart
<1>13. Keyed(inv)
  BY <1>9 DEF Keyed
<1>14. Fitted(inv)
  BY <1>1, <1>2, <1>4, Numbers DEF Fitted
<1> QED BY <1>8, <1>10, <1>11, <1>12, <1>13, <1>14 DEF Sound

\* What there is of a kind is a number.
LEMMA TotalIsNumber ==
    ASSUME NEW v \in Inventories, NEW k
    PROVE  Total(v, k) \in Nat
<1> DEFINE f == [o \in Objects |-> IF v.heap[o].kind = k THEN v.heap[o].count * Uses(v, o) ELSE 0]
<1>1. \A o \in Objects : v.heap[o].count \in Nat /\ Uses(v, o) \in Nat
  <2> TAKE o \in Objects
  <2>1. v.heap[o] \in ItemType /\ v.ground[o] \in Nat
    BY Fields
  <2>2. v.heap[o].count \in Nat
    BY <2>1, ItemFields, Numbers
  <2> QED BY <2>1, <2>2 DEF Uses
<1>2. \A o \in Objects : v.heap[o].count * Uses(v, o) \in Nat
  BY <1>1
<1>3. f \in [Objects -> Nat]
  BY <1>2
<1>4. \A o \in Objects : f[o] <= f[o]
  BY <1>3
<1>5. Total(v, k) = SumOf(f)
  BY DEF Total
<1> HIDE DEF f
<1> QED BY <1>3, <1>4, <1>5, SumAtMost

\* What the player has at first is sound, and no timer runs.
LEMMA InitIInv ==
    Init => IInv
<1> SUFFICES ASSUME Init PROVE IInv
  OBVIOUS
<1>1. Sound(lapses, inv)
  BY InitSound
<1>2. timer = NoUse /\ lapses = {} /\ requests \in 0 .. MaxRequests
  BY InventoryAssumption DEF Init
<1>3. Timed
  BY <1>2, NoTimer DEF Timed
<1>4. ledger \in [Kinds -> Int]
  <2>1. \A k \in Kinds : Total(inv, k) \in Int
    BY <1>1, TotalIsNumber DEF Sound
  <2>2. ledger = [k \in Kinds |-> Total(inv, k)]
    BY DEF Init
  <2> QED BY <2>1, <2>2
<1> QED BY <1>1, <1>2, <1>3, <1>4 DEF IInv

\* What a request may be blamed for.
LEMMA Blame ==
    ASSUME NEW A \in BOOLEAN, NEW c \in Lapses, NEW o, NEW count
    PROVE  /\ (IF A THEN {c} ELSE {}) \subseteq Lapses
           /\ Miscount(o, count) \subseteq Lapses
           /\ \A l : Miscount(o, count) \subseteq l => Said(l, inv.heap[o].count, count)
BY DEF Lapses, Miscount, Said

\* One item less and some more.
LEMMA LedgerTyped ==
    ASSUME NEW f \in [Kinds -> Int], NEW a \in Kinds, NEW b \in Kinds, NEW n \in Int
    PROVE  [f EXCEPT ![a] = @ - 1, ![b] = @ + n] \in [Kinds -> Int]
OBVIOUS

\* The invariant is kept by every step.
LEMMA NextIInv ==
    IInv /\ [Next]_vars => IInv'
<1> SUFFICES ASSUME IInv, [Next]_vars PROVE IInv'
  OBVIOUS
<1>0. Sound(lapses, inv) /\ Timed
  BY DEF IInv
<1>a. ASSUME NEW careless PROVE Sound(lapses \cup careless, inv)
  BY <1>0, SoundAfter
<1>1. ASSUME NEW o \in Objects, PickUp(o) PROVE IInv'
  <2> DEFINE w == [LootItem(inv, o) EXCEPT !.ground[o] = @ - 1]
             m == lapses \cup {}
  <2>1. o \in Lying(inv) /\ Roomy3 /\ Done(w, {o}, {})
    BY <1>1 DEF PickUp
  <2>2. Sound(m, inv)
    BY <1>a
  <2> HIDE DEF m
  <2>3. Sound(m, w) /\ Kept(inv, w)
    BY <2>1, <2>2, PickUpStep DEF Step
  <2> HIDE DEF w
  <2> QED BY <2>1, <2>3, RequestDone DEF m
<1>2. ASSUME NEW o \in Objects, Equip(o) PROVE IInv'
  <2> DEFINE w == EquipContainerItem(inv, o, inv.heap[o].kind)
             touched == {o, inv.loadout[inv.heap[o].kind]} \ {Nobody}
             m == lapses \cup {}
  <2>1. /\ o \in Held(inv) /\ inv.heap[o].kind \in Slots /\ inv.heap[o].count > 0
        /\ Roomy3 /\ Done(w, touched, {})
    BY <1>2, Numbers DEF Equip, FirstHeld
  <2>2. Sound(m, inv)
    BY <1>a
  <2> HIDE DEF m, touched
  <2>3. Sound(m, w) /\ Kept(inv, w)
    BY <2>1, <2>2, CarriedIs, RoomForAll, EquipContainerItemStep DEF Step
  <2> HIDE DEF w
  <2> QED BY <2>1, <2>3, RequestDone DEF m
<1>3. ASSUME NEW o \in Objects, NEW count \in 0 .. MaxCount, Drop(o, count) PROVE IInv'
  <2> DEFINE w == DropItem(inv, o, count)
             A == count < inv.heap[o].count /\ 2 * count >= inv.heap[o].count
             careless == Miscount(o, count) \cup (IF A THEN {"split"} ELSE {})
             m == lapses \cup careless
  <2>1. (o \in Held(inv) \/ o \in Worn(inv)) /\ Roomy3 /\ Done(w, {o}, careless)
    BY <1>3 DEF Drop, Found, FirstHeld
  <2>2. careless \subseteq Lapses
    <3>1. "split" \in Lapses
      BY DEF Lapses
    <3> QED BY <3>1, Blame
  <2>3. Said(m, inv.heap[o].count, count)
    <3>1. "split" \in Lapses /\ Miscount(o, count) \subseteq m
      BY DEF Lapses
    <3> HIDE DEF m
    <3> QED BY <3>1, Blame
  <2> HIDE DEF careless
  <2>4. Sound(m, inv)
    BY <1>a
  <2> HIDE DEF m
  <2>5. Sound(m, w) /\ Kept(inv, w)
    BY <2>1, <2>3, <2>4, CarriedIs, RoomForAll, DropItemStep DEF Step
  <2> HIDE DEF w
  <2> QED BY <2>1, <2>2, <2>5, RequestDone DEF m
<1>4. ASSUME NEW o \in Objects, NEW count \in 0 .. MaxCount, NEW to \in Slots, Move(o, to, count)
      PROVE  IInv'
  <2> DEFINE from == Min(SlotsHolding(inv, inv.heap[o].guid))
             A == from # to /\ ~HasSpace(inv, to, inv.heap[o].kind, count)
             careless == Miscount(o, count) \cup (IF A THEN {"overfill"} ELSE {})
             m == lapses \cup careless
  <2>1. /\ o \in Held(inv) /\ Open(to) /\ count <= inv.heap[o].count /\ Roomy3
        /\ \/ Done(MoveToEnd(inv, o, from, to, count), {o}, careless)
           \/ \E i : Done(MoveOnto(inv, o, from, to, i, count), {o}, careless)
    BY <1>4 DEF Move, FirstHeld
  <2>2. careless \subseteq Lapses
    <3>1. "overfill" \in Lapses
      BY DEF Lapses
    <3> HIDE DEF from
    <3> QED BY <3>1, Blame
  <2>3. Said(m, inv.heap[o].count, count)
    <3>1. "overfill" \in Lapses /\ Miscount(o, count) \subseteq m
      BY DEF Lapses
    <3> HIDE DEF m
    <3> QED BY <3>1, Blame
  <2> HIDE DEF careless
  <2>4. Sound(m, inv)
    BY <1>a
  <2> HIDE DEF m
  <2>5. /\ Step(m, inv, MoveToEnd(inv, o, from, to, count), 2)
        /\ \A i : Step(m, inv, MoveOnto(inv, o, from, to, i, count), 2)
    BY <2>1, <2>3, <2>4, MoveStep
  <2> HIDE DEF from
  <2>6. \A w : Step(m, inv, w, 2) /\ Done(w, {o}, careless) => IInv'
    BY <2>2, RequestDone DEF Step, m
  <2> QED BY <2>1, <2>5, <2>6
<1>5. ASSUME NEW s \in Slots, NEW to \in Slots, NEW count \in 0 .. MaxCount, Stow(s, to, count)
      PROVE  IInv'
  <2> DEFINE w == StowWorn(inv, s, to, count)
             o == inv.loadout[s]
             A == Full(s) \/ to = s
             careless == Miscount(o, count) \cup (IF A THEN {"full bag"} ELSE {})
             m == lapses \cup careless
  <2>1. o # Nobody /\ to \in inv.open /\ Roomy3 /\ Done(w, {o}, careless)
    BY <1>5 DEF Stow, OnlyWorn, Open
  <2>2. careless \subseteq Lapses
    <3>1. "full bag" \in Lapses /\ A \in BOOLEAN
      BY DEF Lapses, Full
    <3> HIDE DEF o, A
    <3> QED BY <3>1, Blame
  <2>3. Said(m, inv.heap[o].count, count)
    <3>1. "full bag" \in Lapses /\ Miscount(o, count) \subseteq m
      BY DEF Lapses
    <3> HIDE DEF m, o
    <3> QED BY <3>1, Blame
  <2> HIDE DEF careless
  <2>4. Sound(m, inv)
    BY <1>a
  <2> HIDE DEF m
  <2>5. Sound(m, w) /\ Kept(inv, w)
    BY <2>1, <2>3, <2>4, RoomForAll, StowWornStep DEF Step
  <2> HIDE DEF w, o
  <2> QED BY <2>1, <2>2, <2>5, RequestDone DEF m
<1>6. ASSUME NEW s \in Slots, Rewear(s) PROVE IInv'
  <2> DEFINE w == RemoveLoadoutItem(inv, s)
             m == lapses \cup {"own slot"}
  <2>1. Done(w, {inv.loadout[s]}, {"own slot"}) /\ {"own slot"} \subseteq Lapses
    BY <1>6 DEF Rewear, Lapses
  <2>2. Sound(m, inv)
    BY <1>a
  <2> HIDE DEF m
  <2>3. Sound(m, w) /\ Kept(inv, w)
    BY <2>2, RemoveLoadoutItemStep DEF Step
  <2> HIDE DEF w
  <2> QED BY <2>1, <2>3, RequestDone DEF m
<1>7. ASSUME NEW o \in Objects, NEW use \in {"consume", "shred"}, StartUse(o, use) PROVE IInv'
  <2>1. /\ o \in Held(inv) \/ o \in Worn(inv)
        /\ timer' = [use |-> use, obj |-> o] /\ inv' = Collected(inv, timer')
        /\ (use = "consume") = (inv.heap[o].kind = Food)
        /\ (use = "shred") = (inv.heap[o].kind \in Bags)
        /\ Request /\ ledger' = ledger /\ lapses' = lapses
    BY <1>7 DEF StartUse, Found, FirstHeld
  <2>2. inv.heap[o].guid # 0
    BY <1>0, <2>1, CarriedIs
  <2>3. Sound(lapses, inv') /\ (\A p \in Objects : p = timer'.obj => inv'.heap[p] = inv.heap[p])
    <3> DEFINE w == inv'
               t == timer'
    <3>1. w = Collected(inv, t)
      BY <2>1
    <3> HIDE DEF w, t
    <3>2. Sound(lapses, w)
      BY <1>0, <3>1, CollectedIs
    <3>3. inv \in Inventories
      BY <1>0 DEF Sound
    <3>4. \A p \in Objects : p \in Live(inv) \/ p = t.obj => w.heap[p] = inv.heap[p]
      <4>1. Tidied(inv, t, w)
        BY <3>1, <3>3, CollectedHeap
      <4> QED BY <4>1 DEF Tidied
    <3> QED BY <3>2, <3>4 DEF w, t
  <2>4. timer'.obj = o /\ timer'.use = use
    BY <2>1
  <2>5. Timed'
    BY <2>1, <2>2, <2>3, <2>4 DEF Timed
  <2>6. requests' \in 0 .. MaxRequests
    BY <2>1, RequestCounts DEF IInv
  <2> QED BY <2>1, <2>3, <2>5, <2>6 DEF IInv
<1>8. ASSUME Interrupt PROVE IInv'
  <2>1. timer' = NoUse /\ inv' = Collected(inv, timer')
        /\ ledger' = ledger /\ lapses' = lapses /\ requests' = requests
    BY <1>8 DEF Interrupt
  <2>2. Sound(lapses', inv') /\ Timed'
    BY <1>0, <2>1, Settled DEF Kept
  <2> QED BY <2>1, <2>2 DEF IInv
<1>9. ASSUME Consume PROVE IInv'
  <2> DEFINE removed == RemoveInventoryItem(inv, timer.obj, 1)
             w == LootContainerItem(GenerateItem(removed, Trash, 1), NewObject(removed), 1)
  <2>1. /\ timer.use = "consume" /\ Roomy3 /\ timer' = NoUse /\ inv' = Collected(w, timer')
        /\ ledger' = [ledger EXCEPT ![Food] = @ - 1, ![Trash] = @ + 1]
        /\ lapses' = lapses /\ requests' = requests
    BY <1>9 DEF Consume
  <2>2. Sound(lapses, w) /\ Kept(inv, w)
    BY <1>0, <2>1, ConsumeStep DEF Step
  <2> HIDE DEF w
  <2>3. Sound(lapses', inv') /\ Timed'
    BY <2>1, <2>2, Settled
  <2>4. ledger' \in [Kinds -> Int]
    <3>1. ledger \in [Kinds -> Int]
      BY DEF IInv
    <3>2. Food \in Kinds /\ Trash \in Kinds /\ 1 \in Int
      BY Numbers
    <3>3. [ledger EXCEPT ![Food] = @ - 1, ![Trash] = @ + 1] \in [Kinds -> Int]
      BY <3>1, <3>2, LedgerTyped
    <3> QED BY <2>1, <3>3
  <2> QED BY <2>1, <2>3, <2>4 DEF IInv
<1>10. ASSUME Shred PROVE IInv'
  <2> DEFINE removed == RemoveInventoryItem(inv, timer.obj, 1)
             kind == inv.heap[timer.obj].kind
             w == LootItem(GenerateItem(removed, Cloth, ClothCount), NewObject(removed))
  <2>1. /\ timer.use = "shred" /\ Roomy3 /\ timer' = NoUse /\ inv' = Collected(w, timer')
        /\ ledger' = [ledger EXCEPT ![kind] = @ - 1, ![Cloth] = @ + ClothCount]
        /\ lapses' = lapses /\ requests' = requests
    BY <1>10 DEF Shred
  <2>2. Sound(lapses, w) /\ Kept(inv, w)
    BY <1>0, <2>1, ShredStep DEF Step
  <2> HIDE DEF w, kind
  <2>3. Sound(lapses', inv') /\ Timed'
    BY <2>1, <2>2, Settled
  <2>4. ledger' \in [Kinds -> Int]
    <3>1. ClothCount \in Int /\ Cloth \in Kinds /\ inv.heap[timer.obj].kind \in Kinds
      BY <1>0, <2>1, CountType, InventoryAssumption, Numbers DEF Timed
    <3> QED BY <2>1, <3>1, LedgerTyped DEF IInv, kind
  <2> QED BY <2>1, <2>3, <2>4 DEF IInv
<1>11. CASE UNCHANGED vars
  BY <1>11 DEF vars, IInv, Timed
<1> QED BY <1>1, <1>2, <1>3, <1>4, <1>5, <1>6, <1>7, <1>8, <1>9, <1>10, <1>11 DEF Next

\* The invariant implies the type invariant.
LEMMA IInvTyped ==
    IInv => TypeOK
<1> SUFFICES ASSUME IInv PROVE TypeOK
  OBVIOUS
<1>0. Sound(lapses, inv) /\ inv \in Inventories
  BY DEF IInv, Sound
<1>1. "miscount" \notin lapses =>
        \A o \in Live(inv) :
           inv.heap[o].count > 0 /\ (inv.heap[o].kind \in Bags => inv.heap[o].count = 1)
  BY <1>0, InUse DEF Sound, Proper, Fair
<1>2. \A s \in Slots : Open(s) <=> inv.loadout[s] # Nobody /\ inv.heap[inv.loadout[s]].kind = s
  BY <1>0, InUse, Numbers DEF Open, Sound, Fitted
<1>3. timer \in [use: {"none", "consume", "shred"}, obj: {Nobody} \cup Objects]
  BY DEF IInv, Timed
<1> QED BY <1>0, <1>1, <1>2, <1>3 DEF TypeOK, IInv, Lapses

\* However items are moved, dropped, worn, taken off and used up, the inventory
\* is what the code takes it to be: a container is open exactly where a bag is
\* worn, and, as long as no request counts none or more than there is, no stack
\* of nothing is kept.
THEOREM TypeCorrect == Spec => []TypeOK
<1>1. Init => IInv
  BY InitIInv
<1>2. IInv /\ [Next]_vars => IInv'
  BY NextIInv
<1>3. IInv => TypeOK
  BY IInvTyped
<1> QED BY <1>1, <1>2, <1>3, PTL DEF Spec

-----------------------------------------------------------------------------
(* The bulk of a container. *)

\* What an item weighs in a container.
Load(m) == Bulk1(m.kind) * m.count

\* What weighs in a container.
Weighs(v, s) == [o \in Objects |-> IF o \in Range(v.containers[s]) THEN Load(v.heap[o]) ELSE 0]

\* A bag weighs what a bag weighs, anything else what there is of it.
LEMMA LoadIs ==
    ASSUME NEW kind \in Kinds, NEW count \in Nat
    PROVE  /\ Bulk1(kind) * count \in Nat
           /\ kind \notin Bags => Bulk1(kind) * count = count
           /\ \A rest \in Nat : rest <= count =>
                 Bulk1(kind) * (count - rest) = Bulk1(kind) * count - Bulk1(kind) * rest
<1>1. CASE kind \in Bags
  <2>1. Bulk1(kind) \in Nat
    BY <1>1, InventoryAssumption DEF Bulk1
  <2>2. \A a, b, c \in Nat : a * b \in Nat /\ (c <= b => a * (b - c) = a * b - a * c)
    OBVIOUS
  <2> QED BY <1>1, <2>1, <2>2
<1>2. CASE kind \notin Bags
  <2>1. Bulk1(kind) = 1
    BY <1>2 DEF Bulk1
  <2> QED BY <2>1
<1> QED BY <1>1, <1>2

\* The bulk of a container is a sum of loads.
LEMMA BulkIs ==
    ASSUME NEW v \in Inventories, NEW s \in Slots
    PROVE  /\ Weighs(v, s) \in [Objects -> Nat]
           /\ \A o \in Objects : Load(v.heap[o]) \in Nat
           /\ ContainerBulk(v, s) = SumOf(Weighs(v, s))
           /\ ContainerBulk(v, s) \in Nat
           /\ \A o : o \in Range(v.containers[s]) <=>
                        \E i \in DOMAIN v.containers[s] : v.containers[s][i] = o
<1>1. \A o \in Objects : Load(v.heap[o]) \in Nat
  <2> TAKE o \in Objects
  <2>1. v.heap[o].kind \in Kinds /\ v.heap[o].count \in Nat
    BY Fields, ItemFields, Numbers
  <2> QED BY <2>1, LoadIs DEF Load
<1>2. Weighs(v, s) \in [Objects -> Nat]
  BY <1>1 DEF Weighs
<1>3. ContainerBulk(v, s) = SumOf(Weighs(v, s))
  BY DEF ContainerBulk, Weighs, Load
<1>4. SumOf(Weighs(v, s)) \in Nat
  <2>1. \A o \in Objects : Weighs(v, s)[o] <= Weighs(v, s)[o]
    BY <1>2
  <2> QED BY <1>2, <2>1, SumAtMost
<1>5. \A o : o \in Range(v.containers[s]) <=>
                \E i \in DOMAIN v.containers[s] : v.containers[s][i] = o
  BY DEF Range
<1> QED BY <1>1, <1>2, <1>3, <1>4, <1>5

\* Where all but one of the items of a container were in it before, its bulk
\* has changed by no more than that one.
LEMMA BulkChange ==
    ASSUME NEW v \in Inventories, NEW w \in Inventories, NEW s \in Slots, NEW n \in Objects,
           NEW load \in Nat,
           n \in Range(w.containers[s]) => Load(w.heap[n]) <= load,
           \A o \in Range(w.containers[s]) \ {n} :
              o \in Range(v.containers[s]) /\ Load(w.heap[o]) <= Load(v.heap[o])
    PROVE  /\ ContainerBulk(w, s) <= ContainerBulk(v, s) + load
           /\ n \in Range(v.containers[s]) =>
                 ContainerBulk(w, s) <= ContainerBulk(v, s) - Load(v.heap[n]) + load
<1> DEFINE f == Weighs(v, s)
           g == Weighs(w, s)
           h == [f EXCEPT ![n] = load]
<1>1. /\ f \in [Objects -> Nat] /\ g \in [Objects -> Nat]
      /\ ContainerBulk(v, s) = SumOf(f) /\ ContainerBulk(w, s) = SumOf(g)
      /\ \A o \in Objects : Load(v.heap[o]) \in Nat /\ Load(w.heap[o]) \in Nat
  BY BulkIs
<1>2. /\ \A o \in Objects : f[o] = IF o \in Range(v.containers[s]) THEN Load(v.heap[o]) ELSE 0
      /\ \A o \in Objects : g[o] = IF o \in Range(w.containers[s]) THEN Load(w.heap[o]) ELSE 0
  BY DEF Weighs
<1> HIDE DEF f, g
<1>3. h \in [Objects -> Nat] /\ h[n] = load /\ \A o \in Objects \ {n} : h[o] = f[o]
  BY <1>1
<1> HIDE DEF h
<1>4. SumOf(h) = SumOf(f) - f[n] + load /\ SumOf(f) \in Nat /\ SumOf(h) \in Nat
  BY <1>1, <1>3, SumChange
<1>5. \A o \in Objects : g[o] <= h[o]
  BY <1>1, <1>2, <1>3
<1>6. SumOf(g) <= SumOf(h) /\ SumOf(g) \in Nat
  BY <1>1, <1>3, <1>5, SumAtMost
<1>7. f[n] \in Nat
  BY <1>1
<1>8. n \in Range(v.containers[s]) => f[n] = Load(v.heap[n])
  BY <1>2
<1> QED BY <1>1, <1>4, <1>6, <1>7, <1>8

\* A container has gained nothing.
Shrinks(v, w) == \A s \in Slots : ContainerBulk(w, s) <= ContainerBulk(v, s)

\* Where all items of the containers were in them before, no bulk has grown.
LEMMA ShrinksIf ==
    ASSUME NEW v \in Inventories, NEW w \in Inventories, NEW s \in Slots,
           \A i \in DOMAIN w.containers[s] : \E j \in DOMAIN v.containers[s] :
              w.containers[s][i] = v.containers[s][j],
           \A i \in DOMAIN w.containers[s] :
              Load(w.heap[w.containers[s][i]]) <= Load(v.heap[w.containers[s][i]])
    PROVE  ContainerBulk(w, s) <= ContainerBulk(v, s)
<1> DEFINE f == Weighs(v, s)
           g == Weighs(w, s)
<1>1. /\ f \in [Objects -> Nat] /\ g \in [Objects -> Nat]
      /\ ContainerBulk(v, s) = SumOf(f) /\ ContainerBulk(w, s) = SumOf(g)
      /\ \A o \in Objects : Load(v.heap[o]) \in Nat /\ Load(w.heap[o]) \in Nat
  BY BulkIs
<1>2. /\ \A o \in Objects : f[o] = IF o \in Range(v.containers[s]) THEN Load(v.heap[o]) ELSE 0
      /\ \A o \in Objects : g[o] = IF o \in Range(w.containers[s]) THEN Load(w.heap[o]) ELSE 0
  BY DEF Weighs
<1>3. \A o \in Range(w.containers[s]) :
         o \in Range(v.containers[s]) /\ Load(w.heap[o]) <= Load(v.heap[o])
  BY BulkIs
<1> HIDE DEF f, g
<1>4. \A o \in Objects : g[o] <= f[o]
  BY <1>1, <1>2, <1>3
<1> QED BY <1>1, <1>4, SumAtMost

\* Where containers only lose items, and the rest stay what they are.
LEMMA SubShrinks ==
    ASSUME NEW v \in Inventories, NEW w \in Inventories,
           \A s \in Slots : \A i \in DOMAIN w.containers[s] : \E j \in DOMAIN v.containers[s] :
              w.containers[s][i] = v.containers[s][j],
           \A s \in Slots : \A i \in DOMAIN w.containers[s] :
              w.heap[w.containers[s][i]] = v.heap[w.containers[s][i]]
    PROVE  Shrinks(v, w)
<1> SUFFICES ASSUME NEW s \in Slots PROVE ContainerBulk(w, s) <= ContainerBulk(v, s)
  BY DEF Shrinks
<1>1. \A i \in DOMAIN w.containers[s] :
         Load(w.heap[w.containers[s][i]]) <= Load(v.heap[w.containers[s][i]])
  <2> TAKE i \in DOMAIN w.containers[s]
  <2>1. w.containers[s][i] \in Objects
    BY ContainerIs
  <2> DEFINE x == w.containers[s][i]
  <2>2. Load(v.heap[x]) \in Nat /\ w.heap[x] = v.heap[x]
    BY <2>1, BulkIs
  <2> QED BY <2>2
<1> QED BY <1>1, ShrinksIf

\* What shrinks twice shrinks.
LEMMA ShrinksCompose ==
    ASSUME NEW u \in Inventories, NEW v \in Inventories, NEW w \in Inventories,
           Shrinks(u, v), Shrinks(v, w)
    PROVE  Shrinks(u, w)
<1>1. \A s \in Slots : ContainerBulk(u, s) \in Nat /\ ContainerBulk(v, s) \in Nat
                       /\ ContainerBulk(w, s) \in Nat
  BY BulkIs
<1> QED BY <1>1 DEF Shrinks

\* An entity on the ground weighs nothing.
LEMMA GroundShrinks ==
    ASSUME NEW v \in Inventories, NEW o \in Objects
    PROVE  Shrinks(v, Ground(v, o))
<1> DEFINE w == Ground(v, o)
<1>1. w \in Inventories /\ w.heap = v.heap /\ w.containers = v.containers
  BY GroundIs
<1> HIDE DEF w
<1>2. Shrinks(v, w)
  BY <1>1, SubShrinks
<1> QED BY <1>2 DEF w

\* generateItem
LEMMA GenerateItemShrinks ==
    ASSUME NEW l, NEW v, Sound(l, v), FreeObjects(v) # {},
           NEW kind \in Kinds, NEW count \in 0 .. MaxCount, Fair(l, kind, count)
    PROVE  Shrinks(v, GenerateItem(v, kind, count))
<1> DEFINE w == GenerateItem(v, kind, count)
           n == NewObject(v)
<1>1. /\ Step(l, v, w, 1) /\ n \in Objects /\ v.heap[n].guid = 0
      /\ \A p \in Objects \ {n} : w.heap[p] = v.heap[p]
      /\ w.containers = v.containers
  BY GenerateItemStep
<1> HIDE DEF w, n
<1>2. v \in Inventories /\ w \in Inventories
  BY <1>1 DEF Step, Sound
<1>3. \A s \in Slots : \A i \in DOMAIN w.containers[s] :
         w.containers[s][i] \in Objects /\ w.containers[s][i] # n
  BY <1>1, <1>2, ContainerIs, NewIsUnused
<1>4. Shrinks(v, w)
  BY <1>1, <1>2, <1>3, SubShrinks
<1> QED BY <1>4 DEF w

\* removeLoadoutItem
LEMMA RemoveLoadoutItemShrinks ==
    ASSUME NEW l, NEW v, Sound(l, v), NEW s \in Slots
    PROVE  Shrinks(v, RemoveLoadoutItem(v, s))
<1> DEFINE w == RemoveLoadoutItem(v, s)
<1>0. v \in Inventories /\ v.containers \in [Slots -> Seq(Objects)]
  BY Fields DEF Sound
<1>1. w \in Inventories /\ w.containers = [v.containers EXCEPT ![s] = <<>>] /\ w.heap = v.heap
  BY <1>0, RemoveLoadoutItemIs
<1> HIDE DEF w
<1>2. /\ w.containers[s] = <<>>
      /\ \A t \in Slots \ {s} : w.containers[t] = v.containers[t]
  BY <1>0, <1>1
<1>3. \A t \in Slots : \A i \in DOMAIN w.containers[t] :
         i \in DOMAIN v.containers[t] /\ w.containers[t][i] = v.containers[t][i]
  BY <1>2
<1>4. \A t \in Slots : \A i \in DOMAIN w.containers[t] : \E j \in DOMAIN v.containers[t] :
         w.containers[t][i] = v.containers[t][j]
  BY <1>3
<1>5. Shrinks(v, w)
  BY <1>0, <1>1, <1>4, SubShrinks
<1> QED BY <1>5 DEF w

\* equipItem
LEMMA EquipItemShrinks ==
    ASSUME NEW l, NEW v, Sound(l, v), FreeObjects(v) # {}, NEW o \in Objects, NEW s \in Slots
    PROVE  Shrinks(v, EquipItem(v, o, s))
<1> DEFINE w == EquipItem(v, o, s)
           n == NewObject(v)
<1>0. v \in Inventories /\ v.containers \in [Slots -> Seq(Objects)]
  BY Fields DEF Sound
<1>1. Equipped(v, w, o, s) /\ n \in Objects /\ v.heap[n].guid = 0
  BY <1>0, EquipItemIs, NewObjectIs
<1> HIDE DEF w
<1>2. /\ w \in Inventories /\ \A p \in Objects \ {n} : w.heap[p] = v.heap[p]
      /\ w.containers[s] = <<>>
      /\ \A t \in Slots \ {s} : w.containers[t] = v.containers[t]
  BY <1>0, <1>1 DEF Equipped
<1> HIDE DEF n
<1>3. \A t \in Slots : \A i \in DOMAIN w.containers[t] :
         /\ i \in DOMAIN v.containers[t] /\ w.containers[t][i] = v.containers[t][i]
         /\ w.containers[t][i] \in Objects \ {n}
  <2>1. \A t \in Slots : \A i \in DOMAIN v.containers[t] :
           v.containers[t][i] # n /\ v.containers[t][i] \in Objects
    BY <1>0, <1>1, NewIsUnused, ContainerIs
  <2> QED BY <1>2, <2>1
<1>4. \A t \in Slots : \A i \in DOMAIN w.containers[t] : \E j \in DOMAIN v.containers[t] :
         w.containers[t][i] = v.containers[t][j]
  BY <1>3
<1>5. \A t \in Slots : \A i \in DOMAIN w.containers[t] :
         w.heap[w.containers[t][i]] = v.heap[w.containers[t][i]]
  BY <1>2, <1>3
<1>6. Shrinks(v, w)
  BY <1>0, <1>2, <1>4, <1>5, SubShrinks
<1> QED BY <1>6 DEF w

\* The collection of what nothing refers to.
LEMMA CollectedShrinks ==
    ASSUME NEW v \in Inventories, NEW t, NEW w, w = Collected(v, t)
    PROVE  Shrinks(v, w) /\ w \in Inventories
<1>1. Tidied(v, t, w)
  BY CollectedHeap
<1>2. w \in Inventories /\ w.containers = v.containers
      /\ \A o \in Objects : o \in Live(v) => w.heap[o] = v.heap[o]
  BY <1>1 DEF Tidied
<1>3. \A s \in Slots : \A i \in DOMAIN v.containers[s] :
         v.containers[s][i] \in Live(v) /\ v.containers[s][i] \in Objects
  BY HeldMeans, ContainerIs DEF Live
<1> QED BY <1>2, <1>3, SubShrinks

\* What is in a container are objects.
LEMMA RangeIs ==
    ASSUME NEW v \in Inventories, NEW s \in Slots
    PROVE  /\ \A o \in Range(v.containers[s]) : o \in Objects /\
                 \E i \in DOMAIN v.containers[s] : v.containers[s][i] = o
           /\ \A i \in DOMAIN v.containers[s] : v.containers[s][i] \in Range(v.containers[s])
BY BulkIs, ContainerIs DEF Range

\* From v to w, one item with the guid of o was taken out of container s.
TakenFrom(v, w, o, s) ==
    LET c == v.containers[s]
        d == w.containers[s]
    IN  /\ w \in Inventories
        /\ w.heap = v.heap /\ w.loadout = v.loadout /\ w.open = v.open /\ w.ground = v.ground
        /\ \A t \in Slots \ {s} : w.containers[t] = v.containers[t]
        /\ \E m \in DOMAIN c :
             /\ v.heap[c[m]].guid = v.heap[o].guid
             /\ \A j \in DOMAIN d : \E i \in DOMAIN c : i # m /\ d[j] = c[i]
             /\ \A i \in DOMAIN c \ {m} : \E j \in DOMAIN d : d[j] = c[i]

\* What removeContainerItem takes out: one item, the rest stays.
LEMMA TakenOut ==
    ASSUME NEW v \in Inventories, NEW o \in Objects, NEW s \in SlotsHolding(v, v.heap[o].guid),
           NEW count, count = v.heap[o].count
    PROVE  TakenFrom(v, RemoveContainerItem(v, o, s, count), o, s)
<1> DEFINE w == RemoveContainerItem(v, o, s, v.heap[o].count)
           c == v.containers[s]
           d == w.containers[s]
<1>1. /\ w \in Inventories
      /\ w.heap = v.heap /\ w.loadout = v.loadout /\ w.open = v.open /\ w.ground = v.ground
      /\ \A t \in Slots \ {s} : w.containers[t] = v.containers[t]
      /\ \E m \in DOMAIN c :
           /\ v.heap[c[m]].guid = v.heap[o].guid
           /\ \A j \in DOMAIN d : LET i == IF j < m THEN j ELSE j + 1
                                  IN  i \in DOMAIN c /\ i # m /\ d[j] = c[i]
           /\ \A i \in DOMAIN c \ {m} : \E j \in DOMAIN d : d[j] = c[i]
  BY RemoveWholeIs
<1>2. RemoveContainerItem(v, o, s, count) = w
  OBVIOUS
<1> HIDE DEF w, c
<1>3. PICK m \in DOMAIN c :
           /\ v.heap[c[m]].guid = v.heap[o].guid
           /\ \A j \in DOMAIN d : LET i == IF j < m THEN j ELSE j + 1
                                  IN  i \in DOMAIN c /\ i # m /\ d[j] = c[i]
           /\ \A i \in DOMAIN c \ {m} : \E j \in DOMAIN d : d[j] = c[i]
  BY <1>1
<1>4. \A j \in DOMAIN d : \E i \in DOMAIN c : i # m /\ d[j] = c[i]
  BY <1>3
<1>5. \E k \in DOMAIN c :
           /\ v.heap[c[k]].guid = v.heap[o].guid
           /\ \A j \in DOMAIN d : \E i \in DOMAIN c : i # k /\ d[j] = c[i]
           /\ \A i \in DOMAIN c \ {k} : \E j \in DOMAIN d : d[j] = c[i]
  BY <1>3, <1>4
<1>6. /\ w \in Inventories
      /\ w.heap = v.heap /\ w.loadout = v.loadout /\ w.open = v.open /\ w.ground = v.ground
      /\ \A t \in Slots \ {s} : w.containers[t] = v.containers[t]
  BY <1>1
<1>7. TakenFrom(v, w, o, s)
  BY <1>5, <1>6 DEF TakenFrom, c
<1> QED BY <1>2, <1>7

\* removeContainerItem: no container gains anything, and the one that has the
\* object loses what is taken.
LEMMA RemoveContainerItemBulk ==
    ASSUME NEW l, NEW v, Sound(l, v), NEW o \in Objects, v.heap[o].guid # 0,
           NEW s \in SlotsHolding(v, v.heap[o].guid),
           NEW count \in 0 .. MaxCount, count <= v.heap[o].count
    PROVE  LET w == RemoveContainerItem(v, o, s, count) IN
           /\ Shrinks(v, w)
           /\ o \in Range(v.containers[s]) =>
                 ContainerBulk(w, s) <= ContainerBulk(v, s) - Bulk1(v.heap[o].kind) * count
<1> DEFINE w == RemoveContainerItem(v, o, s, count)
           kind == v.heap[o].kind
           c == v.containers[s]
           d == w.containers[s]
<1>0. /\ v \in Inventories /\ s \in Slots /\ kind \in Kinds /\ Keyed(v)
      /\ v.heap[o].count \in Nat /\ count \in Nat /\ count \in 0 .. MaxCount
      /\ Load(v.heap[o]) = Bulk1(kind) * v.heap[o].count
  BY CountType, Numbers DEF SlotsHolding, Sound, Load
<1>1. CASE count = v.heap[o].count
  <2>1. /\ w \in Inventories /\ w.heap = v.heap
        /\ \A t \in Slots \ {s} : w.containers[t] = v.containers[t]
        /\ \E m \in DOMAIN c :
             /\ v.heap[c[m]].guid = v.heap[o].guid
             /\ \A j \in DOMAIN d : \E i \in DOMAIN c : i # m /\ d[j] = c[i]
    <3>1. TakenFrom(v, w, o, s)
      BY <1>0, <1>1, TakenOut
    <3> HIDE DEF w, c
    <3> QED BY <3>1 DEF TakenFrom, c
  <2> HIDE DEF w
  <2>2. \A j \in DOMAIN d : \E i \in DOMAIN c : d[j] = c[i]
    BY <2>1
  <2>3. o \notin Range(d)
    <3>1. o \in Range(d) => \E j \in DOMAIN d : d[j] = o
      BY DEF Range
    <3> SUFFICES ASSUME NEW j \in DOMAIN d, d[j] = o PROVE FALSE
      BY <3>1
    <3>2. PICK m \in DOMAIN c : \E i \in DOMAIN c :
             i # m /\ v.heap[c[m]].guid = v.heap[o].guid /\ c[i] = o
      BY <2>1
    <3> QED BY <1>0, <3>2 DEF Keyed
  <2>4. Shrinks(v, w)
    <3>1. \A t \in Slots : \A i \in DOMAIN w.containers[t] : \E j \in DOMAIN v.containers[t] :
              w.containers[t][i] = v.containers[t][j]
      BY <2>1, <2>2
    <3> QED BY <1>0, <2>1, <3>1, SubShrinks
  <2>5. ASSUME o \in Range(c)
        PROVE  ContainerBulk(w, s) <= ContainerBulk(v, s) - Bulk1(kind) * count
    <3>1. \A p \in Range(d) \ {o} : p \in Range(c) /\ Load(w.heap[p]) <= Load(v.heap[p])
      <4>1. \A p \in Range(d) : p \in Objects /\ p \in Range(c)
        <5> TAKE p \in Range(d)
        <5>1. PICK j \in DOMAIN d : d[j] = p
          BY <1>0, <2>1, RangeIs
        <5>2. PICK i \in DOMAIN c : d[j] = c[i]
          BY <2>2
        <5> QED BY <1>0, <5>1, <5>2, RangeIs
      <4> QED BY <1>0, <2>1, <4>1, BulkIs
    <3>2. /\ ContainerBulk(w, s) <= ContainerBulk(v, s) - Load(v.heap[o]) + 0
          /\ ContainerBulk(w, s) \in Nat /\ ContainerBulk(v, s) \in Nat /\ Load(v.heap[o]) \in Nat
      <4>1. 0 \in Nat /\ (o \in Range(d) => Load(w.heap[o]) <= 0)
        BY <2>3
      <4>2. ContainerBulk(w, s) <= ContainerBulk(v, s) - Load(v.heap[o]) + 0
        BY <1>0, <2>1, <2>5, <3>1, <4>1, BulkChange
      <4> QED BY <1>0, <2>1, <4>2, BulkIs
    <3> QED BY <1>0, <1>1, <3>2
  <2> QED BY <2>4, <2>5 DEF w
<1>2. CASE count < v.heap[o].count
  <2>1. /\ w \in Inventories
        /\ \A p \in Objects \ {o} : w.heap[p] = v.heap[p]
        /\ w.heap[o].kind = kind
        /\ w.heap[o].count = v.heap[o].count - count
        /\ w.containers = v.containers
    BY <1>0, <1>2, RemovePartIs
  <2> HIDE DEF w
  <2>3. /\ Load(w.heap[o]) = Load(v.heap[o]) - Bulk1(kind) * count
        /\ Load(w.heap[o]) <= Load(v.heap[o])
        /\ Bulk1(kind) * count \in Nat
    <3>1. /\ Bulk1(kind) * (v.heap[o].count - count) = Bulk1(kind) * v.heap[o].count - Bulk1(kind) * count
          /\ Bulk1(kind) * count \in Nat /\ Bulk1(kind) * v.heap[o].count \in Nat
      BY <1>0, <1>2, LoadIs
    <3>2. Load(w.heap[o]) = Bulk1(kind) * (v.heap[o].count - count)
      BY <2>1 DEF Load
    <3> QED BY <1>0, <3>1, <3>2
  <2>4. \A p \in Objects : Load(w.heap[p]) <= Load(v.heap[p]) /\ Load(v.heap[p]) \in Nat
                           /\ Load(w.heap[p]) \in Nat
    <3> TAKE p \in Objects
    <3>1. Load(w.heap[p]) \in Nat /\ Load(v.heap[p]) \in Nat
      BY <1>0, <2>1, BulkIs, Numbers
    <3>2. CASE p = o
      BY <2>3, <3>1, <3>2
    <3>3. CASE p # o
      BY <2>1, <3>1, <3>3
    <3> QED BY <3>2, <3>3
  <2>5. Shrinks(v, w)
    <3> SUFFICES ASSUME NEW t \in Slots PROVE ContainerBulk(w, t) <= ContainerBulk(v, t)
      BY DEF Shrinks
    <3> QED BY <1>0, <2>1, <2>4, ContainerIs, ShrinksIf
  <2>6. ASSUME o \in Range(c)
        PROVE  ContainerBulk(w, s) <= ContainerBulk(v, s) - Bulk1(kind) * count
    <3>1. \A p \in Range(d) \ {o} : p \in Range(c) /\ Load(w.heap[p]) <= Load(v.heap[p])
      <4>1. \A p \in Range(c) : p \in Objects
        BY <1>0, RangeIs
      <4> QED BY <2>1, <2>4, <4>1
    <3> DEFINE left == Load(w.heap[o])
    <3>2. left \in Nat /\ left <= left
      BY <2>4
    <3>3. ContainerBulk(w, s) <= ContainerBulk(v, s) - Load(v.heap[o]) + left
      <4>1. o \in Range(d) => Load(w.heap[o]) <= left
        BY <3>2
      <4> HIDE DEF left
      <4> QED BY <1>0, <2>1, <2>6, <3>1, <3>2, <4>1, BulkChange
    <3>4. ContainerBulk(w, s) \in Nat /\ ContainerBulk(v, s) \in Nat /\ Load(v.heap[o]) \in Nat
      BY <1>0, <2>1, BulkIs
    <3> QED BY <2>3, <3>2, <3>3, <3>4
  <2> QED BY <2>5, <2>6 DEF w
<1> QED BY <1>0, <1>1, <1>2

\* addContainerItem adds what is put in.
LEMMA AddContainerItemBulk ==
    ASSUME NEW l, NEW v, Sound(l, v), FreeObjects(v) # {}, NEW o \in Objects, NEW s \in Slots,
           NEW count \in 0 .. MaxCount
    PROVE  LET w == AddContainerItem(v, o, s, count) IN
           /\ \A t \in Slots \ {s} : ContainerBulk(w, t) <= ContainerBulk(v, t)
           /\ ContainerBulk(w, s) <= ContainerBulk(v, s) + Bulk1(v.heap[o].kind) * count
<1> DEFINE w == AddContainerItem(v, o, s, count)
           n == NewObject(v)
           c == v.containers[s]
           d == w.containers[s]
           load == Bulk1(v.heap[o].kind) * count
<1>0. v \in Inventories /\ Keyed(v) /\ v.heap[o].kind \in Kinds /\ count \in Nat
  BY CountType, Numbers DEF Sound
<1>1. Filed(v, w, o, s, count) /\ n \in Objects /\ v.heap[n].guid = 0
  BY <1>0, AddContainerItemIs, NewObjectIs
<1> HIDE DEF w
<1>2. /\ w \in Inventories
      /\ \A p \in Objects \ {n} : w.heap[p] = v.heap[p]
      /\ w.heap[n].kind = v.heap[o].kind /\ w.heap[n].count = count
      /\ \A t \in Slots \ {s} : w.containers[t] = v.containers[t]
      /\ \E m \in DOMAIN d :
            d[m] = n /\ \A i \in DOMAIN d \ {m} : i \in DOMAIN c /\ d[i] = c[i]
  BY <1>1 DEF Filed
<1> HIDE DEF n
<1>3. \A t \in Slots : \A i \in DOMAIN v.containers[t] :
         v.containers[t][i] \in Objects \ {n}
  BY <1>0, <1>1, NewIsUnused, ContainerIs
<1>4. \A p \in Objects : Load(v.heap[p]) \in Nat /\ Load(w.heap[p]) \in Nat
  BY <1>0, <1>2, BulkIs
<1>5. \A t \in Slots \ {s} : ContainerBulk(w, t) <= ContainerBulk(v, t)
  <2> TAKE t \in Slots \ {s}
  <2>1. \A i \in DOMAIN w.containers[t] :
           /\ \E j \in DOMAIN v.containers[t] : w.containers[t][i] = v.containers[t][j]
           /\ Load(w.heap[w.containers[t][i]]) <= Load(v.heap[w.containers[t][i]])
    BY <1>2, <1>3, <1>4
  <2> QED BY <1>0, <1>2, <2>1, ShrinksIf
<1>6. ContainerBulk(w, s) <= ContainerBulk(v, s) + load
  <2>1. load \in Nat /\ Load(w.heap[n]) <= load
    <3>1. load \in Nat
      BY <1>0, LoadIs
    <3>2. Load(w.heap[n]) = load
      BY <1>2 DEF Load
    <3> QED BY <3>1, <3>2
  <2>2. \A p \in Range(d) \ {n} : p \in Range(c) /\ Load(w.heap[p]) <= Load(v.heap[p])
    <3> TAKE p \in Range(d) \ {n}
    <3>1. PICK i \in DOMAIN d : d[i] = p /\ p \in Objects
      BY <1>2, RangeIs
    <3>2. i \in DOMAIN c /\ c[i] = p
      BY <1>2, <3>1
    <3>3. p \in Range(c)
      BY <1>0, <3>2, RangeIs
    <3> QED BY <1>2, <1>4, <3>1, <3>3
  <2> HIDE DEF load, d, c
  <2> QED BY <1>0, <1>1, <1>2, <2>1, <2>2, BulkChange DEF c, d
<1> QED BY <1>5, <1>6 DEF w

\* What is put on a stack is added.
LEMMA AddToStackBulk ==
    ASSUME NEW l, NEW v, Sound(l, v), NEW s \in Slots, NEW count \in 0 .. MaxCount,
           NEW kind \in Kinds, NEW i \in Stacks(v, s, kind, count)
    PROVE  LET w == AddToStack(v, s, i, count) IN
           /\ \A t \in Slots \ {s} : ContainerBulk(w, t) <= ContainerBulk(v, t)
           /\ ContainerBulk(w, s) <= ContainerBulk(v, s) + Bulk1(kind) * count
<1> DEFINE w == AddToStack(v, s, i, count)
           x == v.containers[s][i]
<1>0. /\ v \in Inventories /\ count \in Nat /\ i \in DOMAIN v.containers[s]
      /\ kind \notin Bags /\ v.heap[x].kind = kind /\ v.heap[x].count + count <= MaxCount
  <2>1. /\ i \in DOMAIN v.containers[s] /\ kind \notin Bags
        /\ v.heap[v.containers[s][i]].kind = kind
        /\ v.heap[v.containers[s][i]].count + count <= MaxCount
    BY AddToStackStep
  <2>2. v \in Inventories /\ count \in Nat
    BY Numbers DEF Sound
  <2> QED BY <2>1, <2>2
<1>1. /\ w \in Inventories /\ x \in Objects
      /\ \A p \in Objects \ {x} : w.heap[p] = v.heap[p]
      /\ w.heap[x].kind = v.heap[x].kind /\ w.heap[x].count = v.heap[x].count + count
      /\ w.containers = v.containers
  BY <1>0, AddToStackIs
<1> HIDE DEF w
<1>2. \A p \in Objects : Load(v.heap[p]) \in Nat /\ Load(w.heap[p]) \in Nat
  BY <1>0, <1>1, BulkIs
<1>3. /\ Load(w.heap[x]) = Load(v.heap[x]) + Bulk1(kind) * count
      /\ Bulk1(kind) * count \in Nat /\ v.heap[x].count \in Nat
  <2>1. v.heap[x].count \in Nat /\ w.heap[x].count \in Nat
    <3>1. v.heap[x].count \in Nat
      BY <1>1, CountType
    <3> HIDE DEF x
    <3> QED BY <1>0, <1>1, <3>1
  <2>2. /\ Bulk1(kind) * count = count /\ Bulk1(kind) * v.heap[x].count = v.heap[x].count
        /\ Bulk1(kind) * w.heap[x].count = w.heap[x].count
    BY <1>0, <2>1, LoadIs
  <2> HIDE DEF x
  <2> QED BY <1>0, <1>1, <2>1, <2>2 DEF Load
<1>4. \A t \in Slots \ {s} : ContainerBulk(w, t) <= ContainerBulk(v, t)
  <2> TAKE t \in Slots \ {s}
  <2>1. \A j \in DOMAIN v.containers[t] : v.containers[t][j] \in Objects \ {x}
    BY <1>0, ContainerIs DEF Sound, Apart
  <2>2. \A j \in DOMAIN w.containers[t] :
           /\ \E k \in DOMAIN v.containers[t] : w.containers[t][j] = v.containers[t][k]
           /\ Load(w.heap[w.containers[t][j]]) <= Load(v.heap[w.containers[t][j]])
    BY <1>1, <1>2, <2>1
  <2> QED BY <1>0, <1>1, <2>2, ShrinksIf
<1>5. ContainerBulk(w, s) <= ContainerBulk(v, s) + Bulk1(kind) * count
  <2> DEFINE left == Load(w.heap[x])
  <2>1. left \in Nat /\ left <= left /\ x \in Range(v.containers[s])
    BY <1>0, <1>1, <1>2, RangeIs
  <2>2. \A p \in Range(w.containers[s]) \ {x} :
           p \in Range(v.containers[s]) /\ Load(w.heap[p]) <= Load(v.heap[p])
    <3> TAKE p \in Range(w.containers[s]) \ {x}
    <3>1. p \in Range(v.containers[s]) /\ p \in Objects
      BY <1>0, <1>1, RangeIs
    <3> QED BY <1>1, <1>2, <3>1
  <2>3. ContainerBulk(w, s) <= ContainerBulk(v, s) - Load(v.heap[x]) + left
    <3>1. x \in Range(w.containers[s]) => Load(w.heap[x]) <= left
      BY <2>1
    <3> HIDE DEF left, x
    <3> QED BY <1>0, <1>1, <2>1, <2>2, <3>1, BulkChange
  <2>4. ContainerBulk(w, s) \in Nat /\ ContainerBulk(v, s) \in Nat
    BY <1>0, <1>1, BulkIs
  <2> HIDE DEF x
  <2> QED BY <1>1, <1>2, <1>3, <2>1, <2>3, <2>4
<1> QED BY <1>4, <1>5 DEF w

-----------------------------------------------------------------------------
(* No bag holds more than its bulk. *)

\* No bag has more than it takes.
Within(v) == \A s \in Slots : ContainerBulk(v, s) <= MaxBulk

\* What shrinks stays within its bulk.
LEMMA ShrinksWithin ==
    ASSUME NEW v \in Inventories, NEW w \in Inventories, Within(v), Shrinks(v, w)
    PROVE  Within(w)
<1>1. \A s \in Slots : ContainerBulk(v, s) \in Nat /\ ContainerBulk(w, s) \in Nat
  BY BulkIs
<1> QED BY <1>1, Numbers DEF Within, Shrinks

\* What fits into one container of v stays within the bulk.
LEMMA FitsWithin ==
    ASSUME NEW v \in Inventories, NEW w \in Inventories, NEW s \in Slots, Within(v),
           \A t \in Slots \ {s} : ContainerBulk(w, t) <= ContainerBulk(v, t),
           NEW load \in Nat, ContainerBulk(w, s) <= ContainerBulk(v, s) + load,
           ContainerBulk(v, s) + load <= MaxBulk
    PROVE  Within(w)
<1>1. \A t \in Slots : ContainerBulk(v, t) \in Nat /\ ContainerBulk(w, t) \in Nat
  BY BulkIs
<1> QED BY <1>1, Numbers DEF Within

\* lootContainerItem
LEMMA LootContainerItemWithin ==
    ASSUME NEW l, NEW v, Sound(l, v), Within(v), Room(v, 1), NEW o \in Objects, v.heap[o].guid # 0,
           NEW count \in 0 .. MaxCount, Fair(l, v.heap[o].kind, count)
    PROVE  Within(LootContainerItem(v, o, count))
<1> DEFINE w == LootContainerItem(v, o, count)
           kind == v.heap[o].kind
           load == Bulk1(kind) * count
<1>0. /\ v \in Inventories /\ FreeObjects(v) # {} /\ v.open \in SUBSET Slots /\ kind \in Kinds
      /\ count \in 0 .. MaxCount /\ count \in Nat /\ load \in Nat
  <2>1. kind \in Kinds /\ count \in Nat
    BY CountType, Numbers
  <2>2. load \in Nat
    BY <2>1, LoadIs
  <2> HIDE DEF load, kind
  <2> QED BY <2>1, <2>2, RoomMeans, Fields, Numbers DEF Sound
<1>1. w \in Inventories
  BY LootContainerItemStep DEF Step, Sound
<1> HIDE DEF w
<1>2. ASSUME w = Ground(v, o) PROVE Within(w)
  BY <1>0, <1>1, <1>2, GroundShrinks, ShrinksWithin
<1>3. ASSUME NEW s \in v.open, HasSpace(v, s, kind, count), w = AddContainerItem(v, o, s, count)
      PROVE  Within(w)
  <2>1. /\ s \in Slots /\ ContainerBulk(v, s) + load <= MaxBulk
    BY <1>0, <1>3 DEF HasSpace
  <2>2. /\ \A t \in Slots \ {s} : ContainerBulk(w, t) <= ContainerBulk(v, t)
        /\ ContainerBulk(w, s) <= ContainerBulk(v, s) + load
    BY <1>0, <1>3, <2>1, AddContainerItemBulk
  <2> HIDE DEF load
  <2> QED BY <1>0, <1>1, <2>1, <2>2, FitsWithin
<1>4. ASSUME NEW s \in v.open, NEW i \in Stacks(v, s, kind, count),
             HasSpace(v, s, kind, count), w = AddToStack(v, s, i, count)
      PROVE  Within(w)
  <2>1. /\ s \in Slots /\ ContainerBulk(v, s) + load <= MaxBulk
    BY <1>0, <1>4 DEF HasSpace
  <2>2. /\ \A t \in Slots \ {s} : ContainerBulk(w, t) <= ContainerBulk(v, t)
        /\ ContainerBulk(w, s) <= ContainerBulk(v, s) + load
    <3> HIDE DEF kind
    <3> QED BY <1>0, <1>4, <2>1, AddToStackBulk
  <2> HIDE DEF load
  <2> QED BY <1>0, <1>1, <2>1, <2>2, FitsWithin
<1>5. Within(w)
  BY <1>2, <1>3, <1>4, LootContainerCases DEF w
<1> QED BY <1>5 DEF w

\* lootItem
LEMMA LootItemWithin ==
    ASSUME NEW l, NEW v, Sound(l, v), Within(v), Room(v, 1), NEW o \in Objects, v.heap[o].guid # 0
    PROVE  Within(LootItem(v, o))
<1>0. v \in Inventories /\ FreeObjects(v) # {} /\ v.heap[o].count \in 0 .. MaxCount
      /\ Fair(l, v.heap[o].kind, v.heap[o].count)
      /\ (v.heap[o].kind \in Bags => v.heap[o].kind \in Slots)
  BY RoomMeans, CountType, Numbers DEF Sound
<1>1. CASE v.heap[o].kind \in Bags /\ v.loadout[v.heap[o].kind] = Nobody
  <2> DEFINE w == EquipItem(v, o, v.heap[o].kind)
  <2>1. Shrinks(v, w) /\ w \in Inventories
    BY <1>0, <1>1, EquipItemShrinks, EquipItemStep DEF Step, Sound
  <2>2. LootItem(v, o) = w
    BY <1>1 DEF LootItem
  <2> HIDE DEF w
  <2> QED BY <1>0, <2>1, <2>2, ShrinksWithin
<1>2. CASE ~(v.heap[o].kind \in Bags /\ v.loadout[v.heap[o].kind] = Nobody)
  BY <1>0, <1>2, LootContainerItemWithin DEF LootItem
<1> QED BY <1>1, <1>2

\* removeInventoryItem
LEMMA RemoveInventoryItemShrinks ==
    ASSUME NEW l, NEW v, Sound(l, v), NEW o \in Objects, v.heap[o].guid # 0,
           NEW count \in 0 .. MaxCount
    PROVE  Shrinks(v, RemoveInventoryItem(v, o, count))
<1> DEFINE w == RemoveInventoryItem(v, o, count)
           holding == SlotsHolding(v, v.heap[o].guid)
           s == Min(holding)
           some == Clamp(v.heap[o].count, count)
<1>0. v \in Inventories /\ some \in 0 .. MaxCount /\ some <= v.heap[o].count
  BY CountType, ClampIs DEF Sound
<1> HIDE DEF w, some
<1>1. ASSUME s \in holding, w = RemoveContainerItem(v, o, s, some)
      PROVE  Shrinks(v, w)
  <2> HIDE DEF s
  <2> QED BY <1>0, <1>1, RemoveContainerItemBulk
<1>2. ASSUME v.heap[o].slot \in Slots, w = RemoveLoadoutItem(v, v.heap[o].slot)
      PROVE  Shrinks(v, w)
  BY <1>2, RemoveLoadoutItemShrinks
<1>3. w = v => Shrinks(v, w)
  <2>1. \A t \in Slots : ContainerBulk(v, t) <= ContainerBulk(v, t)
    BY <1>0, BulkIs
  <2> QED BY <2>1 DEF Shrinks
<1>4. Shrinks(v, w)
  BY <1>1, <1>2, <1>3, RemoveInventoryCases, Numbers DEF w, some
<1> QED BY <1>4 DEF w

\* dropItem
LEMMA DropItemShrinks ==
    ASSUME NEW l, NEW v, Sound(l, v), Room(v, 1), NEW o \in Objects, v.heap[o].guid # 0,
           NEW count \in 0 .. MaxCount, Said(l, v.heap[o].count, count)
    PROVE  Shrinks(v, DropItem(v, o, count))
<1> DEFINE removed == RemoveInventoryItem(v, o, count)
           generated == GenerateItem(removed, v.heap[o].kind, count)
           n == NewObject(removed)
<1>0. v.heap[o].kind \in Kinds /\ Fair(l, v.heap[o].kind, count) /\ v \in Inventories
  <2>1. /\ v.heap[o].kind \in Kinds /\ v.heap[o].count \in Nat /\ count \in Nat
        /\ Fair(l, v.heap[o].kind, v.heap[o].count)
    BY CountType, Numbers
  <2> QED BY <2>1, SaidFair DEF Sound
<1>1. Step(l, v, removed, 0) /\ Shrinks(v, removed)
  BY RemoveInventoryItemStep, RemoveInventoryItemShrinks
<1> HIDE DEF removed
<1>2. Sound(l, removed) /\ removed \in Inventories /\ FreeObjects(removed) # {}
  <2>1. 1 \in Nat \ {0} /\ 0 \in Nat /\ 1 + 0 = 1
    OBVIOUS
  <2>2. Sound(l, removed) /\ Room(removed, 1)
    BY <1>1, <2>1, StepLeaves
  <2> QED BY <2>1, <2>2, RoomMeans DEF Sound
<1>3. Shrinks(removed, Ground(removed, o)) /\ Ground(removed, o) \in Inventories
  BY <1>2, GroundShrinks, GroundIs
<1>4. Shrinks(removed, generated) /\ generated \in Inventories /\ n \in Objects
  BY <1>0, <1>2, GenerateItemStep, GenerateItemShrinks DEF Step, Sound
<1> HIDE DEF generated, n
<1>5. Shrinks(generated, Ground(generated, n)) /\ Ground(generated, n) \in Inventories
  BY <1>4, GroundShrinks, GroundIs
<1>6. Shrinks(v, generated)
  BY <1>0, <1>1, <1>2, <1>4, ShrinksCompose
<1>7. Shrinks(v, Ground(removed, o)) /\ Shrinks(v, Ground(generated, n))
  BY <1>0, <1>1, <1>2, <1>3, <1>4, <1>5, <1>6, ShrinksCompose
<1>8. \/ DropItem(v, o, count) = Ground(removed, o)
      \/ DropItem(v, o, count) = Ground(generated, n)
      \/ DropItem(v, o, count) = removed
  BY DEF DropItem, removed, generated, n
<1> QED BY <1>1, <1>7, <1>8

\* equipContainerItem
LEMMA EquipContainerItemWithin ==
    ASSUME NEW l, NEW v, Sound(l, v), Within(v), Room(v, 2), NEW s \in Slots,
           NEW o \in Objects, v.heap[o].guid # 0, v.heap[o].kind = s, v.heap[o].count > 0,
           Min(SlotsHolding(v, v.heap[o].guid)) \in SlotsHolding(v, v.heap[o].guid)
    PROVE  Within(EquipContainerItem(v, o, s))
<1> DEFINE from == Min(SlotsHolding(v, v.heap[o].guid))
           old == v.loadout[s]
           taken == RemoveContainerItem(v, o, from, 1)
           removed == RemoveLoadoutItem(taken, s)
           stowed == IF old = Nobody THEN taken ELSE LootContainerItem(removed, old, 1)
<1>0. /\ 1 <= v.heap[o].count /\ 1 \in 0 .. MaxCount /\ 1 \in Nat \ {0} /\ 2 \in Nat /\ 0 \in Nat
      /\ 2 + 0 = 2 /\ 1 + 1 = 2 /\ 0 + 0 <= 0 /\ 0 <= 1 /\ 0 + 1 <= 1 /\ v \in Inventories
      /\ \A kind : Fair(l, kind, 1)
  BY CountType, Numbers DEF Sound, Fair
<1>1. Step(l, v, taken, 0) /\ Shrinks(v, taken)
  <2> HIDE DEF from
  <2> QED BY <1>0, RemoveContainerItemStep, RemoveContainerItemBulk DEF from
<1> HIDE DEF taken, from
<1>2. Step(l, taken, removed, 0) /\ Shrinks(taken, removed)
  BY <1>1, RemoveLoadoutItemStep, RemoveLoadoutItemShrinks DEF Step
<1> HIDE DEF removed
<1>3. Within(taken) /\ Within(removed) /\ taken \in Inventories /\ removed \in Inventories
  <2>1. taken \in Inventories /\ removed \in Inventories
    BY <1>1, <1>2 DEF Step, Sound
  <2>2. Within(taken)
    BY <1>0, <1>1, <2>1, ShrinksWithin
  <2> QED BY <1>2, <2>1, <2>2, ShrinksWithin
<1>4. ASSUME old # Nobody
      PROVE  /\ Step(l, v, LootContainerItem(removed, old, 1), 1)
             /\ Within(LootContainerItem(removed, old, 1))
  <2>1. old \in Objects /\ v.heap[old].guid # 0
    BY <1>4, InUse, Numbers
  <2> HIDE DEF old
  <2>2. Step(l, v, removed, 0)
    BY <1>0, <1>1, <1>2, StepsTo
  <2>3. Sound(l, removed) /\ removed.heap[old].guid # 0 /\ Room(removed, 1)
    <3>1. Sound(l, removed) /\ Kept(v, removed) /\ Room(removed, 2)
      BY <1>0, <2>2, StepLeaves
    <3> QED BY <1>0, <2>1, <3>1, RoomForLess, 1 <= 2 DEF Kept
  <2>4. Step(l, removed, LootContainerItem(removed, old, 1), 1)
    BY <1>0, <2>1, <2>3, LootContainerItemStep
  <2> QED BY <1>0, <1>3, <2>1, <2>2, <2>3, <2>4, StepsTo, LootContainerItemWithin
<1>5. Step(l, v, stowed, 1) /\ Within(stowed)
  <2>1. CASE old = Nobody
    <3>1. stowed = taken
      BY <2>1
    <3> HIDE DEF stowed
    <3> QED BY <1>0, <1>1, <1>3, <3>1, StepWider
  <2>2. CASE old # Nobody
    <3>1. stowed = LootContainerItem(removed, old, 1)
      BY <2>2
    <3> HIDE DEF stowed, old
    <3> QED BY <1>4, <2>2, <3>1
  <2> QED BY <2>1, <2>2
<1> HIDE DEF stowed
<1>6. /\ Sound(l, stowed) /\ stowed.heap[o].guid # 0 /\ stowed.heap[o].kind = s
      /\ FreeObjects(stowed) # {} /\ stowed \in Inventories
  <2>1. Sound(l, stowed) /\ Kept(v, stowed) /\ Room(stowed, 1)
    BY <1>0, <1>5, StepLeaves
  <2> QED BY <1>0, <2>1, RoomMeans DEF Kept, Sound
<1>7. Shrinks(stowed, EquipItem(stowed, o, s)) /\ EquipItem(stowed, o, s) \in Inventories
  BY <1>6, EquipItemStep, EquipItemShrinks DEF Step, Sound
<1>8. \/ EquipContainerItem(v, o, s) = EquipItem(stowed, o, s)
      \/ EquipContainerItem(v, o, s) = taken
  BY DEF EquipContainerItem, stowed, removed, taken, from
<1>9. Within(EquipItem(stowed, o, s))
  BY <1>5, <1>6, <1>7, ShrinksWithin
<1> QED BY <1>3, <1>8, <1>9

\* A moved item weighs in the container it is put into.
LEMMA PutMovedBulk ==
    ASSUME NEW l, NEW v, Sound(l, v), Room(v, 2), NEW o \in Objects, v.heap[o].guid # 0,
           NEW s \in v.open, NEW whole \in BOOLEAN,
           NEW count \in 0 .. MaxCount, Fair(l, v.heap[o].kind, count)
    PROVE  LET w == PutMoved(v, o, s, whole, count) IN
           /\ \A t \in Slots \ {s} : ContainerBulk(w, t) <= ContainerBulk(v, t)
           /\ ContainerBulk(w, s) <= ContainerBulk(v, s) + Bulk1(v.heap[o].kind) * count
<1> DEFINE generated == GenerateItem(v, v.heap[o].kind, 1)
           n == NewObject(v)
<1>0. /\ FreeObjects(v) # {} /\ v.heap[o].kind \in Kinds /\ v \in Inventories /\ s \in Slots
      /\ 0 \in Nat /\ 1 \in Nat /\ 2 \in Nat \ {0} /\ 1 \in 0 .. MaxCount /\ 1 + 1 = 2
      /\ count \in 0 .. MaxCount /\ count \in Nat /\ \A kind : Fair(l, kind, 1)
  BY RoomMeans, Fields, CountType, Numbers DEF Sound, Fair
<1>1. CASE whole
  BY <1>0, <1>1, AddContainerItemBulk DEF PutMoved
<1>2. CASE ~whole
  <2>1. /\ Step(l, v, generated, 1) /\ n \in Objects /\ generated.heap[n].guid # 0
        /\ generated.heap[n].kind = v.heap[o].kind /\ Shrinks(v, generated)
    BY <1>0, GenerateItemStep, GenerateItemShrinks
  <2> HIDE DEF generated, n
  <2>2. Sound(l, generated) /\ FreeObjects(generated) # {} /\ generated \in Inventories
    <3>1. Sound(l, generated) /\ Room(generated, 1)
      BY <1>0, <2>1, StepLeaves
    <3> QED BY <1>0, <3>1, RoomMeans DEF Sound
  <2> DEFINE w == AddContainerItem(generated, n, s, count)
             load == Bulk1(v.heap[o].kind) * count
  <2>3. /\ \A t \in Slots \ {s} : ContainerBulk(w, t) <= ContainerBulk(generated, t)
        /\ ContainerBulk(w, s) <= ContainerBulk(generated, s) + load
    BY <1>0, <2>1, <2>2, AddContainerItemBulk
  <2>4. w \in Inventories
    <3>1. Filed(generated, w, n, s, count)
      BY <1>0, <2>1, <2>2, AddContainerItemIs DEF Sound
    <3> QED BY <3>1 DEF Filed
  <2>5. load \in Nat
    BY <1>0, LoadIs
  <2>6. PutMoved(v, o, s, whole, count) = w
    BY <1>2 DEF PutMoved, generated, n
  <2> HIDE DEF w, load
  <2>7. \A t \in Slots : /\ ContainerBulk(w, t) \in Nat /\ ContainerBulk(generated, t) \in Nat
                         /\ ContainerBulk(v, t) \in Nat
    BY <1>0, <2>2, <2>4, BulkIs
  <2>8. /\ \A t \in Slots \ {s} : ContainerBulk(w, t) <= ContainerBulk(v, t)
        /\ ContainerBulk(w, s) <= ContainerBulk(v, s) + load
    BY <1>0, <2>1, <2>3, <2>5, <2>7 DEF Shrinks
  <2> QED BY <2>6, <2>8 DEF load
<1> QED BY <1>1, <1>2

\* containerMoveItem where there is space for it, or within a container.
LEMMA MoveWithin ==
    ASSUME NEW l, NEW v, Sound(l, v), Within(v), Room(v, 2), NEW o \in Objects, v.heap[o].guid # 0,
           NEW from \in SlotsHolding(v, v.heap[o].guid), o \in Range(v.containers[from]),
           NEW to \in v.open, NEW count \in 0 .. MaxCount, count <= v.heap[o].count,
           Said(l, v.heap[o].count, count),
           from # to => HasSpace(v, to, v.heap[o].kind, count)
    PROVE  /\ Within(MoveToEnd(v, o, from, to, count))
           /\ \A i : Within(MoveOnto(v, o, from, to, i, count))
<1> DEFINE removed == RemoveContainerItem(v, o, from, count)
           kind == v.heap[o].kind
           load == Bulk1(kind) * count
           whole == v.heap[o].count = count
           put == PutMoved(removed, o, to, whole, count)
<1>0. /\ Fair(l, kind, count) /\ 2 + 0 = 2 /\ 0 \in Nat /\ 2 \in Nat
      /\ kind \in Kinds /\ count \in Nat /\ count \in 0 .. MaxCount /\ load \in Nat
      /\ v \in Inventories /\ to \in Slots /\ from \in Slots /\ whole \in BOOLEAN
  <2>1. kind \in Kinds /\ count \in Nat /\ Fair(l, kind, count)
    <3>1. /\ kind \in Kinds /\ v.heap[o].count \in Nat /\ count \in Nat
          /\ Fair(l, kind, v.heap[o].count)
      BY CountType, Numbers
    <3> HIDE DEF kind
    <3> QED BY <3>1, SaidFair
  <2>2. load \in Nat
    BY <2>1, LoadIs
  <2> HIDE DEF load, kind
  <2> QED BY <2>1, <2>2, Fields, Numbers DEF Sound, SlotsHolding
<1>1. /\ Step(l, v, removed, 0) /\ Shrinks(v, removed)
      /\ from = to => ContainerBulk(removed, to) <= ContainerBulk(v, to) - load
  BY RemoveContainerItemStep, RemoveContainerItemBulk
<1>2. removed.open = v.open
  BY RemoveContainerItemLeaves
<1>3. /\ MoveToEnd(v, o, from, to, count) = put
      /\ \A i : MoveOnto(v, o, from, to, i, count) =
                  IF i \in Stacks(removed, to, kind, count) THEN AddToStack(removed, to, i, count) ELSE put
  BY DEF MoveToEnd, MoveOnto
<1> HIDE DEF removed
<1>4. /\ Sound(l, removed) /\ Room(removed, 2) /\ removed \in Inventories
      /\ removed.heap[o].guid # 0 /\ removed.heap[o].kind = kind
  <2>1. Sound(l, removed) /\ Kept(v, removed) /\ Room(removed, 2)
    BY <1>0, <1>1, StepLeaves
  <2> QED BY <2>1 DEF Kept, Sound
<1>5. Within(removed)
  BY <1>0, <1>1, <1>4, ShrinksWithin
<1>6. ContainerBulk(removed, to) + load <= MaxBulk
  <2>1. ContainerBulk(removed, to) \in Nat /\ ContainerBulk(v, to) \in Nat
        /\ ContainerBulk(v, to) <= MaxBulk /\ MaxBulk \in Nat
    BY <1>0, <1>4, BulkIs, Numbers DEF Within
  <2>2. CASE from = to
    <3> HIDE DEF load
    <3> QED BY <1>0, <1>1, <2>1, <2>2
  <2>3. CASE from # to
    <3>1. ContainerBulk(v, to) + load <= MaxBulk /\ ContainerBulk(removed, to) <= ContainerBulk(v, to)
      BY <1>0, <1>1, <2>3 DEF HasSpace, Shrinks
    <3> HIDE DEF load
    <3> QED BY <1>0, <2>1, <3>1
  <2> QED BY <2>2, <2>3
<1>7. Within(put)
  <2>1. /\ \A t \in Slots \ {to} : ContainerBulk(put, t) <= ContainerBulk(removed, t)
        /\ ContainerBulk(put, to) <= ContainerBulk(removed, to) + load
        /\ Step(l, removed, put, 2)
    <3> HIDE DEF whole, kind
    <3> QED BY <1>0, <1>2, <1>4, PutMovedBulk, PutMovedStep
  <2> HIDE DEF put, load
  <2> QED BY <1>0, <1>4, <1>5, <1>6, <2>1, FitsWithin DEF Step, Sound
<1>8. ASSUME NEW i \in Stacks(removed, to, kind, count)
      PROVE  Within(AddToStack(removed, to, i, count))
  <2> DEFINE w == AddToStack(removed, to, i, count)
  <2> HIDE DEF kind
  <2>1. /\ \A t \in Slots \ {to} : ContainerBulk(w, t) <= ContainerBulk(removed, t)
        /\ ContainerBulk(w, to) <= ContainerBulk(removed, to) + Bulk1(kind) * count
        /\ Step(l, removed, w, 0)
    BY <1>0, <1>4, AddToStackBulk, AddToStackStep
  <2> HIDE DEF w
  <2>2. Within(w)
    BY <1>0, <1>4, <1>5, <1>6, <2>1, FitsWithin DEF Step, Sound
  <2> QED BY <2>2 DEF w
<1> QED BY <1>3, <1>7, <1>8

\* A worn bag is put where there is space for it.
LEMMA StowWornWithin ==
    ASSUME NEW l, NEW v, Sound(l, v), Within(v), Room(v, 1), NEW s \in Slots, v.loadout[s] # Nobody,
           NEW to \in v.open, NEW count \in 0 .. MaxCount, HasSpace(v, to, s, count)
    PROVE  Within(StowWorn(v, s, to, count))
<1> DEFINE removed == RemoveLoadoutItem(v, s)
           old == v.loadout[s]
           load == Bulk1(s) * count
<1>0. /\ 1 + 0 = 1 /\ 0 \in Nat /\ 1 \in Nat \ {0} /\ count \in Nat /\ s \in Kinds
      /\ old \in Objects /\ v.heap[old].guid # 0 /\ v.heap[old].kind = s /\ v \in Inventories
      /\ to \in Slots
  BY InUse, Fields, Numbers
<1>1. Step(l, v, removed, 0) /\ removed.open = v.open \ {s} /\ Shrinks(v, removed)
  BY <1>0, RemoveLoadoutItemStep, RemoveLoadoutItemIs, RemoveLoadoutItemShrinks
<1> HIDE DEF removed, old
<1>2. /\ Sound(l, removed) /\ FreeObjects(removed) # {} /\ removed \in Inventories
      /\ removed.heap[old].kind = s
  <2>1. Sound(l, removed) /\ Kept(v, removed) /\ Room(removed, 1)
    BY <1>0, <1>1, StepLeaves
  <2> QED BY <1>0, <2>1, RoomMeans DEF Kept, Sound
<1>3. Within(removed)
  BY <1>0, <1>1, <1>2, ShrinksWithin
<1>4. CASE to = s
  BY <1>3, <1>4 DEF StowWorn, removed
<1>5. CASE to # s
  <2> DEFINE w == AddContainerItem(removed, old, to, count)
  <2>1. /\ \A t \in Slots \ {to} : ContainerBulk(w, t) <= ContainerBulk(removed, t)
        /\ ContainerBulk(w, to) <= ContainerBulk(removed, to) + load
    BY <1>0, <1>2, AddContainerItemBulk
  <2>2. w \in Inventories
    <3>1. Filed(removed, w, old, to, count)
      BY <1>0, <1>2, AddContainerItemIs DEF Sound
    <3> QED BY <3>1 DEF Filed
  <2>3. load \in Nat
    BY <1>0, LoadIs
  <2>4. ContainerBulk(v, to) + load <= MaxBulk
    BY DEF HasSpace
  <2>5. StowWorn(v, s, to, count) = w
    BY <1>5 DEF StowWorn, removed, old
  <2> HIDE DEF w, load
  <2>6. ContainerBulk(removed, to) + load <= MaxBulk
    <3>1. /\ ContainerBulk(removed, to) \in Nat /\ ContainerBulk(v, to) \in Nat
          /\ ContainerBulk(removed, to) <= ContainerBulk(v, to)
      BY <1>0, <1>1, <1>2, BulkIs DEF Shrinks
    <3> QED BY <2>3, <2>4, <3>1, Numbers
  <2> QED BY <1>0, <1>2, <1>3, <2>1, <2>2, <2>3, <2>5, <2>6, FitsWithin
<1> QED BY <1>4, <1>5

\* pickupItem
LEMMA PickUpWithin ==
    ASSUME NEW l, Sound(l, inv), Within(inv), NEW o \in Objects, o \in Lying(inv), Roomy3
    PROVE  Within([LootItem(inv, o) EXCEPT !.ground[o] = @ - 1])
<1> DEFINE looted == LootItem(inv, o)
           w == [looted EXCEPT !.ground[o] = @ - 1]
<1>0. Sound(l, inv) /\ inv.heap[o].guid # 0 /\ Room(inv, 1)
  BY CarriedIs, RoomForAll
<1>1. Step(l, inv, looted, 1) /\ Within(looted)
  BY <1>0, LootItemStep, LootItemWithin
<1>2. looted \in Inventories /\ w \in Inventories
  BY <1>1, PickUpStep DEF Step, Sound
<1> HIDE DEF looted
<1>3. w.heap = looted.heap /\ w.containers = looted.containers
  BY <1>2 DEF Inventories
<1> HIDE DEF w
<1>4. Shrinks(looted, w)
  BY <1>2, <1>3, SubShrinks
<1>5. Within(w)
  BY <1>1, <1>2, <1>4, ShrinksWithin
<1> QED BY <1>5 DEF w, looted

\* What is left after a use fits, or lies on the ground.
LEMMA UseWithin ==
    ASSUME NEW l, NEW v, Sound(l, v), Within(v), Room(v, 2), NEW o \in Objects, v.heap[o].guid # 0,
           NEW kind \in Kinds, NEW count \in 0 .. MaxCount, Fair(l, kind, count)
    PROVE  LET removed == RemoveInventoryItem(v, o, 1)
               generated == GenerateItem(removed, kind, count)
               n == NewObject(removed)
           IN
           Within(LootContainerItem(generated, n, count)) /\ Within(LootItem(generated, n))
<1> DEFINE removed == RemoveInventoryItem(v, o, 1)
           generated == GenerateItem(removed, kind, count)
           n == NewObject(removed)
<1>0. /\ 0 \in Nat /\ 1 \in Nat \ {0} /\ 2 \in Nat \ {0} /\ 2 + 0 = 2 /\ 1 + 1 = 2
      /\ 1 \in 0 .. MaxCount /\ v \in Inventories
  BY Numbers DEF Sound
<1>1. Step(l, v, removed, 0) /\ Shrinks(v, removed)
  BY <1>0, RemoveInventoryItemStep, RemoveInventoryItemShrinks
<1> HIDE DEF removed
<1>2. Sound(l, removed) /\ Room(removed, 2) /\ FreeObjects(removed) # {} /\ removed \in Inventories
  <2>1. Sound(l, removed) /\ Room(removed, 2)
    BY <1>0, <1>1, StepLeaves
  <2> QED BY <1>0, <2>1, RoomMeans DEF Sound
<1>3. /\ Step(l, removed, generated, 1) /\ n \in Objects /\ generated.heap[n].guid # 0
      /\ generated.heap[n].kind = kind /\ Shrinks(removed, generated)
  BY <1>2, GenerateItemStep, GenerateItemShrinks
<1> HIDE DEF generated, n
<1>4. Sound(l, generated) /\ Room(generated, 1) /\ generated \in Inventories
  <2>1. Sound(l, generated) /\ Room(generated, 1)
    BY <1>0, <1>2, <1>3, StepLeaves
  <2> QED BY <2>1 DEF Sound
<1>5. Within(generated)
  <2>1. Within(removed)
    BY <1>0, <1>1, <1>2, ShrinksWithin
  <2> QED BY <1>2, <1>3, <1>4, <2>1, ShrinksWithin
<1>6. Within(LootContainerItem(generated, n, count)) /\ Within(LootItem(generated, n))
  BY <1>3, <1>4, <1>5, LootContainerItemWithin, LootItemWithin
<1> QED BY <1>6 DEF generated, n, removed

\* No bag has more than it takes, unless items were moved between bags.
Bulky == "overfill" \notin lapses => Within(inv)

\* The collection changes no bulk.
LEMMA SettledWithin ==
    ASSUME NEW v \in Inventories, Within(v), inv' = Collected(v, timer')
    PROVE  Within(inv')
<1> DEFINE w == inv'
           t == timer'
<1>1. w = Collected(v, t)
  OBVIOUS
<1> HIDE DEF w, t
<1>2. Shrinks(v, w) /\ w \in Inventories
  BY <1>1, CollectedShrinks
<1>3. Within(w)
  BY <1>2, ShrinksWithin
<1> QED BY <1>3 DEF w

\* A request that keeps within the bulk.
LEMMA RequestWithin ==
    ASSUME NEW v \in Inventories, NEW touched, NEW careless, Done(v, touched, careless),
           "overfill" \notin lapses' => Within(v)
    PROVE  Bulky'
<1>1. inv' = Collected(v, timer')
  BY DEF Done
<1> QED BY <1>1, SettledWithin DEF Bulky

\* Every step keeps within the bulk, until items are moved between bags.
LEMMA NextBulky ==
    IInv /\ Bulky /\ [Next]_vars => Bulky'
<1> SUFFICES ASSUME IInv, Bulky, [Next]_vars PROVE Bulky'
  OBVIOUS
<1> DEFINE l == lapses \cup {"miscount"}
<1>0. Sound(l, inv) /\ Timed /\ inv \in Inventories
  <2>1. Sound(lapses, inv) /\ Timed /\ lapses \subseteq l
    BY DEF IInv
  <2> HIDE DEF l
  <2> QED BY <2>1, SoundAfter DEF Sound
<1>a. /\ \A kind, count : Fair(l, kind, count)
      /\ \A n, count : Said(l, n, count)
  BY DEF Fair, Said
<1> HIDE DEF l
<1>b. \A v, touched, careless : Done(v, touched, careless) =>
         lapses \subseteq lapses' /\ careless \subseteq lapses'
  BY DEF Done
<1>1. ASSUME NEW o \in Objects, PickUp(o) PROVE Bulky'
  <2> DEFINE w == [LootItem(inv, o) EXCEPT !.ground[o] = @ - 1]
  <2>1. o \in Lying(inv) /\ Roomy3 /\ Done(w, {o}, {})
    BY <1>1 DEF PickUp
  <2>2. w \in Inventories /\ (Within(inv) => Within(w))
    BY <1>0, <2>1, PickUpStep, PickUpWithin DEF Step, Sound
  <2> HIDE DEF w
  <2>3. "overfill" \notin lapses' => Within(w)
    BY <1>b, <2>1, <2>2 DEF Bulky
  <2> QED BY <2>1, <2>2, <2>3, RequestWithin
<1>2. ASSUME NEW o \in Objects, Equip(o) PROVE Bulky'
  <2> DEFINE w == EquipContainerItem(inv, o, inv.heap[o].kind)
             touched == {o, inv.loadout[inv.heap[o].kind]} \ {Nobody}
  <2>1. /\ o \in Held(inv) /\ inv.heap[o].kind \in Slots /\ inv.heap[o].count > 0
        /\ Roomy3 /\ Done(w, touched, {})
    BY <1>2, Numbers DEF Equip, FirstHeld
  <2>2. w \in Inventories /\ (Within(inv) => Within(w))
    <3>1. /\ inv.heap[o].guid # 0 /\ Room(inv, 2)
          /\ Min(SlotsHolding(inv, inv.heap[o].guid)) \in SlotsHolding(inv, inv.heap[o].guid)
      BY <1>0, <2>1, CarriedIs, RoomForAll
    <3> QED BY <1>0, <2>1, <3>1, EquipContainerItemStep, EquipContainerItemWithin DEF Step, Sound
  <2> HIDE DEF w, touched
  <2>3. "overfill" \notin lapses' => Within(w)
    BY <1>b, <2>1, <2>2 DEF Bulky
  <2> QED BY <2>1, <2>2, <2>3, RequestWithin
<1>3. ASSUME NEW o \in Objects, NEW count \in 0 .. MaxCount, Drop(o, count) PROVE Bulky'
  <2> DEFINE w == DropItem(inv, o, count)
             A == count < inv.heap[o].count /\ 2 * count >= inv.heap[o].count
             careless == Miscount(o, count) \cup (IF A THEN {"split"} ELSE {})
  <2>1. (o \in Held(inv) \/ o \in Worn(inv)) /\ Roomy3 /\ Done(w, {o}, careless)
    BY <1>3 DEF Drop, Found, FirstHeld
  <2>2. w \in Inventories /\ Shrinks(inv, w)
    <3>1. inv.heap[o].guid # 0 /\ Room(inv, 1)
      BY <1>0, <2>1, CarriedIs, RoomForAll
    <3> QED BY <1>0, <1>a, <2>1, <3>1, DropItemStep, DropItemShrinks DEF Step, Sound
  <2>3. Within(inv) => Within(w)
    BY <1>0, <2>2, ShrinksWithin
  <2> HIDE DEF w, careless
  <2>4. "overfill" \notin lapses' => Within(w)
    BY <1>b, <2>1, <2>3 DEF Bulky
  <2> QED BY <2>1, <2>2, <2>4, RequestWithin
<1>4. ASSUME NEW o \in Objects, NEW count \in 0 .. MaxCount, NEW to \in Slots, Move(o, to, count)
      PROVE  Bulky'
  <2> DEFINE from == Min(SlotsHolding(inv, inv.heap[o].guid))
             fits == HasSpace(inv, to, inv.heap[o].kind, count)
             overfill == from # to /\ ~fits
             careless == Miscount(o, count) \cup (IF overfill THEN {"overfill"} ELSE {})
  <2>1. /\ o \in Held(inv) /\ to \in inv.open /\ count <= inv.heap[o].count /\ Roomy3
        /\ o \in Range(inv.containers[from])
        /\ \/ Done(MoveToEnd(inv, o, from, to, count), {o}, careless)
           \/ \E i : Done(MoveOnto(inv, o, from, to, i, count), {o}, careless)
    BY <1>4 DEF Move, Open, FirstHeld
  <2>2. from \in SlotsHolding(inv, inv.heap[o].guid) /\ inv.heap[o].guid # 0 /\ Room(inv, 2)
    BY <1>0, <2>1, CarriedIs, RoomForAll
  <2> HIDE DEF from
  <2>3. /\ MoveToEnd(inv, o, from, to, count) \in Inventories
        /\ \A i : MoveOnto(inv, o, from, to, i, count) \in Inventories
    BY <1>0, <1>a, <2>1, <2>2, MoveToEndStep, MoveOntoStep DEF Step, Sound
  <2>4. Within(inv) /\ (from # to => fits) =>
          /\ Within(MoveToEnd(inv, o, from, to, count))
          /\ \A i : Within(MoveOnto(inv, o, from, to, i, count))
    BY <1>0, <1>a, <2>1, <2>2, MoveWithin
  <2>5. overfill => "overfill" \in careless
    OBVIOUS
  <2> HIDE DEF careless, fits
  <2>6. ASSUME NEW w \in Inventories, Done(w, {o}, careless),
               Within(inv) /\ (from # to => fits) => Within(w)
        PROVE  Bulky'
    <3>1. "overfill" \notin lapses' => Within(w)
      BY <1>b, <2>5, <2>6 DEF Bulky
    <3> QED BY <2>6, <3>1, RequestWithin
  <2> QED BY <2>1, <2>3, <2>4, <2>6
<1>5. ASSUME NEW s \in Slots, NEW to \in Slots, NEW count \in 0 .. MaxCount, Stow(s, to, count)
      PROVE  Bulky'
  <2> DEFINE w == StowWorn(inv, s, to, count)
             o == inv.loadout[s]
             careless == Miscount(o, count)
                            \cup (IF Full(s) \/ to = s THEN {"full bag"} ELSE {})
  <2>1. o # Nobody /\ to \in inv.open /\ HasSpace(inv, to, s, count) /\ Roomy3 /\ Done(w, {o}, careless)
    BY <1>5 DEF Stow, Open, OnlyWorn
  <2>2. w \in Inventories /\ (Within(inv) => Within(w))
    BY <1>0, <1>a, <2>1, RoomForAll, StowWornStep, StowWornWithin DEF Step, Sound
  <2> HIDE DEF w, careless, o
  <2>3. "overfill" \notin lapses' => Within(w)
    BY <1>b, <2>1, <2>2 DEF Bulky
  <2> QED BY <2>1, <2>2, <2>3, RequestWithin
<1>6. ASSUME NEW s \in Slots, Rewear(s) PROVE Bulky'
  <2> DEFINE w == RemoveLoadoutItem(inv, s)
  <2>1. Done(w, {inv.loadout[s]}, {"own slot"})
    BY <1>6 DEF Rewear
  <2>2. w \in Inventories /\ Shrinks(inv, w)
    BY <1>0, RemoveLoadoutItemIs, RemoveLoadoutItemShrinks
  <2>3. Within(inv) => Within(w)
    BY <1>0, <2>2, ShrinksWithin
  <2> HIDE DEF w
  <2>4. "overfill" \notin lapses' => Within(w)
    BY <1>b, <2>1, <2>3 DEF Bulky
  <2> QED BY <2>1, <2>2, <2>4, RequestWithin
<1>7. ASSUME NEW o \in Objects, NEW use \in {"consume", "shred"}, StartUse(o, use) PROVE Bulky'
  <2>1. inv' = Collected(inv, timer') /\ lapses' = lapses
    BY <1>7 DEF StartUse
  <2> QED BY <1>0, <2>1, SettledWithin DEF Bulky
<1>8. ASSUME Interrupt PROVE Bulky'
  <2>1. inv' = Collected(inv, timer') /\ lapses' = lapses
    BY <1>8 DEF Interrupt
  <2> QED BY <1>0, <2>1, SettledWithin DEF Bulky
<1>9. ASSUME Consume PROVE Bulky'
  <2> DEFINE removed == RemoveInventoryItem(inv, timer.obj, 1)
             w == LootContainerItem(GenerateItem(removed, Trash, 1), NewObject(removed), 1)
  <2>1. timer.use = "consume" /\ Roomy3 /\ inv' = Collected(w, timer') /\ lapses' = lapses
    BY <1>9 DEF Consume
  <2>2. w \in Inventories
    BY <1>0, <2>1, ConsumeStep DEF Step, Sound
  <2>3. Within(inv) => Within(w)
    <3>1. timer.obj \in Objects /\ inv.heap[timer.obj].guid # 0 /\ Room(inv, 2)
      BY <1>0, <2>1, RoomForAll DEF Timed
    <3>2. Trash \in Kinds /\ 1 \in 0 .. MaxCount
      BY Numbers
    <3>3. \A o \in Objects : Within(inv) /\ inv.heap[o].guid # 0 =>
             Within(LootContainerItem(GenerateItem(RemoveInventoryItem(inv, o, 1), Trash, 1),
                                      NewObject(RemoveInventoryItem(inv, o, 1)), 1))
      BY <1>0, <1>a, <3>1, <3>2, UseWithin
    <3> QED BY <3>1, <3>3
  <2> HIDE DEF w
  <2> QED BY <2>1, <2>2, <2>3, SettledWithin DEF Bulky
<1>10. ASSUME Shred PROVE Bulky'
  <2> DEFINE removed == RemoveInventoryItem(inv, timer.obj, 1)
             w == LootItem(GenerateItem(removed, Cloth, ClothCount), NewObject(removed))
  <2>1. timer.use = "shred" /\ Roomy3 /\ inv' = Collected(w, timer') /\ lapses' = lapses
    BY <1>10 DEF Shred
  <2>2. w \in Inventories
    BY <1>0, <2>1, ShredStep DEF Step, Sound
  <2>3. Within(inv) => Within(w)
    <3>1. timer.obj \in Objects /\ inv.heap[timer.obj].guid # 0 /\ Room(inv, 2)
      BY <1>0, <2>1, RoomForAll DEF Timed
    <3>2. Cloth \in Kinds /\ ClothCount \in 0 .. MaxCount
      BY Numbers, InventoryAssumption
    <3>3. \A o \in Objects : Within(inv) /\ inv.heap[o].guid # 0 =>
             Within(LootItem(GenerateItem(RemoveInventoryItem(inv, o, 1), Cloth, ClothCount),
                             NewObject(RemoveInventoryItem(inv, o, 1))))
      BY <1>0, <1>a, <3>1, <3>2, UseWithin
    <3> QED BY <3>1, <3>3
  <2> HIDE DEF w
  <2> QED BY <2>1, <2>2, <2>3, SettledWithin DEF Bulky
<1>11. CASE UNCHANGED vars
  BY <1>11 DEF vars, Bulky
<1> QED BY <1>1, <1>2, <1>3, <1>4, <1>5, <1>6, <1>7, <1>8, <1>9, <1>10, <1>11 DEF Next

\* The sum of nothing.
LEMMA SumOfNothing ==
    SumOf([o \in Objects |-> 0]) = 0
<1> DEFINE zero == [o \in Objects |-> 0]
<1>1. LastObject \in Nat /\ \A o \in 1 .. LastObject : zero[o] = 0
  BY Numbers
<1> HIDE DEF zero
<1>2. SumTo(zero, LastObject) = 0
  BY <1>1, SumOfZeros
<1> QED BY <1>2 DEF SumOf, zero

\* A sum with one object in it.
LEMMA SumOfOne ==
    ASSUME NEW x \in Objects, NEW n \in Nat
    PROVE  SumOf([o \in Objects |-> IF o = x THEN n ELSE 0]) = n
<1> DEFINE zero == [o \in Objects |-> 0]
           one == [o \in Objects |-> IF o = x THEN n ELSE 0]
<1>1. /\ zero \in [Objects -> Nat] /\ one \in [Objects -> Nat]
      /\ zero[x] = 0 /\ one[x] = n /\ \A o \in Objects \ {x} : one[o] = zero[o]
  OBVIOUS
<1>2. SumOf(zero) = 0
  BY SumOfNothing
<1> HIDE DEF zero, one
<1>3. SumOf(one) = SumOf(zero) - zero[x] + one[x]
  BY <1>1, SumChange
<1>4. SumOf(one) = n
  BY <1>1, <1>2, <1>3
<1> QED BY <1>4 DEF one

\* At first a full stack is in one container, and nothing in the others.
LEMMA InitBulky ==
    Init => Bulky
<1> SUFFICES ASSUME Init, NEW s \in Slots PROVE ContainerBulk(inv, s) <= MaxBulk
  BY DEF Bulky, Within
<1> DEFINE x == LastSlot + 1
           one == [o \in Objects |-> IF o = x THEN MaxStack ELSE 0]
           f == Weighs(inv, s)
<1>1. inv \in Inventories
  BY InitSound DEF Sound
<1>2. /\ x \in Objects /\ MaxStack \in Nat /\ MaxStack <= MaxBulk /\ MaxBulk \in Nat
      /\ x \notin Slots /\ LastSlot + 1 # LastSlot + 2
  BY InventoryAssumption DEF Objects, Slots
<1>3. SumOf(one) = MaxStack
  <2> HIDE DEF x
  <2> QED BY <1>2, SumOfOne
<1>4. inv.heap[x].count = MaxStack /\ inv.heap[x].kind = Food
  <2> DEFINE h == [o \in Objects |->
                  CASE o \in Slots -> [Item(o, o, 1) EXCEPT !.slot = o]
                    [] o = LastSlot + 1 -> Item(o, Food, MaxStack)
                    [] o = LastSlot + 2 -> Item(o, 1, 1)
                    [] OTHER -> Unused]
  <2>1. inv.heap = h
    BY DEF Init
  <2>2. h[x] = [guid |-> x, kind |-> Food, count |-> MaxStack, slot |-> 0]
    BY <1>2 DEF Item, Unused
  <2> HIDE DEF h, x
  <2> QED BY <2>1, <2>2
<1>5. Load(inv.heap[x]) = MaxStack
  <2>1. Bulk1(Food) * MaxStack = MaxStack
    BY <1>2, LoadIs, Numbers
  <2> HIDE DEF x
  <2> QED BY <1>4, <2>1 DEF Load
<1>6. \A o \in Range(inv.containers[s]) : o = x
  <2>1. inv.containers = [t \in Slots |-> IF t = 1 THEN <<LastSlot + 1>> ELSE <<>>]
    BY DEF Init
  <2>2. \A i \in DOMAIN inv.containers[s] : inv.containers[s][i] = x
    BY <2>1
  <2> QED BY <1>1, <2>2, RangeIs
<1>7. \A o \in Objects : f[o] = IF o \in Range(inv.containers[s]) THEN Load(inv.heap[o]) ELSE 0
  BY DEF Weighs
<1>8. /\ f \in [Objects -> Nat] /\ ContainerBulk(inv, s) = SumOf(f)
  BY <1>1, BulkIs
<1> HIDE DEF f
<1>9. one \in [Objects -> Nat] /\ \A o \in Objects : one[o] = IF o = x THEN MaxStack ELSE 0
  BY <1>2
<1> HIDE DEF one, x
<1>10. \A o \in Objects : f[o] <= one[o]
  BY <1>2, <1>5, <1>6, <1>7, <1>9
<1>11. SumOf(f) <= SumOf(one) /\ SumOf(f) \in Nat
  BY <1>8, <1>9, <1>10, SumAtMost
<1> QED BY <1>2, <1>3, <1>8, <1>11

\* However items are moved, worn, used up and picked up, no bag holds more than
\* its bulk, unless the player moves items between bags, where the code does
\* not look.
THEOREM NoBagOverfull == Spec => []WithinBulk
<1>1. Init => IInv /\ Bulky
  BY InitIInv, InitBulky
<1>2. IInv /\ Bulky /\ [Next]_vars => (IInv /\ Bulky)'
  BY NextIInv, NextBulky
<1>3. IInv /\ Bulky => WithinBulk
  BY DEF Bulky, Within, WithinBulk
<1> QED BY <1>1, <1>2, <1>3, PTL DEF Spec

-----------------------------------------------------------------------------
(* Where the objects are before and after an operation. *)

\* What the player has on him.
Carried(v) == Held(v) \cup Worn(v)

\* Nothing has happened to an object.
Same(v, w, p) ==
    /\ p \in Held(w) <=> p \in Held(v)
    /\ p \in Worn(w) <=> p \in Worn(v)
    /\ w.ground[p] = v.ground[p]
    /\ w.heap[p] = v.heap[p]

\* A new object is held or worn.
Arrives(v, w, n) ==
    /\ n \in Objects /\ n \notin Live(v)
    /\ n \in Held(w) \/ n \in Worn(w)
    /\ w.ground[n] = 0
    /\ \A p \in Objects \ {n} : Same(v, w, p)

\* There is one more entity of an object on the ground.
Falls(v, w, o) ==
    /\ o \in Objects
    /\ o \in Held(w) <=> o \in Held(v)
    /\ o \in Worn(w) <=> o \in Worn(v)
    /\ w.ground[o] = v.ground[o] + 1
    /\ w.heap[o] = v.heap[o]
    /\ \A p \in Objects \ {o} : Same(v, w, p)

\* The count of an object is another.
Counts(v, w, x, count) ==
    /\ x \in Objects
    /\ x \in Held(w) <=> x \in Held(v)
    /\ x \in Worn(w) <=> x \in Worn(v)
    /\ w.ground[x] = v.ground[x]
    /\ w.heap[x].guid = v.heap[x].guid /\ w.heap[x].kind = v.heap[x].kind
    /\ w.heap[x].count = count
    /\ \A p \in Objects \ {x} : Same(v, w, p)

\* An object is nowhere any more.
Departs(v, w, x) ==
    /\ x \in Live(v) /\ x \notin Live(w)
    /\ w.heap[x] = v.heap[x]
    /\ \A p \in Objects \ {x} : Same(v, w, p)

\* Nothing has happened to any object that is somewhere.
Still(v, w) ==
    \A p \in Objects :
        /\ p \in Held(w) <=> p \in Held(v)
        /\ p \in Worn(w) <=> p \in Worn(v)
        /\ w.ground[p] = v.ground[p]
        /\ p \in Live(v) => w.heap[p] = v.heap[p]

\* Objects are in no more places than they were.
Fades(v, w) ==
    \A p \in Objects :
        /\ p \in Held(w) => p \in Held(v)
        /\ p \in Worn(w) => p \in Worn(v)
        /\ w.ground[p] <= v.ground[p]
        /\ p \in Live(w) => w.heap[p].guid = v.heap[p].guid

\* An object is in one place, and has a guid of its own.
Unique(v) ==
    /\ \A o \in Live(v) :
          v.ground[o] = 0 \/ (v.ground[o] = 1 /\ o \notin Held(v) /\ o \notin Worn(v))
    /\ \A o, p \in Live(v) : v.heap[o].guid = v.heap[p].guid => o = p

\* No object that is somewhere has this guid.
Alone(v, guid) == \A p \in Live(v) : v.heap[p].guid # guid

\* Without a miscount, an item has a count, and a bag is one.
LEMMA FairIs ==
    ASSUME NEW kind, NEW count
    PROVE  Fair({}, kind, count) <=> count > 0 /\ (kind \in Bags => count = 1)
BY DEF Fair

\* As long as there was none, an inventory is as if there had been no lapse.
LEMMA SoundWithout ==
    ASSUME NEW l, "miscount" \notin l, NEW v, Sound(l, v)
    PROVE  Sound({}, v)
<1>1. Proper({}, v)
  BY DEF Sound, Proper, Fair
<1> QED BY <1>1 DEF Sound

\* What is somewhere.
LEMMA LiveMeans ==
    ASSUME NEW v, Sound({}, v)
    PROVE  /\ Live(v) \subseteq Objects
           /\ \A p \in Objects : p \in Live(v) <=> p \in Held(v) \/ p \in Worn(v) \/ v.ground[p] > 0
           /\ \A p \in Objects : v.ground[p] \in Nat
           /\ \A p \in Objects : ~(p \in Held(v) /\ p \in Worn(v))
<1>0. v \in Inventories
  BY DEF Sound
<1>1. Live(v) \subseteq Objects
  BY InUse
<1>2. \A p \in Objects : p \in Live(v) <=> p \in Held(v) \/ p \in Worn(v) \/ v.ground[p] > 0
  BY DEF Live, Lying
<1>3. \A p \in Objects : v.ground[p] \in Nat
  BY <1>0, Fields
<1>4. \A p \in Objects : ~(p \in Held(v) /\ p \in Worn(v))
  BY <1>0, HeldMeans, WornMeans DEF Sound, Apart
<1> QED BY <1>1, <1>2, <1>3, <1>4

\* What comes or goes, comes or goes nowhere else.
LEMMA EffectsFade ==
    ASSUME NEW v, NEW w, Sound({}, v), Sound({}, w)
    PROVE  /\ \A x : Departs(v, w, x) => Fades(v, w)
           /\ \A x, count : Counts(v, w, x, count) => Fades(v, w)
           /\ Still(v, w) => Fades(v, w)
<1>0. /\ \A p \in Objects : v.ground[p] \in Nat /\ w.ground[p] \in Nat
      /\ Live(v) \subseteq Objects /\ Live(w) \subseteq Objects
      /\ \A p \in Objects : p \in Live(v) <=> p \in Held(v) \/ p \in Worn(v) \/ v.ground[p] > 0
      /\ \A p \in Objects : p \in Live(w) <=> p \in Held(w) \/ p \in Worn(w) \/ w.ground[p] > 0
  BY LiveMeans
<1>1. ASSUME NEW x, Departs(v, w, x) PROVE Fades(v, w)
  <2> SUFFICES ASSUME NEW p \in Objects
               PROVE  /\ p \in Held(w) => p \in Held(v)
                      /\ p \in Worn(w) => p \in Worn(v)
                      /\ w.ground[p] <= v.ground[p]
                      /\ p \in Live(w) => w.heap[p].guid = v.heap[p].guid
    BY DEF Fades
  <2>1. CASE p = x
    BY <1>0, <1>1, <2>1 DEF Departs
  <2>2. CASE p # x
    BY <1>0, <1>1, <2>2 DEF Departs, Same
  <2> QED BY <2>1, <2>2
<1>2. ASSUME NEW x, NEW count, Counts(v, w, x, count) PROVE Fades(v, w)
  <2> SUFFICES ASSUME NEW p \in Objects
               PROVE  /\ p \in Held(w) => p \in Held(v)
                      /\ p \in Worn(w) => p \in Worn(v)
                      /\ w.ground[p] <= v.ground[p]
                      /\ p \in Live(w) => w.heap[p].guid = v.heap[p].guid
    BY DEF Fades
  <2>1. CASE p = x
    BY <1>0, <1>2, <2>1 DEF Counts
  <2>2. CASE p # x
    BY <1>0, <1>2, <2>2 DEF Counts, Same
  <2> QED BY <2>1, <2>2
<1>3. Still(v, w) => Fades(v, w)
  BY <1>0 DEF Still, Fades
<1> QED BY <1>1, <1>2, <1>3

\* Objects that are in fewer places are still in one.
LEMMA FadesUnique ==
    ASSUME NEW v, NEW w, Sound({}, v), Sound({}, w), Fades(v, w)
    PROVE  /\ Unique(v) => Unique(w)
           /\ \A g : Alone(v, g) => Alone(w, g)
           /\ \A p \in Live(w) : p \in Live(v) /\ w.heap[p].guid = v.heap[p].guid
<1>0. /\ \A p \in Objects : v.ground[p] \in Nat /\ w.ground[p] \in Nat
      /\ Live(v) \subseteq Objects /\ Live(w) \subseteq Objects
      /\ \A p \in Objects : p \in Live(v) <=> p \in Held(v) \/ p \in Worn(v) \/ v.ground[p] > 0
      /\ \A p \in Objects : p \in Live(w) <=> p \in Held(w) \/ p \in Worn(w) \/ w.ground[p] > 0
  BY LiveMeans
<1>1. \A p \in Live(w) : p \in Live(v) /\ w.heap[p].guid = v.heap[p].guid
  BY <1>0 DEF Fades
<1>2. \A g : Alone(v, g) => Alone(w, g)
  BY <1>1 DEF Alone
<1>3. ASSUME Unique(v) PROVE Unique(w)
  <2>1. \A o \in Live(w) :
          w.ground[o] = 0 \/ (w.ground[o] = 1 /\ o \notin Held(w) /\ o \notin Worn(w))
    BY <1>0, <1>1, <1>3 DEF Fades, Unique
  <2>2. \A o, p \in Live(w) : w.heap[o].guid = w.heap[p].guid => o = p
    BY <1>1, <1>3 DEF Unique
  <2> QED BY <2>1, <2>2 DEF Unique
<1> QED BY <1>1, <1>2, <1>3

\* A new object whose guid nobody has is in one place.
LEMMA ArrivesUnique ==
    ASSUME NEW v, NEW w, Sound({}, v), Sound({}, w), NEW n, Arrives(v, w, n),
           Unique(v), Alone(v, w.heap[n].guid)
    PROVE  /\ Unique(w)
           /\ \A g : Alone(v, g) /\ g # w.heap[n].guid => Alone(w, g)
<1>0. /\ \A p \in Objects : v.ground[p] \in Nat /\ w.ground[p] \in Nat
      /\ Live(v) \subseteq Objects /\ Live(w) \subseteq Objects
      /\ \A p \in Objects : p \in Live(v) <=> p \in Held(v) \/ p \in Worn(v) \/ v.ground[p] > 0
      /\ \A p \in Objects : p \in Live(w) <=> p \in Held(w) \/ p \in Worn(w) \/ w.ground[p] > 0
  BY LiveMeans
<1>1. \A p \in Live(w) \ {n} :
        /\ p \in Live(v) /\ w.heap[p] = v.heap[p] /\ w.ground[p] = v.ground[p]
        /\ p \in Held(w) <=> p \in Held(v)
        /\ p \in Worn(w) <=> p \in Worn(v)
  BY <1>0 DEF Arrives, Same
<1>2. \A o \in Live(w) :
          w.ground[o] = 0 \/ (w.ground[o] = 1 /\ o \notin Held(w) /\ o \notin Worn(w))
  BY <1>1 DEF Arrives, Unique
<1>3. \A o, p \in Live(w) : w.heap[o].guid = w.heap[p].guid => o = p
  BY <1>1 DEF Unique, Alone
<1>4. \A g : Alone(v, g) /\ g # w.heap[n].guid => Alone(w, g)
  BY <1>1 DEF Alone
<1> QED BY <1>2, <1>3, <1>4 DEF Unique

\* What was nowhere is on the ground.
LEMMA FallsUnique ==
    ASSUME NEW v, NEW w, Sound({}, v), Sound({}, w), NEW o, Falls(v, w, o),
           Unique(v), Alone(v, v.heap[o].guid)
    PROVE  /\ Unique(w)
           /\ \A g : Alone(v, g) /\ g # v.heap[o].guid => Alone(w, g)
<1>0. /\ \A p \in Objects : v.ground[p] \in Nat /\ w.ground[p] \in Nat
      /\ Live(v) \subseteq Objects /\ Live(w) \subseteq Objects
      /\ \A p \in Objects : p \in Live(v) <=> p \in Held(v) \/ p \in Worn(v) \/ v.ground[p] > 0
      /\ \A p \in Objects : p \in Live(w) <=> p \in Held(w) \/ p \in Worn(w) \/ w.ground[p] > 0
  BY LiveMeans
<1>1. \A p \in Live(w) \ {o} :
        /\ p \in Live(v) /\ w.heap[p] = v.heap[p] /\ w.ground[p] = v.ground[p]
        /\ p \in Held(w) <=> p \in Held(v)
        /\ p \in Worn(w) <=> p \in Worn(v)
  BY <1>0 DEF Falls, Same
<1>2. o \in Objects /\ o \notin Live(v) /\ w.heap[o] = v.heap[o]
  BY DEF Falls, Alone
<1>3. v.ground[o] = 0 /\ w.ground[o] = 1 /\ o \notin Held(w) /\ o \notin Worn(w)
  BY <1>0, <1>2 DEF Falls
<1>4. \A p \in Live(w) :
          w.ground[p] = 0 \/ (w.ground[p] = 1 /\ p \notin Held(w) /\ p \notin Worn(w))
  BY <1>1, <1>3 DEF Unique
<1>5. \A q, p \in Live(w) : w.heap[q].guid = w.heap[p].guid => q = p
  BY <1>1, <1>2 DEF Unique, Alone
<1>6. \A g : Alone(v, g) /\ g # v.heap[o].guid => Alone(w, g)
  BY <1>1, <1>2 DEF Alone
<1> QED BY <1>4, <1>5, <1>6 DEF Unique

-----------------------------------------------------------------------------
(* Where the operations put the objects. *)

\* What is held, by the containers; and what is worn, by the loadout.
LEMMA SamePlaces ==
    ASSUME NEW v \in Inventories, NEW w \in Inventories,
           w.containers = v.containers, w.loadout = v.loadout
    PROVE  Held(w) = Held(v) /\ Worn(w) = Worn(v)
BY DEF Held, Worn

\* Another entity on the ground.
LEMMA GroundFalls ==
    ASSUME NEW v \in Inventories, NEW o \in Objects
    PROVE  Falls(v, Ground(v, o), o)
<1> DEFINE w == Ground(v, o)
<1>1. /\ w \in Inventories /\ w.ground = [v.ground EXCEPT ![o] = @ + 1]
      /\ w.heap = v.heap /\ w.loadout = v.loadout /\ w.containers = v.containers
  BY GroundIs
<1> HIDE DEF w
<1>2. w.ground[o] = v.ground[o] + 1 /\ \A p \in Objects \ {o} : w.ground[p] = v.ground[p]
  BY <1>1, Fields
<1>3. Falls(v, w, o)
  BY <1>1, <1>2, SamePlaces DEF Falls, Same
<1> QED BY <1>3 DEF w

\* addContainerItem of what is not in the container.
LEMMA AddContainerItemArrives ==
    ASSUME NEW v, Sound({}, v), FreeObjects(v) # {}, NEW o \in Objects, NEW s \in Slots,
           NEW count \in 0 .. MaxCount,
           \A i \in DOMAIN v.containers[s] : v.heap[v.containers[s][i]].guid # v.heap[o].guid
    PROVE  LET w == AddContainerItem(v, o, s, count)
               n == NewObject(v)
           IN
           /\ Arrives(v, w, n)
           /\ w.heap[n].guid = v.heap[o].guid /\ w.heap[n].kind = v.heap[o].kind
           /\ w.heap[n].count = count
           /\ n \in Held(w) /\ v.heap[n].guid = 0
<1> DEFINE w == AddContainerItem(v, o, s, count)
           n == NewObject(v)
           c == v.containers[s]
           d == w.containers[s]
<1>0. v \in Inventories /\ Keyed(v)
  BY DEF Sound
<1>1. Filed(v, w, o, s, count) /\ n \in Objects /\ v.heap[n].guid = 0
  <2>1. Filed(v, w, o, s, count)
    BY <1>0, AddContainerItemIs
  <2> QED BY <1>0, <2>1, NewObjectIs
<1> HIDE DEF w
<1>2. /\ w \in Inventories
      /\ \A p \in Objects \ {n} : w.heap[p] = v.heap[p]
      /\ w.heap[n].guid = v.heap[o].guid /\ w.heap[n].kind = v.heap[o].kind
      /\ w.heap[n].count = count
      /\ w.loadout = v.loadout /\ w.ground = v.ground
      /\ \A t \in Slots \ {s} : w.containers[t] = v.containers[t]
  BY <1>1 DEF Filed
<1>3. PICK m \in DOMAIN d :
         /\ d[m] = n
         /\ \A i \in DOMAIN d \ {m} : i \in DOMAIN c /\ d[i] = c[i]
         /\ \A i \in DOMAIN c : i \in DOMAIN d
         /\ \A i \in DOMAIN c : i = m => v.heap[c[i]].guid = v.heap[o].guid
  BY <1>1 DEF Filed
<1> HIDE DEF n
<1>4. n \notin Live(v) /\ v.ground[n] = 0
  BY <1>1, NewIsUnused
<1>5. n \in Held(w)
  BY <1>2, <1>3, HeldMeans
<1>6. ASSUME NEW p \in Objects \ {n} PROVE p \in Held(w) <=> p \in Held(v)
  <2>1. ASSUME p \in Held(v) PROVE p \in Held(w)
    <3>1. PICK t \in Slots : \E i \in DOMAIN v.containers[t] : v.containers[t][i] = p
      BY <1>0, <2>1, HeldMeans
    <3>2. \E i \in DOMAIN w.containers[t] : w.containers[t][i] = p
      <4>1. CASE t = s
        <5>1. PICK i \in DOMAIN c : c[i] = p
          BY <3>1, <4>1
        <5>2. i \in DOMAIN d /\ i # m
          BY <1>3, <5>1
        <5>3. d[i] = p
          BY <1>3, <5>1, <5>2
        <5> QED BY <4>1, <5>2, <5>3
      <4>2. CASE t # s
        BY <1>2, <3>1, <4>2
      <4> QED BY <4>1, <4>2
    <3> QED BY <1>2, <3>2, HeldMeans
  <2>2. ASSUME p \in Held(w) PROVE p \in Held(v)
    <3>1. PICK t \in Slots : \E i \in DOMAIN w.containers[t] : w.containers[t][i] = p
      BY <1>2, <2>2, HeldMeans
    <3>2. \E i \in DOMAIN v.containers[t] : v.containers[t][i] = p
      BY <1>2, <1>3, <3>1
    <3> QED BY <1>0, <3>2, HeldMeans
  <2> QED BY <2>1, <2>2
<1>7. Worn(w) = Worn(v)
  BY <1>2 DEF Worn
<1>8. Arrives(v, w, n)
  BY <1>1, <1>2, <1>4, <1>5, <1>6, <1>7 DEF Arrives, Same
<1> QED BY <1>1, <1>2, <1>5, <1>8 DEF w, n

\* Onto a stack.
LEMMA AddToStackCounts ==
    ASSUME NEW v, Sound({}, v), NEW s \in Slots, NEW count \in 0 .. MaxCount,
           NEW kind \in Kinds, NEW i \in Stacks(v, s, kind, count)
    PROVE  LET x == v.containers[s][i] IN
           /\ Counts(v, AddToStack(v, s, i, count), x, v.heap[x].count + count)
           /\ x \in Held(v) /\ v.heap[x].kind = kind /\ kind \notin Bags
<1> DEFINE w == AddToStack(v, s, i, count)
           x == v.containers[s][i]
<1>0. /\ v \in Inventories /\ i \in DOMAIN v.containers[s] /\ kind \notin Bags
      /\ v.heap[x].kind = kind /\ v.heap[x].count + count <= MaxCount
  <2>1. v \in Inventories
    BY DEF Sound
  <2>2. /\ i \in DOMAIN v.containers[s] /\ kind \notin Bags
        /\ v.heap[x].kind = kind /\ v.heap[x].count + count <= MaxCount
    BY AddToStackStep
  <2> QED BY <2>1, <2>2
<1>1. /\ w \in Inventories /\ x \in Objects
      /\ \A p \in Objects \ {x} : w.heap[p] = v.heap[p]
      /\ w.heap[x].guid = v.heap[x].guid /\ w.heap[x].kind = v.heap[x].kind
      /\ w.heap[x].count = v.heap[x].count + count
      /\ w.loadout = v.loadout /\ w.containers = v.containers /\ w.ground = v.ground
  BY <1>0, AddToStackIs
<1>2. x \in Held(v)
  BY <1>0, HeldMeans
<1> HIDE DEF w, x
<1>3. Counts(v, w, x, v.heap[x].count + count)
  BY <1>0, <1>1, SamePlaces DEF Counts, Same
<1> QED BY <1>0, <1>2, <1>3 DEF w, x

\* equipItem into a slot with nothing in it.
LEMMA EquipItemArrives ==
    ASSUME NEW v, Sound({}, v), FreeObjects(v) # {}, NEW o \in Objects, NEW s \in Slots,
           v.loadout[s] = 0
    PROVE  LET w == EquipItem(v, o, s)
               n == NewObject(v)
           IN
           /\ Arrives(v, w, n)
           /\ w.heap[n].guid = v.heap[o].guid /\ w.heap[n].kind = v.heap[o].kind
           /\ w.heap[n].count = 1
           /\ w.loadout[s] = n /\ v.heap[n].guid = 0
<1> DEFINE w == EquipItem(v, o, s)
           n == NewObject(v)
<1>0. /\ v \in Inventories /\ v.loadout \in [Slots -> {0} \cup Objects]
      /\ v.containers \in [Slots -> Seq(Objects)]
  BY Fields DEF Sound
<1>1. Equipped(v, w, o, s) /\ n \in Objects /\ v.heap[n].guid = 0
  BY <1>0, EquipItemIs, NewObjectIs
<1>2. v.containers[s] = <<>>
  BY DEF Sound, Fitted
<1> HIDE DEF w
<1>3. /\ w \in Inventories
      /\ \A p \in Objects \ {n} : w.heap[p] = v.heap[p]
      /\ w.heap[n].guid = v.heap[o].guid /\ w.heap[n].kind = v.heap[o].kind
      /\ w.heap[n].count = 1
      /\ w.loadout = [v.loadout EXCEPT ![s] = n]
      /\ w.containers = [v.containers EXCEPT ![s] = <<>>]
      /\ w.ground = v.ground
  BY <1>1 DEF Equipped
<1> HIDE DEF n
<1>4. n \notin Live(v) /\ v.ground[n] = 0
  BY <1>1, NewIsUnused
<1>5. w.loadout[s] = n /\ \A t \in Slots \ {s} : w.loadout[t] = v.loadout[t]
  BY <1>0, <1>3
<1>6. w.containers = v.containers
  <2>1. /\ v.containers \in [Slots -> Seq(Objects)] /\ v.containers[s] = <<>>
        /\ w.containers = [v.containers EXCEPT ![s] = <<>>]
    BY <1>0, <1>2, <1>3
  <2> QED BY <2>1
<1>7. Held(w) = Held(v)
  BY <1>6 DEF Held
<1>8. n \in Worn(w) /\ \A p \in Objects \ {n} : p \in Worn(w) <=> p \in Worn(v)
  <2>1. n \in Worn(w)
    BY <1>1, <1>3, <1>5, WornMeans DEF n
  <2>2. ASSUME NEW p \in Objects \ {n}, p \in Worn(w) PROVE p \in Worn(v)
    <3>1. PICK t \in Slots : w.loadout[t] = p
      BY <1>3, <2>2, WornMeans
    <3>2. v.loadout[t] = p
      BY <1>5, <3>1
    <3> QED BY <1>0, <3>2, WornMeans
  <2>3. ASSUME NEW p \in Objects \ {n}, p \in Worn(v) PROVE p \in Worn(w)
    <3>1. PICK t \in Slots : v.loadout[t] = p
      BY <1>0, <2>3, WornMeans
    <3>2. w.loadout[t] = p
      BY <1>5, <3>1, Numbers
    <3> QED BY <1>3, <3>2, WornMeans
  <2> QED BY <2>1, <2>2, <2>3
<1>9. Arrives(v, w, n)
  BY <1>1, <1>3, <1>4, <1>7, <1>8 DEF Arrives, Same
<1> QED BY <1>1, <1>3, <1>5, <1>9 DEF w, n

\* generateItem
LEMMA GenerateItemStill ==
    ASSUME NEW v, Sound({}, v), FreeObjects(v) # {},
           NEW kind \in Kinds, NEW count \in 1 .. MaxCount, kind \in Bags => count = 1
    PROVE  LET w == GenerateItem(v, kind, count)
               n == NewObject(v)
           IN
           Still(v, w) /\ Alone(w, w.heap[n].guid) /\ n \notin Live(w)
<1> DEFINE w == GenerateItem(v, kind, count)
           n == NewObject(v)
<1>0. count \in 0 .. MaxCount /\ Fair({}, kind, count)
  BY FairIs, Numbers
<1>1. /\ Step({}, v, w, 1) /\ n \in Objects /\ v.heap[n].guid = 0
      /\ \A p \in Objects \ {n} : w.heap[p] = v.heap[p] /\ w.heap[p].guid # w.heap[n].guid
      /\ w.loadout = v.loadout /\ w.containers = v.containers /\ w.ground = v.ground
  BY <1>0, GenerateItemStep
<1> HIDE DEF w, n
<1>2. v \in Inventories /\ w \in Inventories /\ Sound({}, w)
  BY <1>1 DEF Step, Sound
<1>3. Held(w) = Held(v) /\ Worn(w) = Worn(v)
  BY <1>1, <1>2, SamePlaces
<1>4. n \notin Live(v)
  BY <1>1, NewIsUnused
<1>5. Live(w) = Live(v)
  BY <1>1, <1>3 DEF Live, Lying
<1>6. Still(v, w)
  BY <1>1, <1>3, <1>4 DEF Still
<1>7. Alone(w, w.heap[n].guid)
  BY <1>1, <1>2, <1>4, <1>5, LiveMeans DEF Alone
<1> QED BY <1>4, <1>5, <1>6, <1>7 DEF w, n

\* The collection.
LEMMA CollectedStill ==
    ASSUME NEW v, Sound({}, v), NEW t, NEW w, w = Collected(v, t)
    PROVE  /\ Still(v, w) /\ Held(w) = Held(v) /\ Worn(w) = Worn(v)
           /\ w.loadout = v.loadout /\ w.containers = v.containers
<1>1. /\ Sound({}, w)
      /\ w.loadout = v.loadout /\ w.containers = v.containers /\ w.ground = v.ground
      /\ \A o \in Live(v) : o \in Objects /\ w.heap[o] = v.heap[o]
  <2>1. Sound({}, w)
    BY CollectedKeeps
  <2>2. Tidied(v, t, w) /\ Live(v) \subseteq Objects
    BY CollectedHeap, LiveMeans DEF Sound
  <2> QED BY <2>1, <2>2 DEF Tidied
<1>2. Held(w) = Held(v) /\ Worn(w) = Worn(v)
  BY <1>1 DEF Held, Worn
<1> QED BY <1>1, <1>2 DEF Still

-----------------------------------------------------------------------------
(* How much there is of a kind. *)

\* What there is of a kind in one object.
Owned(v, k) ==
    [o \in Objects |-> IF o \in Live(v) /\ v.heap[o].kind = k THEN v.heap[o].count ELSE 0]

\* What there is of a kind, each object counted once.
Amount(v, k) == SumOf(Owned(v, k))

\* From v to w there is more of a kind.
Gains(v, w, kind, n) ==
    \A k \in Kinds : Amount(w, k) = Amount(v, k) + (IF k = kind THEN n ELSE 0)

\* What is carried stays carried, but for some objects.
Holds(v, w, X) == Carried(v) \ X \subseteq Carried(w)

\* An item goes: all of it, or a part.
Leaves(v, w, x, n) ==
    /\ x \in Objects /\ x \in Live(v)
    /\ \/ n = v.heap[x].count /\ Departs(v, w, x)
       \/ n < v.heap[x].count /\ Counts(v, w, x, v.heap[x].count - n)

\* An item comes: to the ground, into a container or a slot, or onto a stack.
Enters(v, w, guid, kind, n) ==
    \/ \E x \in Objects :
          /\ v.heap[x].guid = guid /\ v.heap[x].kind = kind /\ v.heap[x].count = n
          /\ Falls(v, w, x)
    \/ \E x \in Objects :
          /\ w.heap[x].guid = guid /\ w.heap[x].kind = kind /\ w.heap[x].count = n
          /\ Arrives(v, w, x)
    \/ \E x \in Objects :
          /\ x \in Held(v) /\ v.heap[x].kind = kind
          /\ Counts(v, w, x, v.heap[x].count + n)

\* What there is in an object is a number.
LEMMA OwnedIs ==
    ASSUME NEW v, Sound({}, v), NEW k
    PROVE  /\ Owned(v, k) \in [Objects -> Nat] /\ Amount(v, k) \in Nat
           /\ \A o \in Objects : Owned(v, k)[o] =
                 IF o \in Live(v) /\ v.heap[o].kind = k THEN v.heap[o].count ELSE 0
<1>1. \A o \in Objects : v.heap[o].count \in Nat
  BY CountType
<1>2. Owned(v, k) \in [Objects -> Nat]
  BY <1>1 DEF Owned
<1>3. \A o \in Objects : Owned(v, k)[o] =
         IF o \in Live(v) /\ v.heap[o].kind = k THEN v.heap[o].count ELSE 0
  BY DEF Owned
<1>4. \A o \in Objects : Owned(v, k)[o] <= Owned(v, k)[o]
  BY <1>2
<1>5. Amount(v, k) \in Nat
  BY <1>2, <1>4, SumAtMost DEF Amount
<1> QED BY <1>2, <1>3, <1>5

\* Where all objects but one are where and what they were, there is more or
\* less of its kind only.
LEMMA AmountChange ==
    ASSUME NEW v, NEW w, Sound({}, v), Sound({}, w), NEW x \in Objects,
           \A p \in Objects \ {x} : Same(v, w, p),
           NEW kind, v.heap[x].kind = kind \/ x \notin Live(v),
           w.heap[x].kind = kind \/ x \notin Live(w),
           NEW n \in Int,
           (IF x \in Live(w) THEN w.heap[x].count ELSE 0)
              = (IF x \in Live(v) THEN v.heap[x].count ELSE 0) + n
    PROVE  Gains(v, w, kind, n)
<1> SUFFICES ASSUME NEW k \in Kinds
             PROVE  Amount(w, k) = Amount(v, k) + (IF k = kind THEN n ELSE 0)
  BY DEF Gains
<1> DEFINE f == Owned(v, k)
           g == Owned(w, k)
<1>1. /\ f \in [Objects -> Nat] /\ g \in [Objects -> Nat]
      /\ \A o \in Objects : f[o] = IF o \in Live(v) /\ v.heap[o].kind = k THEN v.heap[o].count ELSE 0
      /\ \A o \in Objects : g[o] = IF o \in Live(w) /\ w.heap[o].kind = k THEN w.heap[o].count ELSE 0
  BY OwnedIs
<1>2. /\ \A p \in Objects : p \in Live(v) <=> p \in Held(v) \/ p \in Worn(v) \/ v.ground[p] > 0
      /\ \A p \in Objects : p \in Live(w) <=> p \in Held(w) \/ p \in Worn(w) \/ w.ground[p] > 0
  BY LiveMeans
<1> HIDE DEF f, g
<1>3. \A p \in Objects \ {x} : g[p] = f[p]
  BY <1>1, <1>2 DEF Same
<1>4. SumOf(f) \in Nat /\ SumOf(g) \in Nat /\ SumOf(g) = SumOf(f) - f[x] + g[x]
  BY <1>1, <1>3, SumChange
<1>5. v.heap[x].count \in Nat /\ w.heap[x].count \in Nat /\ f[x] \in Nat /\ g[x] \in Nat
  BY <1>1, CountType
<1>6. g[x] = f[x] + (IF k = kind THEN n ELSE 0)
  <2>1. CASE k = kind
    <3>1. /\ f[x] = IF x \in Live(v) THEN v.heap[x].count ELSE 0
          /\ g[x] = IF x \in Live(w) THEN w.heap[x].count ELSE 0
      BY <1>1, <2>1
    <3> QED BY <2>1, <3>1
  <2>2. CASE k # kind
    BY <1>1, <2>2
  <2> QED BY <2>1, <2>2
<1>7. SumOf(g) = SumOf(f) + (IF k = kind THEN n ELSE 0)
  BY <1>4, <1>5, <1>6
<1> QED BY <1>7 DEF f, g, Amount

\* What gains twice gains the sum.
LEMMA GainsAdd ==
    ASSUME NEW u, NEW v, NEW w, Sound({}, u), Sound({}, v), Sound({}, w), NEW kind,
           NEW a \in Int, NEW b \in Int, Gains(u, v, kind, a), Gains(v, w, kind, b)
    PROVE  Gains(u, w, kind, a + b)
<1> SUFFICES ASSUME NEW k \in Kinds
             PROVE  Amount(w, k) = Amount(u, k) + (IF k = kind THEN a + b ELSE 0)
  BY DEF Gains
<1>1. /\ Amount(v, k) = Amount(u, k) + (IF k = kind THEN a ELSE 0)
      /\ Amount(w, k) = Amount(v, k) + (IF k = kind THEN b ELSE 0)
      /\ Amount(u, k) \in Nat
  BY OwnedIs DEF Gains
<1> QED BY <1>1

\* Where nothing that is somewhere changes, there is as much of every kind.
LEMMA StillGains ==
    ASSUME NEW v, NEW w, Sound({}, v), Sound({}, w), Still(v, w)
    PROVE  /\ \A kind : Gains(v, w, kind, 0)
           /\ \A X : Holds(v, w, X)
           /\ Live(w) = Live(v)
<1>1. /\ \A p \in Objects : p \in Live(v) <=> p \in Held(v) \/ p \in Worn(v) \/ v.ground[p] > 0
      /\ \A p \in Objects : p \in Live(w) <=> p \in Held(w) \/ p \in Worn(w) \/ w.ground[p] > 0
      /\ Live(v) \subseteq Objects /\ Live(w) \subseteq Objects
  BY LiveMeans
<1>2. Live(w) = Live(v)
  BY <1>1 DEF Still
<1>3. \A k : Owned(w, k) = Owned(v, k)
  BY <1>1, <1>2 DEF Still, Owned
<1>4. \A k : Amount(v, k) \in Nat
  BY OwnedIs
<1>5. \A kind : Gains(v, w, kind, 0)
  BY <1>3, <1>4 DEF Gains, Amount
<1>6. Carried(v) \subseteq Live(v)
  BY DEF Live, Carried
<1>7. \A X : Holds(v, w, X)
  BY <1>1, <1>6 DEF Holds, Carried, Still
<1> QED BY <1>2, <1>5, <1>7

\* What an item that goes leaves behind.
LEMMA LeavesThen ==
    ASSUME NEW v, NEW w, Sound({}, v), Sound({}, w), Unique(v), NEW x, NEW n \in Nat,
           Leaves(v, w, x, n)
    PROVE  /\ Fades(v, w) /\ Unique(w) /\ Holds(v, w, {x})
           /\ Gains(v, w, v.heap[x].kind, 0 - n)
           /\ n = v.heap[x].count => Alone(w, v.heap[x].guid)
           /\ \A g : Alone(v, g) => Alone(w, g)
<1>0. x \in Objects /\ x \in Live(v) /\ v.heap[x].count \in Nat /\ w.heap[x].count \in Nat
      /\ 0 - n \in Int
  BY CountType DEF Leaves
<1>1. Fades(v, w)
  BY EffectsFade DEF Leaves
<1>2. Unique(w) /\ \A g : Alone(v, g) => Alone(w, g)
  BY <1>1, FadesUnique
<1>3. /\ \A p \in Objects : p \in Live(v) <=> p \in Held(v) \/ p \in Worn(v) \/ v.ground[p] > 0
      /\ \A p \in Objects : p \in Live(w) <=> p \in Held(w) \/ p \in Worn(w) \/ w.ground[p] > 0
      /\ Live(v) \subseteq Objects /\ Live(w) \subseteq Objects
  BY LiveMeans
<1>4. CASE n = v.heap[x].count /\ Departs(v, w, x)
  <2>1. Gains(v, w, v.heap[x].kind, 0 - n)
    <3>1. \A p \in Objects \ {x} : Same(v, w, p)
      BY <1>4 DEF Departs
    <3>2. (IF x \in Live(w) THEN w.heap[x].count ELSE 0)
             = (IF x \in Live(v) THEN v.heap[x].count ELSE 0) + (0 - n)
      BY <1>0, <1>4 DEF Departs
    <3>3. x \notin Live(w)
      BY <1>4 DEF Departs
    <3> QED BY <1>0, <3>1, <3>2, <3>3, AmountChange
  <2>2. Alone(w, v.heap[x].guid)
    BY <1>1, <1>4, FadesUnique DEF Alone, Unique, Departs
  <2>3. Holds(v, w, {x})
    BY <1>3, <1>4 DEF Holds, Carried, Departs, Same, Live
  <2> QED BY <1>1, <1>2, <2>1, <2>2, <2>3
<1>5. CASE n < v.heap[x].count /\ Counts(v, w, x, v.heap[x].count - n)
  <2>1. Gains(v, w, v.heap[x].kind, 0 - n)
    <3>1. \A p \in Objects \ {x} : Same(v, w, p)
      BY <1>5 DEF Counts
    <3>2. x \in Live(w) /\ w.heap[x].kind = v.heap[x].kind
          /\ w.heap[x].count = v.heap[x].count - n
      BY <1>0, <1>3, <1>5 DEF Counts
    <3>3. (IF x \in Live(w) THEN w.heap[x].count ELSE 0)
             = (IF x \in Live(v) THEN v.heap[x].count ELSE 0) + (0 - n)
      BY <1>0, <3>2
    <3> QED BY <1>0, <3>1, <3>2, <3>3, AmountChange
  <2>2. n # v.heap[x].count
    BY <1>0, <1>5
  <2>3. Holds(v, w, {x})
    BY <1>3, <1>5 DEF Holds, Carried, Counts, Same, Live
  <2> QED BY <1>1, <1>2, <2>1, <2>2, <2>3
<1> QED BY <1>4, <1>5 DEF Leaves

\* What an item that comes, whose guid nobody has, adds.
LEMMA EntersThen ==
    ASSUME NEW v, NEW w, Sound({}, v), Sound({}, w), Unique(v), NEW guid, NEW kind, NEW n \in Nat,
           Alone(v, guid), Enters(v, w, guid, kind, n)
    PROVE  /\ Unique(w) /\ \A X : Holds(v, w, X)
           /\ Gains(v, w, kind, n)
           /\ \A g : Alone(v, g) /\ g # guid => Alone(w, g)
<1>0. /\ \A p \in Objects : p \in Live(v) <=> p \in Held(v) \/ p \in Worn(v) \/ v.ground[p] > 0
      /\ \A p \in Objects : p \in Live(w) <=> p \in Held(w) \/ p \in Worn(w) \/ w.ground[p] > 0
      /\ Live(v) \subseteq Objects /\ Live(w) \subseteq Objects
      /\ \A p \in Objects : v.ground[p] \in Nat /\ w.ground[p] \in Nat
      /\ \A p \in Objects : v.heap[p].count \in Nat /\ w.heap[p].count \in Nat
      /\ n \in Int
  BY LiveMeans, CountType
<1>1. ASSUME NEW x \in Objects, Falls(v, w, x),
             v.heap[x].guid = guid, v.heap[x].kind = kind, v.heap[x].count = n
      PROVE  /\ Unique(w) /\ \A X : Holds(v, w, X)
             /\ Gains(v, w, kind, n)
             /\ \A g : Alone(v, g) /\ g # guid => Alone(w, g)
  <2>1. Unique(w) /\ \A g : Alone(v, g) /\ g # guid => Alone(w, g)
    BY <1>1, FallsUnique
  <2>2. x \notin Live(v) /\ x \in Live(w) /\ w.heap[x] = v.heap[x]
    BY <1>0, <1>1 DEF Falls, Alone
  <2>3. \A p \in Objects \ {x} : Same(v, w, p)
    BY <1>1 DEF Falls
  <2>4. Gains(v, w, kind, n)
    <3>1. (IF x \in Live(w) THEN w.heap[x].count ELSE 0)
             = (IF x \in Live(v) THEN v.heap[x].count ELSE 0) + n
      BY <1>0, <1>1, <2>2
    <3> QED BY <1>0, <1>1, <2>2, <2>3, <3>1, AmountChange
  <2>5. \A X : Holds(v, w, X)
    BY <1>0, <2>2, <2>3 DEF Holds, Carried, Same, Live
  <2> QED BY <2>1, <2>4, <2>5
<1>2. ASSUME NEW x \in Objects, Arrives(v, w, x),
             w.heap[x].guid = guid, w.heap[x].kind = kind, w.heap[x].count = n
      PROVE  /\ Unique(w) /\ \A X : Holds(v, w, X)
             /\ Gains(v, w, kind, n)
             /\ \A g : Alone(v, g) /\ g # guid => Alone(w, g)
  <2>1. Unique(w) /\ \A g : Alone(v, g) /\ g # guid => Alone(w, g)
    BY <1>2, ArrivesUnique
  <2>2. x \notin Live(v) /\ x \in Live(w)
    BY <1>0, <1>2 DEF Arrives
  <2>3. \A p \in Objects \ {x} : Same(v, w, p)
    BY <1>2 DEF Arrives
  <2>4. Gains(v, w, kind, n)
    <3>1. (IF x \in Live(w) THEN w.heap[x].count ELSE 0)
             = (IF x \in Live(v) THEN v.heap[x].count ELSE 0) + n
      BY <1>0, <1>2, <2>2
    <3> QED BY <1>0, <1>2, <2>2, <2>3, <3>1, AmountChange
  <2>5. \A X : Holds(v, w, X)
    BY <1>0, <2>2, <2>3 DEF Holds, Carried, Same, Live
  <2> QED BY <2>1, <2>4, <2>5
<1>3. ASSUME NEW x \in Objects, Counts(v, w, x, v.heap[x].count + n),
             x \in Held(v), v.heap[x].kind = kind
      PROVE  /\ Unique(w) /\ \A X : Holds(v, w, X)
             /\ Gains(v, w, kind, n)
             /\ \A g : Alone(v, g) /\ g # guid => Alone(w, g)
  <2>1. Fades(v, w)
    BY <1>3, EffectsFade
  <2>2. Unique(w) /\ \A g : Alone(v, g) => Alone(w, g)
    BY <2>1, FadesUnique
  <2>3. /\ x \in Live(v) /\ x \in Live(w) /\ w.heap[x].kind = kind
        /\ w.heap[x].count = v.heap[x].count + n
        /\ \A p \in Objects \ {x} : Same(v, w, p)
    BY <1>0, <1>3 DEF Counts
  <2>4. Gains(v, w, kind, n)
    <3>1. (IF x \in Live(w) THEN w.heap[x].count ELSE 0)
             = (IF x \in Live(v) THEN v.heap[x].count ELSE 0) + n
      BY <2>3
    <3> QED BY <1>0, <1>3, <2>3, <3>1, AmountChange
  <2>5. \A X : Holds(v, w, X)
    BY <1>0, <1>3, <2>3 DEF Holds, Carried, Same, Live, Counts
  <2> QED BY <2>2, <2>4, <2>5
<1> QED BY <1>1, <1>2, <1>3 DEF Enters

-----------------------------------------------------------------------------
(* What the operations take away and add. *)

\* removeLoadoutItem takes the bag, and what is in it.
LEMMA RemovedFromLoadout ==
    ASSUME NEW v, Sound({}, v), Unique(v), NEW s \in Slots, v.loadout[s] # 0
    PROVE  LET w == RemoveLoadoutItem(v, s)
               x == v.loadout[s]
           IN
           /\ Fades(v, w) /\ Alone(w, v.heap[x].guid)
           /\ v.containers[s] = <<>> => Leaves(v, w, x, 1)
           /\ w.heap = v.heap /\ w.loadout[s] = 0
<1> DEFINE w == RemoveLoadoutItem(v, s)
           x == v.loadout[s]
<1>0. /\ v \in Inventories /\ v.loadout \in [Slots -> {0} \cup Objects]
      /\ v.containers \in [Slots -> Seq(Objects)]
  BY Fields DEF Sound
<1>1. /\ w \in Inventories /\ Sound({}, w)
      /\ w.loadout = [v.loadout EXCEPT ![s] = 0]
      /\ w.containers = [v.containers EXCEPT ![s] = <<>>]
      /\ w.heap = v.heap /\ w.ground = v.ground
  BY <1>0, RemoveLoadoutItemIs, RemoveLoadoutItemStep DEF Step
<1> HIDE DEF w
<1>2. /\ w.loadout[s] = 0 /\ \A t \in Slots \ {s} : w.loadout[t] = v.loadout[t]
      /\ w.containers[s] = <<>> /\ \A t \in Slots \ {s} : w.containers[t] = v.containers[t]
  BY <1>0, <1>1
<1>3. /\ x \in Objects /\ v.heap[x].count = 1
      /\ \A t \in Slots : v.loadout[t] = x => t = s
  BY InUse
<1>4. x \in Worn(v) /\ x \notin Held(v) /\ x \in Live(v)
  BY <1>0, <1>3, WornMeans, LiveMeans
<1>5. v.ground[x] = 0
  BY <1>4 DEF Unique
<1>6. \A p \in Objects : p \in Held(w) => p \in Held(v)
  <2> SUFFICES ASSUME NEW p \in Objects, p \in Held(w) PROVE p \in Held(v)
    OBVIOUS
  <2>1. PICK t \in Slots : \E i \in DOMAIN w.containers[t] : w.containers[t][i] = p
    BY <1>1, HeldMeans, ZenonT(40)
  <2>2. t # s
    BY <1>2, <2>1
  <2>3. \E i \in DOMAIN v.containers[t] : v.containers[t][i] = p
    BY <1>2, <2>1, <2>2
  <2> QED BY <1>0, <2>3, HeldMeans
<1>7. ASSUME NEW p \in Objects PROVE p \in Worn(w) <=> p \in Worn(v) /\ p # x
  <2>1. ASSUME p \in Worn(w) PROVE p \in Worn(v) /\ p # x
    <3>1. PICK t \in Slots : w.loadout[t] = p
      BY <1>1, <2>1, WornMeans
    <3>2. t # s /\ v.loadout[t] = p
      BY <1>2, <3>1, Numbers
    <3> QED BY <1>0, <1>3, <3>2, WornMeans
  <2>2. ASSUME p \in Worn(v), p # x PROVE p \in Worn(w)
    <3>1. PICK t \in Slots : v.loadout[t] = p
      BY <1>0, <2>2, WornMeans
    <3>2. t # s /\ w.loadout[t] = p
      BY <1>2, <2>2, <3>1
    <3> QED BY <1>1, <3>2, WornMeans
  <2> QED BY <2>1, <2>2
<1>8. x \notin Held(w) /\ x \notin Worn(w) /\ w.ground[x] = 0
  BY <1>1, <1>3, <1>4, <1>5, <1>6, <1>7
<1>9. x \notin Live(w)
  BY <1>1, <1>3, <1>8, LiveMeans
<1>10. Fades(v, w)
  <2>1. \A p \in Objects : w.ground[p] <= v.ground[p]
    BY <1>1, LiveMeans
  <2> QED BY <1>1, <1>6, <1>7, <2>1 DEF Fades
<1>11. Alone(w, v.heap[x].guid)
  BY <1>4, <1>9, <1>10, <1>1, FadesUnique DEF Alone, Unique
<1>12. ASSUME w.containers = v.containers PROVE Held(w) = Held(v)
  BY <1>12 DEF Held
<1>13. ASSUME v.containers[s] = <<>> PROVE Leaves(v, w, x, 1)
  <2>1. w.containers = v.containers
    BY <1>0, <1>1, <1>13
  <2>2. \A p \in Objects \ {x} : Same(v, w, p)
    BY <1>1, <1>7, <1>12, <2>1 DEF Same
  <2>3. Departs(v, w, x)
    BY <1>1, <1>4, <1>9, <2>2 DEF Departs
  <2> QED BY <1>3, <1>4, <2>3 DEF Leaves
<1> HIDE DEF x
<1> QED BY <1>1, <1>2, <1>10, <1>11, <1>13 DEF w, x

\* removeContainerItem takes what is there from the container.
LEMMA RemovedFromContainer ==
    ASSUME NEW v, Sound({}, v), Unique(v), NEW o \in Objects, v.heap[o].guid # 0,
           NEW s \in SlotsHolding(v, v.heap[o].guid),
           NEW count \in 1 .. MaxCount, count <= v.heap[o].count
    PROVE  LET w == RemoveContainerItem(v, o, s, count) IN
           /\ Fades(v, w)
           /\ o \in Held(v) => Leaves(v, w, o, count)
           /\ w.heap[o].count = IF count = v.heap[o].count THEN count ELSE v.heap[o].count - count
<1> DEFINE w == RemoveContainerItem(v, o, s, count)
<1>0. /\ v.heap[o].count \in Nat /\ count \in Nat /\ count \in 0 .. MaxCount /\ s \in Slots
      /\ v \in Inventories
  BY CountType, Numbers DEF SlotsHolding, Sound
<1>s. Sound({}, w)
  BY <1>0, RemoveContainerItemStep DEF Step
<1>1. CASE count = v.heap[o].count
  <2> DEFINE c == v.containers[s]
             d == w.containers[s]
  <2>1. /\ w \in Inventories
        /\ w.heap = v.heap /\ w.loadout = v.loadout /\ w.ground = v.ground
        /\ \A t \in Slots \ {s} : w.containers[t] = v.containers[t]
        /\ \E m \in DOMAIN c :
             /\ v.heap[c[m]].guid = v.heap[o].guid
             /\ \A j \in DOMAIN d : \E i \in DOMAIN c : i # m /\ d[j] = c[i]
             /\ \A i \in DOMAIN c \ {m} : \E j \in DOMAIN d : d[j] = c[i]
    <3>1. TakenFrom(v, w, o, s)
      BY <1>0, <1>1, TakenOut
    <3> HIDE DEF w, c
    <3> QED BY <3>1 DEF TakenFrom, c
  <2> HIDE DEF w
  <2>2. PICK m \in DOMAIN c :
           /\ v.heap[c[m]].guid = v.heap[o].guid
           /\ \A j \in DOMAIN d : \E i \in DOMAIN c : i # m /\ d[j] = c[i]
           /\ \A i \in DOMAIN c \ {m} : \E j \in DOMAIN d : d[j] = c[i]
    BY <2>1
  <2> DEFINE x == c[m]
  <2>3. x \in Objects /\ x \in Held(v) /\ x \in Live(v)
    BY <1>0, <2>2, InUse, HeldMeans DEF Live
  <2>4. \A t \in Slots : \A i \in DOMAIN v.containers[t] : v.containers[t][i] = x => t = s /\ i = m
    BY <1>0, <2>2 DEF Sound, Apart, Keyed
  <2>5. ASSUME NEW p \in Objects PROVE p \in Held(w) <=> p \in Held(v) /\ p # x
    <3>1. ASSUME p \in Held(w) PROVE p \in Held(v) /\ p # x
      <4>1. PICK t \in Slots : \E j \in DOMAIN w.containers[t] : w.containers[t][j] = p
        BY <2>1, <3>1, HeldMeans
      <4>2. CASE t = s
        <5>1. PICK i \in DOMAIN c : i # m /\ c[i] = p
          BY <2>2, <4>1, <4>2
        <5>2. p # x
          BY <1>0, <2>4, <5>1
        <5> QED BY <1>0, <5>1, <5>2, HeldMeans
      <4>3. CASE t # s
        <5>1. \E i \in DOMAIN v.containers[t] : v.containers[t][i] = p
          BY <2>1, <4>1, <4>3
        <5>2. p # x
          BY <2>4, <4>3, <5>1
        <5> QED BY <1>0, <5>1, <5>2, HeldMeans
      <4> QED BY <4>2, <4>3
    <3>2. ASSUME p \in Held(v), p # x PROVE p \in Held(w)
      <4>1. PICK t \in Slots : \E i \in DOMAIN v.containers[t] : v.containers[t][i] = p
        BY <1>0, <3>2, HeldMeans
      <4>2. \E j \in DOMAIN w.containers[t] : w.containers[t][j] = p
        <5>1. CASE t = s
          <6>1. PICK i \in DOMAIN c : c[i] = p
            BY <4>1, <5>1
          <6>2. i # m
            BY <3>2, <6>1
          <6> QED BY <2>2, <5>1, <6>1, <6>2
        <5>2. CASE t # s
          BY <2>1, <4>1, <5>2
        <5> QED BY <5>1, <5>2
      <4> QED BY <2>1, <4>2, HeldMeans
    <3> QED BY <3>1, <3>2
  <2> HIDE DEF x
  <2>6. Worn(w) = Worn(v)
    BY <2>1 DEF Worn
  <2>7. Fades(v, w)
    BY <2>1, <2>5, <2>6, LiveMeans DEF Fades
  <2>8. ASSUME o \in Held(v) PROVE Leaves(v, w, o, count)
    <3>1. o = x
      BY <2>2, <2>3, <2>8 DEF Unique, Live, x
    <3>2. v.ground[x] = 0 /\ x \notin Worn(v)
      BY <2>3, LiveMeans DEF Unique
    <3>3. x \notin Live(w)
      BY <1>s, <2>1, <2>3, <2>5, <2>6, <3>2, LiveMeans
    <3>4. \A p \in Objects \ {x} : Same(v, w, p)
      BY <2>1, <2>5, <2>6 DEF Same
    <3>5. Departs(v, w, x)
      BY <2>1, <2>3, <3>3, <3>4 DEF Departs
    <3> QED BY <1>1, <2>3, <3>1, <3>5 DEF Leaves
  <2> QED BY <1>1, <2>1, <2>7, <2>8 DEF w
<1>2. CASE count < v.heap[o].count
  <2>1. /\ w \in Inventories
        /\ \A p \in Objects \ {o} : w.heap[p] = v.heap[p]
        /\ w.heap[o].guid = v.heap[o].guid /\ w.heap[o].kind = v.heap[o].kind
        /\ w.heap[o].count = v.heap[o].count - count
        /\ w.loadout = v.loadout /\ w.containers = v.containers /\ w.ground = v.ground
    BY <1>0, <1>2, RemovePartIs
  <2> HIDE DEF w
  <2>2. Held(w) = Held(v) /\ Worn(w) = Worn(v)
    BY <1>0, <2>1, SamePlaces
  <2>3. Counts(v, w, o, v.heap[o].count - count)
    BY <2>1, <2>2 DEF Counts, Same
  <2>4. Fades(v, w)
    BY <1>s, <2>3, EffectsFade DEF w
  <2>5. o \in Held(v) => Leaves(v, w, o, count)
    BY <1>2, <2>3 DEF Leaves, Live
  <2> QED BY <1>0, <1>2, <2>1, <2>4, <2>5 DEF w
<1> QED BY <1>0, <1>1, <1>2

\* What a bag and its slot are to removeInventoryItem.
LEMMA WornIs ==
    ASSUME NEW v, Sound({}, v), NEW o \in Objects, o \in Worn(v)
    PROVE  IsWorn(v, o) /\ v.heap[o].count = 1 /\ v.loadout[v.heap[o].slot] = o
<1>1. PICK s \in Slots : v.loadout[s] = o
  BY WornMeans DEF Sound
<1>2. v.loadout[s] # 0 /\ s # 0
  BY <1>1, Numbers
<1>3. v.heap[o].slot = s /\ v.heap[o].count = 1
  BY <1>1, <1>2, InUse
<1> QED BY <1>1, <1>2, <1>3, Numbers DEF IsWorn

\* removeInventoryItem takes what is carried.
LEMMA RemovedFromInventory ==
    ASSUME NEW v, Sound({}, v), Unique(v), NEW o \in Objects, v.heap[o].guid # 0,
           NEW count \in 1 .. MaxCount, count <= v.heap[o].count
    PROVE  LET w == RemoveInventoryItem(v, o, count) IN
           /\ Fades(v, w)
           /\ o \in Held(v) \/ o \in Worn(v) =>
                 /\ count = v.heap[o].count => Alone(w, v.heap[o].guid)
                 /\ (\A s \in Slots : v.loadout[s] = o => v.containers[s] = <<>>)
                       => Leaves(v, w, o, count)
                 /\ w.heap[o].count =
                       IF count = v.heap[o].count THEN count ELSE v.heap[o].count - count
<1> DEFINE w == RemoveInventoryItem(v, o, count)
           slot == v.heap[o].slot
           holding == SlotsHolding(v, v.heap[o].guid)
           x == v.loadout[slot]
<1>0. /\ v.heap[o].count \in Nat /\ count \in Nat /\ count > 0
      /\ \A p \in Objects : p \in Live(v) <=> p \in Held(v) \/ p \in Worn(v) \/ v.ground[p] > 0
      /\ \A p \in Objects : v.ground[p] \in Nat
      /\ count \in 0 .. MaxCount /\ Clamp(v.heap[o].count, count) = count
  <2>1. v.heap[o].count \in 0 .. MaxCount /\ count \in 0 .. MaxCount /\ count > 0
    BY CountType, Numbers
  <2>2. Clamp(v.heap[o].count, count) = count
    BY <2>1, ClampIs
  <2> QED BY <2>1, <2>2, LiveMeans, Numbers
<1>s. Sound({}, w)
  BY <1>0, RemoveInventoryItemStep DEF Step
<1>1. CASE /\ slot \in Slots /\ v.loadout[slot] # 0
           /\ v.heap[x].guid = v.heap[o].guid
           /\ w = RemoveLoadoutItem(v, slot)
  <2>1. /\ Fades(v, w) /\ Alone(w, v.heap[x].guid)
        /\ v.containers[slot] = <<>> => Leaves(v, w, x, 1)
        /\ w.heap = v.heap
    BY <1>1, RemovedFromLoadout
  <2>2. x \in Objects /\ x \in Worn(v) /\ v.heap[x].count = 1
    <3>0. \A s \in Slots : v.loadout[s] # 0 =>
             v.loadout[s] \in Objects /\ v.heap[v.loadout[s]].count = 1
      BY InUse
    <3>1. x \in Objects /\ v.heap[x].count = 1
      BY <1>1, <3>0
    <3>2. x \in Worn(v)
      BY <1>1, <3>1, Numbers DEF Worn
    <3> QED BY <3>1, <3>2
  <2> HIDE DEF w, x
  <2>3. ASSUME o \in Held(v) \/ o \in Worn(v) PROVE o = x
    BY <1>0, <1>1, <2>2, <2>3 DEF Unique
  <2>4. ASSUME o \in Held(v) \/ o \in Worn(v) PROVE count = 1 /\ v.heap[o].count = 1
    BY <1>0, <2>2, <2>3, <2>4
  <2> QED BY <1>1, <2>1, <2>3, <2>4 DEF w, x
<1>2. CASE holding = {} /\ ~IsWorn(v, o) /\ w = v
  <2>1. ~(o \in Held(v) \/ o \in Worn(v))
    BY <1>2, CarriedIs, WornIs
  <2>2. Fades(v, v)
    BY <1>0 DEF Fades
  <2> QED BY <1>2, <2>1, <2>2
<1>3. CASE /\ Min(holding) \in holding /\ ~IsWorn(v, o)
           /\ w = RemoveContainerItem(v, o, Min(holding), count)
  <2>1. /\ Fades(v, w)
        /\ o \in Held(v) => Leaves(v, w, o, count)
        /\ w.heap[o].count = IF count = v.heap[o].count THEN count ELSE v.heap[o].count - count
    BY <1>3, RemovedFromContainer
  <2>2. o \notin Worn(v)
    BY <1>3, WornIs
  <2> HIDE DEF w
  <2>3. o \in Held(v) /\ count = v.heap[o].count => Alone(w, v.heap[o].guid)
    BY <1>0, <1>s, <2>1, LeavesThen DEF w
  <2> QED BY <2>1, <2>2, <2>3 DEF w
<1>4. \/ /\ slot \in Slots /\ v.loadout[slot] # 0
         /\ v.heap[x].guid = v.heap[o].guid
         /\ w = RemoveLoadoutItem(v, slot)
      \/ holding = {} /\ ~IsWorn(v, o) /\ w = v
      \/ /\ Min(holding) \in holding /\ ~IsWorn(v, o)
         /\ w = RemoveContainerItem(v, o, Min(holding), Clamp(v.heap[o].count, count))
  BY RemoveInventoryCases
<1> HIDE DEF w, holding, x
<1> QED BY <1>0, <1>1, <1>2, <1>3, <1>4

\* lootContainerItem puts an item no container has somewhere.
LEMMA LootContainerItemEnters ==
    ASSUME NEW v, Sound({}, v), Room(v, 1), NEW o \in Objects, v.heap[o].guid # 0,
           NEW count \in 1 .. MaxCount, count = v.heap[o].count,
           \A p \in Held(v) : v.heap[p].guid # v.heap[o].guid
    PROVE  LET w == LootContainerItem(v, o, count) IN
           /\ Enters(v, w, v.heap[o].guid, v.heap[o].kind, count)
           /\ w.loadout = v.loadout
<1> DEFINE w == LootContainerItem(v, o, count)
           kind == v.heap[o].kind
           guid == v.heap[o].guid
<1>0. /\ v \in Inventories /\ Keyed(v) /\ FreeObjects(v) # {} /\ v.open \subseteq Slots
      /\ count \in 0 .. MaxCount /\ kind \in Kinds
  BY RoomMeans, Fields, CountType, Numbers, 1 \in Nat \ {0} DEF Sound
<1>1. CASE w = Ground(v, o)
  <2>1. Falls(v, Ground(v, o), o) /\ Ground(v, o).loadout = v.loadout
    BY <1>0, GroundFalls, GroundIs
  <2> HIDE DEF w
  <2>2. Enters(v, w, guid, kind, count) /\ w.loadout = v.loadout
    BY <1>1, <2>1 DEF Enters
  <2> QED BY <2>2 DEF w
<1>2. ASSUME NEW s \in v.open, w = AddContainerItem(v, o, s, count)
      PROVE  Enters(v, w, guid, kind, count) /\ w.loadout = v.loadout
  <2>1. s \in Slots
    BY <1>0
  <2>2. \A i \in DOMAIN v.containers[s] : v.heap[v.containers[s][i]].guid # v.heap[o].guid
    BY <1>0, <2>1, HeldMeans
  <2>0. PICK a : a = AddContainerItem(v, o, s, count) /\ a = w
    BY <1>2
  <2> HIDE DEF w, kind, guid
  <2>3. PICK n \in Objects : /\ Arrives(v, a, n) /\ a.heap[n].guid = guid
                             /\ a.heap[n].kind = kind /\ a.heap[n].count = count
    <3>1. /\ Arrives(v, AddContainerItem(v, o, s, count), NewObject(v))
          /\ AddContainerItem(v, o, s, count).heap[NewObject(v)].guid = v.heap[o].guid
          /\ AddContainerItem(v, o, s, count).heap[NewObject(v)].kind = v.heap[o].kind
          /\ AddContainerItem(v, o, s, count).heap[NewObject(v)].count = count
      BY <1>0, <2>1, <2>2, AddContainerItemArrives
    <3>2. NewObject(v) \in Objects
      BY <1>0, NewObjectIs
    <3> QED BY <2>0, <3>1, <3>2 DEF guid, kind
  <2>4. a.loadout = v.loadout
    <3>1. Filed(v, AddContainerItem(v, o, s, count), o, s, count)
      BY <1>0, <2>1, AddContainerItemIs
    <3>2. Filed(v, a, o, s, count)
      BY <2>0, <3>1
    <3> QED BY <3>2 DEF Filed
  <2> QED BY <2>0, <2>3, <2>4 DEF Enters
<1>3. ASSUME NEW s \in v.open, NEW i \in Stacks(v, s, kind, count), w = AddToStack(v, s, i, count)
      PROVE  Enters(v, w, guid, kind, count) /\ w.loadout = v.loadout
  <2> DEFINE x == v.containers[s][i]
  <2>1. /\ s \in Slots /\ i \in DOMAIN v.containers[s]
        /\ v.heap[x].count + count <= MaxCount
    <3>1. s \in Slots
      BY <1>0
    <3> HIDE DEF w, x
    <3> QED BY <1>0, <3>1, AddToStackStep DEF x
  <2>2. x \in Objects /\ w.loadout = v.loadout
    <3> HIDE DEF w
    <3>1. v \in Inventories /\ count \in 0 .. MaxCount
      BY <1>0
    <3>2. x \in Objects /\ AddToStack(v, s, i, count).loadout = v.loadout
      <4> HIDE DEF kind, guid
      <4> QED BY <2>1, <3>1, AddToStackIs
    <3> QED BY <1>3, <3>2
  <2>3. Counts(v, w, x, v.heap[x].count + count) /\ x \in Held(v) /\ v.heap[x].kind = kind
    BY <1>0, <1>3, <2>1, AddToStackCounts
  <2> HIDE DEF w, guid, kind, x
  <2> QED BY <2>2, <2>3 DEF Enters
<1> QED BY <1>1, <1>2, <1>3, LootContainerCases

\* lootItem wears it, or puts it somewhere.
LEMMA LootItemEnters ==
    ASSUME NEW v, Sound({}, v), Room(v, 1), NEW o \in Objects, v.heap[o].guid # 0,
           \A p \in Held(v) : v.heap[p].guid # v.heap[o].guid
    PROVE  Enters(v, LootItem(v, o), v.heap[o].guid, v.heap[o].kind, v.heap[o].count)
<1> DEFINE kind == v.heap[o].kind
           count == v.heap[o].count
           w == LootItem(v, o)
<1>0. /\ v \in Inventories /\ FreeObjects(v) # {} /\ count \in 1 .. MaxCount /\ Bags = Slots
      /\ kind \in Bags => count = 1
  <2>1. v \in Inventories /\ FreeObjects(v) # {} /\ Bags = Slots
    BY RoomMeans, Numbers, 1 \in Nat \ {0} DEF Sound
  <2>2. count \in 0 .. MaxCount /\ Fair({}, kind, count)
    BY CountType
  <2> QED BY <2>1, <2>2, FairIs, Numbers
<1>1. CASE kind \in Bags /\ v.loadout[kind] = Nobody
  <2>1. w = EquipItem(v, o, kind)
    BY <1>1 DEF LootItem
  <2>2. kind \in Slots /\ v.loadout[kind] = 0 /\ NewObject(v) \in Objects /\ count = 1
    BY <1>0, <1>1, Numbers, NewObjectIs
  <2> HIDE DEF w, kind
  <2>3. /\ Arrives(v, EquipItem(v, o, kind), NewObject(v))
        /\ EquipItem(v, o, kind).heap[NewObject(v)].guid = v.heap[o].guid
        /\ EquipItem(v, o, kind).heap[NewObject(v)].kind = v.heap[o].kind
        /\ EquipItem(v, o, kind).heap[NewObject(v)].count = 1
    BY <1>0, <2>2, EquipItemArrives
  <2>4. Enters(v, w, v.heap[o].guid, v.heap[o].kind, 1)
    BY <2>1, <2>2, <2>3 DEF Enters
  <2> QED BY <2>2, <2>4 DEF w, kind
<1>2. CASE ~(kind \in Bags /\ v.loadout[kind] = Nobody)
  <2>1. w = LootContainerItem(v, o, count)
    BY <1>2 DEF LootItem
  <2>2. Enters(v, LootContainerItem(v, o, count), v.heap[o].guid, kind, count)
    BY <1>0, LootContainerItemEnters
  <2> QED BY <2>1, <2>2
<1> QED BY <1>1, <1>2

-----------------------------------------------------------------------------
(* Requests lose nothing, make nothing, and leave every item in one place. *)

\* There is as much of every kind, and what is carried stays carried, but for
\* the objects the request touches.
Even(v, w, touched) ==
    /\ \A k \in Kinds : Amount(w, k) = Amount(v, k)
    /\ Holds(v, w, touched)

\* An item goes and as much of its kind comes.
LEMMA Swapped ==
    ASSUME NEW v, NEW u, NEW w, Sound({}, v), Sound({}, u), Sound({}, w), Unique(v),
           NEW x, NEW n \in Nat, Leaves(v, u, x, n),
           Gains(u, w, v.heap[x].kind, n), NEW touched, x \in touched, Holds(u, w, touched)
    PROVE  Even(v, w, touched)
<1>1. Gains(v, u, v.heap[x].kind, 0 - n) /\ Holds(v, u, {x}) /\ 0 - n \in Int /\ n \in Int
  BY LeavesThen
<1>2. Gains(v, w, v.heap[x].kind, (0 - n) + n)
  BY <1>1, GainsAdd
<1>3. \A k \in Kinds : Amount(w, k) = Amount(v, k)
  <2> SUFFICES ASSUME NEW k \in Kinds PROVE Amount(w, k) = Amount(v, k)
    OBVIOUS
  <2>1. (0 - n) + n = 0 /\ Amount(v, k) \in Nat
    BY OwnedIs
  <2>2. Amount(w, k) = Amount(v, k) + (IF k = v.heap[x].kind THEN 0 ELSE 0)
    BY <1>2, <2>1 DEF Gains
  <2> QED BY <2>1, <2>2
<1>4. Holds(v, w, touched)
  BY <1>1 DEF Holds
<1> QED BY <1>3, <1>4 DEF Even

\* generateItem makes an item that is nowhere yet, with a guid of its own.
LEMMA Generated ==
    ASSUME NEW v, Sound({}, v), Unique(v), FreeObjects(v) # {},
           NEW kind \in Kinds, NEW count \in 1 .. MaxCount, kind \in Bags => count = 1
    PROVE  LET w == GenerateItem(v, kind, count)
               n == NewObject(v)
           IN
           /\ Step({}, v, w, 1)
           /\ Sound({}, w) /\ Unique(w) /\ Alone(w, w.heap[n].guid)
           /\ \A g : Alone(v, g) => Alone(w, g)
           /\ n \in Objects /\ w.heap[n].guid # 0
           /\ w.heap[n].kind = kind /\ w.heap[n].count = count
           /\ \A k : Gains(v, w, k, 0)
           /\ \A X : Holds(v, w, X)
           /\ w.containers = v.containers /\ w.open = v.open
<1> DEFINE w == GenerateItem(v, kind, count)
           n == NewObject(v)
<1>0. count \in 0 .. MaxCount /\ Fair({}, kind, count)
  BY FairIs, Numbers
<1>1. /\ Step({}, v, w, 1)
      /\ Sound({}, w) /\ n \in Objects /\ w.heap[n].guid # 0
      /\ w.heap[n].kind = kind /\ w.heap[n].count = count
      /\ w.containers = v.containers /\ w.open = v.open
  BY <1>0, GenerateItemStep DEF Step
<1>2. Still(v, w) /\ Alone(w, w.heap[n].guid)
  BY GenerateItemStill
<1> HIDE DEF w, n
<1>3. Fades(v, w)
  BY <1>1, <1>2, EffectsFade
<1>4. Unique(w) /\ \A g : Alone(v, g) => Alone(w, g)
  BY <1>1, <1>3, FadesUnique
<1>5. (\A k : Gains(v, w, k, 0)) /\ (\A X : Holds(v, w, X))
  BY <1>1, <1>2, StillGains
<1> QED BY <1>1, <1>2, <1>4, <1>5 DEF w, n

\* What comes after a new item was made is gained over what was there before.
LEMMA GainsAfter ==
    ASSUME NEW u, NEW v, NEW w, Sound({}, u), Sound({}, v), Sound({}, w), NEW kind, NEW n \in Nat,
           Gains(u, v, kind, 0), Gains(v, w, kind, n),
           NEW touched, Holds(u, v, touched), Holds(v, w, touched)
    PROVE  Gains(u, w, kind, n) /\ Holds(u, w, touched)
<1>1. 0 \in Int /\ n \in Int /\ 0 + n = n
  OBVIOUS
<1>2. Gains(u, w, kind, 0 + n)
  BY <1>1, GainsAdd
<1>3. Holds(u, w, touched)
  BY DEF Holds
<1> QED BY <1>1, <1>2, <1>3

\* dropItem, unless half a stack or more is dropped.
LEMMA DropTidy ==
    ASSUME NEW v, Sound({}, v), Unique(v), Room(v, 1), NEW o \in Objects, v.heap[o].guid # 0,
           o \in Held(v) \/ o \in Worn(v),
           NEW count \in 1 .. MaxCount, count <= v.heap[o].count,
           count = v.heap[o].count \/ 2 * count < v.heap[o].count,
           \A s \in Slots : v.loadout[s] = o => v.containers[s] = <<>>
    PROVE  Unique(DropItem(v, o, count)) /\ Even(v, DropItem(v, o, count), {o})
<1> DEFINE removed == RemoveInventoryItem(v, o, count)
           w == DropItem(v, o, count)
           kind == v.heap[o].kind
<1>0. /\ v.heap[o].count \in Nat /\ count \in Nat /\ count > 0 /\ kind \in Kinds
      /\ kind \in Bags => v.heap[o].count = 1
      /\ count \in 0 .. MaxCount /\ Said({}, v.heap[o].count, count)
      /\ 0 \in Nat /\ 1 \in Nat \ {0} /\ 1 + 0 = 1
  <2>1. /\ v.heap[o].count \in Nat /\ count \in Nat /\ count > 0 /\ kind \in Kinds
        /\ Fair({}, kind, v.heap[o].count)
    BY CountType, Numbers
  <2>2. Said({}, v.heap[o].count, count)
    BY <2>1 DEF Said
  <2> QED BY <2>1, <2>2, FairIs, Numbers
<1>1. Step({}, v, removed, 0) /\ Leaves(v, removed, o, count) /\ Sound({}, w)
  BY <1>0, RemoveInventoryItemStep, RemovedFromInventory, DropItemStep DEF Step
<1>2. removed.heap[o].count = IF count = v.heap[o].count THEN count ELSE v.heap[o].count - count
  BY RemovedFromInventory
<1>3. /\ Sound({}, removed) /\ Unique(removed) /\ Room(removed, 1) /\ FreeObjects(removed) # {}
      /\ removed.heap[o].guid = v.heap[o].guid /\ removed.heap[o].kind = kind
      /\ count = v.heap[o].count => Alone(removed, v.heap[o].guid)
  <2>1. Sound({}, removed) /\ Kept(v, removed) /\ Room(removed, 1)
    BY <1>0, <1>1, StepLeaves
  <2>2. FreeObjects(removed) # {}
    BY <1>0, <2>1, RoomMeans DEF Sound
  <2> HIDE DEF removed
  <2>3. Unique(removed) /\ (count = v.heap[o].count => Alone(removed, v.heap[o].guid))
    BY <1>0, <1>1, <2>1, LeavesThen
  <2> QED BY <2>1, <2>2, <2>3 DEF Kept
<1>4. CASE count = v.heap[o].count
  <2>1. w = Ground(removed, o)
    BY <1>2, <1>4 DEF DropItem
  <2> HIDE DEF removed, w
  <2>2. Falls(removed, w, o)
    BY <1>3, <2>1, GroundFalls DEF Sound
  <2>3. removed.heap[o].count = count
    BY <1>2, <1>4
  <2>4. Enters(removed, w, v.heap[o].guid, kind, count)
    BY <1>3, <2>2, <2>3 DEF Enters
  <2>5. Unique(w) /\ Gains(removed, w, kind, count) /\ \A X : Holds(removed, w, X)
    BY <1>0, <1>1, <1>3, <1>4, <2>4, EntersThen
  <2>6. Even(v, w, {o})
    BY <1>0, <1>1, <1>3, <2>5, Swapped
  <2> QED BY <2>5, <2>6 DEF w
<1>5. CASE count # v.heap[o].count
  <2> DEFINE generated == GenerateItem(removed, kind, count)
             n == NewObject(removed)
  <2>1. removed.heap[o].count > count
    BY <1>0, <1>2, <1>5
  <2>2. w = Ground(generated, n)
    BY <1>0, <1>2, <2>1 DEF DropItem
  <2> HIDE DEF removed, w
  <2>3. kind \notin Bags
    BY <1>0, <1>5
  <2>4. /\ Sound({}, generated) /\ Unique(generated) /\ Alone(generated, generated.heap[n].guid)
        /\ n \in Objects /\ generated.heap[n].kind = kind /\ generated.heap[n].count = count
        /\ Gains(removed, generated, kind, 0) /\ \A X : Holds(removed, generated, X)
    BY <1>0, <1>3, <2>3, Generated
  <2> HIDE DEF generated, n
  <2>5. Falls(generated, w, n)
    BY <2>2, <2>4, GroundFalls DEF Sound
  <2>6. Enters(generated, w, generated.heap[n].guid, kind, count)
    BY <2>4, <2>5 DEF Enters
  <2>7. Unique(w) /\ Gains(generated, w, kind, count) /\ \A X : Holds(generated, w, X)
    BY <1>0, <1>1, <2>4, <2>6, EntersThen
  <2>8. Gains(removed, w, kind, count) /\ \A X : Holds(removed, w, X)
    BY <1>0, <1>1, <1>3, <2>4, <2>7, GainsAfter
  <2>9. Even(v, w, {o})
    BY <1>0, <1>1, <1>3, <2>8, Swapped
  <2> QED BY <2>7, <2>9 DEF w
<1> QED BY <1>4, <1>5

\* A bag that is taken off for another one goes where there is room for it.
LEMMA TakenOff ==
    ASSUME NEW v, Sound({}, v), Unique(v), Room(v, 1), NEW s \in Slots, v.loadout[s] # 0,
           v.containers[s] = <<>>, NEW guid, Alone(v, guid)
    PROVE  LET w == LootContainerItem(RemoveLoadoutItem(v, s), v.loadout[s], 1) IN
           /\ Unique(w) /\ Alone(w, guid) /\ w.loadout[s] = 0
           /\ Gains(v, w, s, 0) /\ Holds(v, w, {v.loadout[s]})
<1> DEFINE old == v.loadout[s]
           removed == RemoveLoadoutItem(v, s)
           w == LootContainerItem(removed, old, 1)
<1>0. /\ old \in Objects /\ v.heap[old].guid # 0 /\ v.heap[old].kind = s /\ v.heap[old].count = 1
      /\ 1 \in 1 .. MaxCount /\ 1 \in Nat /\ 0 \in Nat /\ 1 + 0 = 1 /\ 0 - 1 \in Int
      /\ 1 \in Int /\ (0 - 1) + 1 = 0
      /\ 1 \in 0 .. MaxCount /\ Fair({}, s, 1)
  BY InUse, FairIs, Numbers
<1>1. old \in Live(v) /\ old \notin Held(v)
  BY <1>0, WornMeans, LiveMeans DEF Sound
<1>2. Leaves(v, removed, old, 1) /\ removed.loadout[s] = 0 /\ removed.heap = v.heap
  BY RemovedFromLoadout
<1>3. Step({}, v, removed, 0)
  BY RemoveLoadoutItemStep
<1> HIDE DEF removed, old
<1>4. Sound({}, removed) /\ Room(removed, 1)
  BY <1>0, <1>3, StepLeaves
<1>5. /\ Unique(removed) /\ Alone(removed, v.heap[old].guid) /\ Alone(removed, guid)
      /\ Gains(v, removed, s, 0 - 1) /\ Holds(v, removed, {old})
  BY <1>0, <1>2, <1>4, LeavesThen
<1>6. \A p \in Held(removed) : removed.heap[p].guid # removed.heap[old].guid
  BY <1>2, <1>5 DEF Alone, Live
<1>7. /\ Enters(removed, w, v.heap[old].guid, s, 1) /\ w.loadout = removed.loadout
      /\ Sound({}, w)
  <2>1. /\ Enters(removed, w, removed.heap[old].guid, removed.heap[old].kind, 1)
        /\ w.loadout = removed.loadout
    BY <1>0, <1>2, <1>4, <1>6, LootContainerItemEnters
  <2>2. Step({}, removed, w, 1)
    BY <1>0, <1>2, <1>4, LootContainerItemStep
  <2> QED BY <1>0, <1>2, <2>1, <2>2 DEF Step
<1> HIDE DEF w
<1>8. guid # v.heap[old].guid
  BY <1>1 DEF Alone
<1>9. /\ Unique(w) /\ Alone(w, guid) /\ Gains(removed, w, s, 1)
      /\ \A X : Holds(removed, w, X)
  BY <1>0, <1>4, <1>5, <1>7, <1>8, EntersThen
<1>10. Gains(v, w, s, 0)
  <2>1. Gains(v, w, s, (0 - 1) + 1)
    BY <1>0, <1>4, <1>5, <1>7, <1>9, GainsAdd
  <2> QED BY <1>0, <2>1
<1>11. Holds(v, w, {old})
  BY <1>5, <1>9 DEF Holds
<1> QED BY <1>2, <1>7, <1>9, <1>10, <1>11 DEF w, removed, old

\* What is worn, and what is in other containers, is left alone.
LEMMA LeftAlone ==
    ASSUME NEW v, Sound({}, v), NEW o \in Objects, NEW from \in Slots, NEW t \in Slots, t # from
    PROVE  /\ RemoveContainerItem(v, o, from, 1).loadout = v.loadout
           /\ RemoveContainerItem(v, o, from, 1).containers[t] = v.containers[t]
<1>1. v \in Inventories /\ v.containers \in [Slots -> Seq(Objects)]
  BY Fields DEF Sound
<1> QED BY <1>1 DEF RemoveContainerItem, Inventories

\* equipContainerItem, where the bag that was worn is empty.
LEMMA EquipTidy ==
    ASSUME NEW v, Sound({}, v), Unique(v), Room(v, 2), NEW s \in Slots,
           NEW o \in Objects, o \in Held(v), v.heap[o].kind = s, v.containers[s] = <<>>
    PROVE  /\ Unique(EquipContainerItem(v, o, s))
           /\ Even(v, EquipContainerItem(v, o, s), {o, v.loadout[s]} \ {Nobody})
<1> DEFINE from == Min(SlotsHolding(v, v.heap[o].guid))
           old == v.loadout[s]
           taken == RemoveContainerItem(v, o, from, 1)
           stowed == IF old = Nobody THEN taken
                     ELSE LootContainerItem(RemoveLoadoutItem(taken, s), old, 1)
           w == EquipItem(stowed, o, s)
           guid == v.heap[o].guid
           touched == {o, v.loadout[s]} \ {Nobody}
<1>0. /\ guid # 0 /\ from \in SlotsHolding(v, guid) /\ from \in Slots
      /\ 1 \in 1 .. MaxCount /\ 1 \in Nat \ {0} /\ 2 \in Nat /\ 0 \in Nat
      /\ 2 + 0 = 2 /\ 1 <= 2 /\ 1 + 1 = 2 /\ v \in Inventories
      /\ 1 \in 0 .. MaxCount
  BY CarriedIs, Numbers DEF Sound
<1>1. /\ v.heap[o].count = 1 /\ 1 <= v.heap[o].count /\ Fair({}, s, 1)
      /\ o \in touched
  <2>1. Fair({}, v.heap[o].kind, v.heap[o].count)
    BY <1>0, CountType DEF guid
  <2> QED BY <2>1, FairIs, Numbers
<1>n. ~(old # Nobody /\ v.heap[old].guid = guid)
  <2> SUFFICES ASSUME old # Nobody, v.heap[old].guid = guid PROVE FALSE
    OBVIOUS
  <2>1. old \in Objects /\ old \in Worn(v)
    BY <1>0, InUse, WornMeans, Numbers
  <2>2. old \in Live(v) /\ o \in Live(v) /\ old # o
    BY <2>1, LiveMeans
  <2> QED BY <2>2 DEF Unique
<1> HIDE DEF from, guid
<1>2. Step({}, v, taken, 0) /\ Leaves(v, taken, o, 1)
  BY <1>0, <1>1, RemoveContainerItemStep, RemovedFromContainer DEF guid
<1>3. taken.loadout = v.loadout /\ taken.containers[s] = <<>>
  <2>1. s # from
    BY <1>0 DEF SlotsHolding, Positions
  <2> QED BY <1>0, <2>1, LeftAlone
<1> HIDE DEF taken
<1>4. /\ Sound({}, taken) /\ Room(taken, 2) /\ Room(taken, 1)
      /\ Unique(taken) /\ Alone(taken, guid)
  <2>1. Sound({}, taken) /\ Room(taken, 2)
    BY <1>0, <1>2, StepLeaves
  <2>2. Room(taken, 1)
    BY <1>0, <2>1, RoomForLess
  <2> QED BY <1>0, <1>1, <1>2, <2>1, <2>2, LeavesThen DEF guid
<1>5. Step({}, v, stowed, 1)
  <2>1. CASE old = Nobody
    BY <1>0, <1>2, <2>1, StepWider, 0 <= 1
  <2>2. CASE old # Nobody
    <3> DEFINE removed == RemoveLoadoutItem(taken, s)
    <3>1. Step({}, taken, removed, 0) /\ old \in Objects /\ v.heap[old].guid # 0
      BY <1>4, <2>2, RemoveLoadoutItemStep, InUse, Numbers
    <3> HIDE DEF removed, old
    <3>2. Sound({}, removed) /\ Room(removed, 1) /\ removed.heap[old].guid # 0
      <4>1. taken.heap[old].guid # 0
        BY <1>2, <3>1 DEF Step, Kept
      <4> QED BY <1>0, <1>4, <3>1, <4>1, StepLeaves, 1 + 0 = 1 DEF Kept
    <3>3. Step({}, removed, LootContainerItem(removed, old, 1), 1)
      <4>1. removed.heap[old].kind = s
        <5>1. v.heap[old].kind = s /\ taken.heap[old].guid # 0 /\ taken.heap[old].kind = v.heap[old].kind
          BY <1>2, <2>2, <3>1, InUse, Numbers DEF Step, Kept, old
        <5> QED BY <3>1, <5>1 DEF Step, Kept
      <4> QED BY <1>0, <1>1, <3>1, <3>2, <4>1, LootContainerItemStep
    <3>4. Step({}, v, removed, 0)
      BY <1>0, <1>2, <3>1, StepsTo, 0 + 0 <= 0
    <3>5. stowed = LootContainerItem(removed, old, 1)
      BY <2>2 DEF removed
    <3> HIDE DEF stowed
    <3> QED BY <1>0, <3>3, <3>4, <3>5, StepsTo, 0 + 1 <= 1
  <2> QED BY <2>1, <2>2
<1>6. /\ Unique(stowed) /\ Alone(stowed, guid) /\ stowed.loadout[s] = 0
      /\ Gains(taken, stowed, s, 0) /\ Holds(taken, stowed, touched)
  <2>1. CASE old = Nobody
    <3>1. Still(taken, taken)
      BY DEF Still
    <3> QED BY <1>3, <1>4, <2>1, <3>1, Numbers, StillGains
  <2>2. CASE old # Nobody
    <3>1. taken.loadout[s] = old /\ taken.loadout[s] # 0
      BY <1>3, <2>2, Numbers
    <3>2. stowed = LootContainerItem(RemoveLoadoutItem(taken, s), taken.loadout[s], 1)
      BY <2>2, <3>1
    <3> HIDE DEF stowed
    <3>3. /\ Unique(stowed) /\ Alone(stowed, guid) /\ stowed.loadout[s] = 0
          /\ Gains(taken, stowed, s, 0) /\ Holds(taken, stowed, {old})
      BY <1>3, <1>4, <3>1, <3>2, TakenOff
    <3>4. old \in touched
      BY <2>2
    <3> QED BY <3>3, <3>4 DEF Holds
  <2> QED BY <2>1, <2>2
<1> HIDE DEF stowed, touched
<1>7. /\ Sound({}, stowed) /\ stowed.heap[o].guid = guid /\ stowed.heap[o].kind = s
      /\ FreeObjects(stowed) # {}
  <2>1. Sound({}, stowed) /\ Kept(v, stowed) /\ Room(stowed, 1)
    BY <1>0, <1>5, StepLeaves
  <2>2. FreeObjects(stowed) # {}
    BY <1>0, <2>1, RoomMeans DEF Sound
  <2> QED BY <1>0, <2>1, <2>2 DEF Kept, guid
<1>8. Enters(stowed, w, guid, s, 1) /\ Sound({}, w)
  <2> DEFINE n == NewObject(stowed)
  <2>1. /\ Arrives(stowed, w, n) /\ w.heap[n].guid = guid /\ w.heap[n].kind = s
        /\ w.heap[n].count = 1
    BY <1>6, <1>7, EquipItemArrives
  <2>2. n \in Objects
    BY <1>7, NewObjectIs DEF Sound
  <2>3. Sound({}, w)
    BY <1>0, <1>7, EquipItemStep DEF Step
  <2> HIDE DEF w, n
  <2> QED BY <2>1, <2>2, <2>3 DEF Enters
<1>9. EquipContainerItem(v, o, s) = w
  BY <1>n DEF EquipContainerItem, stowed, taken, from, guid
<1> HIDE DEF w
<1>10. Unique(w) /\ Gains(stowed, w, s, 1) /\ \A X : Holds(stowed, w, X)
  BY <1>0, <1>6, <1>7, <1>8, EntersThen
<1>11. Gains(taken, w, s, 1) /\ Holds(taken, w, touched)
  BY <1>0, <1>4, <1>6, <1>7, <1>8, <1>10, GainsAfter
<1>12. Even(v, w, touched)
  BY <1>0, <1>1, <1>2, <1>4, <1>8, <1>11, Swapped
<1> QED BY <1>9, <1>10, <1>12 DEF touched

\* addContainerItem of an item that is nowhere.
LEMMA AddContainerItemEnters ==
    ASSUME NEW v, Sound({}, v), FreeObjects(v) # {}, NEW o \in Objects, NEW s \in Slots,
           NEW count \in 1 .. MaxCount, Alone(v, v.heap[o].guid)
    PROVE  Enters(v, AddContainerItem(v, o, s, count), v.heap[o].guid, v.heap[o].kind, count)
<1> DEFINE w == AddContainerItem(v, o, s, count)
           n == NewObject(v)
<1>0. v \in Inventories /\ count \in 0 .. MaxCount /\ n \in Objects
  BY NewObjectIs, Numbers DEF Sound
<1>1. \A i \in DOMAIN v.containers[s] : v.heap[v.containers[s][i]].guid # v.heap[o].guid
  BY <1>0, HeldMeans DEF Alone, Live
<1>2. /\ Arrives(v, w, n) /\ w.heap[n].guid = v.heap[o].guid
      /\ w.heap[n].kind = v.heap[o].kind /\ w.heap[n].count = count
  BY <1>0, <1>1, AddContainerItemArrives
<1> HIDE DEF w, n
<1>3. Enters(v, w, v.heap[o].guid, v.heap[o].kind, count)
  BY <1>0, <1>2 DEF Enters
<1> QED BY <1>3 DEF w

\* containerMoveItem to the end.
LEMMA MoveToEndTidy ==
    ASSUME NEW v, Sound({}, v), Unique(v), Room(v, 2), NEW o \in Objects, o \in Held(v),
           NEW from \in SlotsHolding(v, v.heap[o].guid), NEW to \in v.open,
           NEW count \in 1 .. MaxCount, count <= v.heap[o].count
    PROVE  /\ Unique(MoveToEnd(v, o, from, to, count))
           /\ Even(v, MoveToEnd(v, o, from, to, count), {o})
<1> DEFINE removed == RemoveContainerItem(v, o, from, count)
           kind == v.heap[o].kind
           w == MoveToEnd(v, o, from, to, count)
<1>0. /\ v.heap[o].guid # 0 /\ 0 \in Nat /\ 1 \in Nat \ {0} /\ 2 \in Nat \ {0} /\ 2 + 0 = 2
      /\ 1 + 1 = 2 /\ 1 \in 1 .. MaxCount
      /\ count \in Nat /\ v.heap[o].count \in Nat /\ kind \in Kinds /\ to \in Slots
      /\ kind \in Bags => v.heap[o].count = 1
      /\ count \in 0 .. MaxCount /\ Said({}, v.heap[o].count, count)
  <2>1. /\ v.heap[o].guid # 0 /\ v.heap[o].count \in Nat /\ count \in 1 .. v.heap[o].count
        /\ kind \in Kinds /\ to \in Slots
    BY CarriedIs, CountType, Fields, Numbers DEF Sound
  <2>2. Fair({}, kind, v.heap[o].count)
    BY <2>1, CountType
  <2> QED BY <2>1, <2>2, FairIs, Numbers DEF Said
<1>1. Step({}, v, removed, 0) /\ Leaves(v, removed, o, count) /\ Sound({}, w)
  BY <1>0, RemoveContainerItemStep, RemovedFromContainer, MoveToEndStep DEF Step
<1> HIDE DEF removed
<1>2. /\ Sound({}, removed) /\ Unique(removed) /\ Room(removed, 2) /\ FreeObjects(removed) # {}
      /\ removed.heap[o].guid = v.heap[o].guid /\ removed.heap[o].kind = kind
      /\ count = v.heap[o].count => Alone(removed, v.heap[o].guid)
  <2>1. Sound({}, removed) /\ Kept(v, removed) /\ Room(removed, 2)
    BY <1>0, <1>1, StepLeaves
  <2>2. FreeObjects(removed) # {}
    BY <1>0, <2>1, RoomMeans DEF Sound
  <2>3. Unique(removed) /\ (count = v.heap[o].count => Alone(removed, v.heap[o].guid))
    BY <1>0, <1>1, <2>1, LeavesThen
  <2> QED BY <1>0, <2>1, <2>2, <2>3 DEF Kept
<1>3. CASE v.heap[o].count = count
  <2>1. w = AddContainerItem(removed, o, to, count)
    BY <1>3 DEF MoveToEnd, PutMoved, removed
  <2> HIDE DEF w
  <2>2. Enters(removed, w, v.heap[o].guid, kind, count)
    BY <1>0, <1>2, <1>3, <2>1, AddContainerItemEnters
  <2>3. Unique(w) /\ Gains(removed, w, kind, count) /\ \A X : Holds(removed, w, X)
    BY <1>0, <1>1, <1>2, <1>3, <2>2, EntersThen DEF w
  <2>4. Even(v, w, {o})
    BY <1>0, <1>1, <1>2, <2>3, Swapped DEF w
  <2> QED BY <2>3, <2>4 DEF w
<1>4. CASE v.heap[o].count # count
  <2> DEFINE generated == GenerateItem(removed, kind, 1)
             n == NewObject(removed)
  <2>1. w = AddContainerItem(generated, n, to, count)
    BY <1>2, <1>4 DEF MoveToEnd, PutMoved, removed
  <2> HIDE DEF w
  <2>2. /\ Sound({}, generated) /\ Unique(generated) /\ Alone(generated, generated.heap[n].guid)
        /\ n \in Objects /\ generated.heap[n].kind = kind
        /\ Gains(removed, generated, kind, 0) /\ \A X : Holds(removed, generated, X)
    BY <1>0, <1>2, Generated
  <2>3. FreeObjects(generated) # {}
    <3>1. Step({}, removed, generated, 1)
      BY <1>0, <1>2, Generated
    <3>2. Room(generated, 1)
      BY <1>0, <1>2, <3>1, StepLeaves
    <3> QED BY <1>0, <2>2, <3>2, RoomMeans DEF Sound
  <2> HIDE DEF generated, n
  <2>4. Enters(generated, w, generated.heap[n].guid, kind, count)
    BY <1>0, <2>1, <2>2, <2>3, AddContainerItemEnters
  <2>5. Unique(w) /\ Gains(generated, w, kind, count) /\ \A X : Holds(generated, w, X)
    BY <1>0, <1>1, <2>2, <2>4, EntersThen DEF w
  <2>6. Gains(removed, w, kind, count) /\ \A X : Holds(removed, w, X)
    BY <1>0, <1>1, <1>2, <2>2, <2>5, GainsAfter DEF w
  <2>7. Even(v, w, {o})
    BY <1>0, <1>1, <1>2, <2>6, Swapped DEF w
  <2> QED BY <2>5, <2>7 DEF w
<1> QED BY <1>3, <1>4

\* containerMoveItem onto the item at a slot.
LEMMA MoveOntoTidy ==
    ASSUME NEW v, Sound({}, v), Unique(v), Room(v, 2), NEW o \in Objects, o \in Held(v),
           NEW from \in SlotsHolding(v, v.heap[o].guid), NEW to \in v.open, NEW i,
           NEW count \in 1 .. MaxCount, count <= v.heap[o].count
    PROVE  /\ Unique(MoveOnto(v, o, from, to, i, count))
           /\ Even(v, MoveOnto(v, o, from, to, i, count), {o})
<1> DEFINE removed == RemoveContainerItem(v, o, from, count)
           kind == v.heap[o].kind
           w == MoveOnto(v, o, from, to, i, count)
<1>0. /\ v.heap[o].guid # 0 /\ count \in 0 .. MaxCount /\ count \in Nat
      /\ kind \in Kinds /\ to \in Slots /\ Said({}, v.heap[o].count, count)
  <2>1. v.heap[o].count \in Nat
    BY CountType
  <2> QED BY <2>1, CarriedIs, CountType, Fields, Numbers DEF Sound, Said
<1>1. CASE i \in Stacks(removed, to, kind, count)
  <2> DEFINE x == removed.containers[to][i]
  <2>1. /\ Sound({}, removed) /\ Leaves(v, removed, o, count)
        /\ Sound({}, w) /\ w = AddToStack(removed, to, i, count)
    BY <1>0, <1>1, RemoveContainerItemStep, RemovedFromContainer, MoveOntoStep DEF Step, MoveOnto
  <2> HIDE DEF removed
  <2>2. /\ Counts(removed, w, x, removed.heap[x].count + count)
        /\ x \in Held(removed) /\ removed.heap[x].kind = kind
    BY <1>0, <1>1, <2>1, AddToStackCounts
  <2> HIDE DEF w, x
  <2>3. Unique(removed) /\ Alone(removed, 0)
    <3>1. Unique(removed)
      BY <1>0, <2>1, LeavesThen
    <3> QED BY <2>1, <3>1, InUse DEF Alone
  <2>4. Enters(removed, w, 0, kind, count)
    <3>1. x \in Objects
      BY <2>2 DEF Counts
    <3> QED BY <2>2, <3>1 DEF Enters
  <2>5. Unique(w) /\ Gains(removed, w, kind, count) /\ \A X : Holds(removed, w, X)
    BY <1>0, <2>1, <2>3, <2>4, EntersThen
  <2>6. Even(v, w, {o})
    BY <1>0, <2>1, <2>5, Swapped
  <2> QED BY <2>5, <2>6 DEF w
<1>2. CASE i \notin Stacks(removed, to, kind, count)
  <2>1. w = MoveToEnd(v, o, from, to, count)
    BY <1>2 DEF MoveOnto, MoveToEnd
  <2> QED BY <2>1, MoveToEndTidy
<1> QED BY <1>1, <1>2

\* A worn bag goes to a container.
LEMMA StowTidy ==
    ASSUME NEW v, Sound({}, v), Unique(v), Room(v, 1), NEW s \in Slots, v.loadout[s] # 0,
           NEW to \in v.open
    PROVE  LET w == StowWorn(v, s, to, 1) IN
           /\ Unique(w)
           /\ v.containers[s] = <<>> /\ to # s => Even(v, w, {v.loadout[s]})
<1> DEFINE removed == RemoveLoadoutItem(v, s)
           old == v.loadout[s]
           w == StowWorn(v, s, to, 1)
<1>0. /\ old \in Objects /\ v.heap[old].kind = s /\ v.heap[old].guid # 0
      /\ 1 \in 1 .. MaxCount /\ 1 \in Nat \ {0} /\ 0 \in Nat /\ 1 + 0 = 1 /\ to \in Slots
      /\ 1 \in 0 .. MaxCount /\ Said({}, v.heap[old].count, 1)
  BY InUse, Fields, Numbers DEF Said
<1>1. /\ Step({}, v, removed, 0) /\ Fades(v, removed) /\ Alone(removed, v.heap[old].guid)
      /\ v.containers[s] = <<>> => Leaves(v, removed, old, 1)
      /\ removed.heap = v.heap
  BY RemoveLoadoutItemStep, RemovedFromLoadout
<1> HIDE DEF removed, old
<1>2. Sound({}, removed) /\ FreeObjects(removed) # {} /\ Unique(removed)
  <2>1. Sound({}, removed) /\ Room(removed, 1)
    BY <1>0, <1>1, StepLeaves
  <2>2. FreeObjects(removed) # {}
    BY <1>0, <2>1, RoomMeans DEF Sound
  <2> QED BY <1>1, <2>1, <2>2, FadesUnique
<1>3. CASE to = s
  <2>1. w = removed
    BY <1>3 DEF StowWorn, removed
  <2> QED BY <1>2, <1>3, <2>1
<1>4. CASE to # s
  <2>1. w = AddContainerItem(removed, old, to, 1)
    BY <1>4 DEF StowWorn, removed, old
  <2>2. Sound({}, w)
    BY <1>0, StowWornStep, Numbers DEF Step, old
  <2> HIDE DEF w
  <2>3. Enters(removed, w, v.heap[old].guid, s, 1)
    BY <1>0, <1>1, <1>2, <2>1, AddContainerItemEnters
  <2>4. Unique(w) /\ Gains(removed, w, s, 1) /\ \A X : Holds(removed, w, X)
    BY <1>0, <1>1, <1>2, <2>2, <2>3, EntersThen
  <2>5. v.containers[s] = <<>> => Even(v, w, {old})
    BY <1>0, <1>1, <1>2, <2>2, <2>4, Swapped
  <2> QED BY <2>4, <2>5 DEF w, old
<1> QED BY <1>3, <1>4

\* An item that is carried, and no bag with something in it.
Spare(v, o) ==
    /\ o \in Carried(v)
    /\ \A s \in Slots : v.loadout[s] = o => v.containers[s] = <<>>

\* There is one less of a kind, and more of another.
Turns(v, w, from, to, count) ==
    \A k \in Kinds : Amount(w, k) = Amount(v, k)
        + (IF k = from THEN 0 - 1 ELSE 0) + (IF k = to THEN count ELSE 0)

\* What is left after a use comes with a guid of its own, and is there instead
\* of what was used up.
LEMMA UseTidy ==
    ASSUME NEW v, Sound({}, v), Unique(v), Room(v, 2), NEW o \in Objects, v.heap[o].guid # 0,
           NEW kind \in Kinds, kind \notin Bags, NEW count \in 1 .. MaxCount, NEW w,
           LET removed == RemoveInventoryItem(v, o, 1)
               generated == GenerateItem(removed, kind, count)
               n == NewObject(removed)
           IN  w = LootContainerItem(generated, n, count) \/ w = LootItem(generated, n)
    PROVE  /\ Unique(w)
           /\ Spare(v, o) => Turns(v, w, v.heap[o].kind, kind, count)
<1> DEFINE removed == RemoveInventoryItem(v, o, 1)
           generated == GenerateItem(removed, kind, count)
           n == NewObject(removed)
<1>0. /\ 0 \in Nat /\ 1 \in Nat \ {0} /\ 2 \in Nat \ {0} /\ 2 + 0 = 2 /\ 1 + 1 = 2
      /\ 1 \in 1 .. MaxCount /\ 1 <= v.heap[o].count /\ v \in Inventories /\ count \in Nat
      /\ 1 \in Nat /\ 1 \in 0 .. MaxCount
  <2>1. Fair({}, v.heap[o].kind, v.heap[o].count) /\ v.heap[o].count \in Nat
    BY CountType
  <2> QED BY <2>1, FairIs, Numbers DEF Sound
<1>1. Step({}, v, removed, 0) /\ Fades(v, removed) /\ (Spare(v, o) => Leaves(v, removed, o, 1))
  BY <1>0, RemoveInventoryItemStep, RemovedFromInventory DEF Spare, Carried
<1> HIDE DEF removed
<1>2. Sound({}, removed) /\ Unique(removed) /\ Room(removed, 2) /\ FreeObjects(removed) # {}
  <2>1. Sound({}, removed) /\ Room(removed, 2)
    BY <1>0, <1>1, StepLeaves
  <2>2. Unique(removed)
    BY <1>1, <2>1, FadesUnique
  <2> QED BY <1>0, <2>1, <2>2, RoomMeans DEF Sound
<1>3. /\ Step({}, removed, generated, 1)
      /\ Sound({}, generated) /\ Unique(generated) /\ Alone(generated, generated.heap[n].guid)
      /\ n \in Objects /\ generated.heap[n].guid # 0
      /\ generated.heap[n].kind = kind /\ generated.heap[n].count = count
      /\ Gains(removed, generated, kind, 0) /\ \A X : Holds(removed, generated, X)
  BY <1>2, Generated
<1>4. Room(generated, 1)
  <2> HIDE DEF generated
  <2> QED BY <1>0, <1>2, <1>3, StepLeaves
<1>5. w = LootContainerItem(generated, n, count)
  <2>1. w = LootContainerItem(generated, n, count) \/ w = LootItem(generated, n)
    BY DEF removed
  <2> HIDE DEF generated, n
  <2>2. LootItem(generated, n) = LootContainerItem(generated, n, count)
    BY <1>3 DEF LootItem
  <2> QED BY <2>1, <2>2
<1> HIDE DEF generated, n
<1>6. Enters(generated, w, generated.heap[n].guid, kind, count) /\ Sound({}, w)
  <2>1. \A p \in Held(generated) : generated.heap[p].guid # generated.heap[n].guid
    BY <1>3 DEF Alone, Live
  <2>2. Step({}, generated, LootContainerItem(generated, n, count), 1)
    <3>1. count \in 0 .. MaxCount /\ Fair({}, kind, count)
      BY FairIs, Numbers
    <3> QED BY <1>3, <1>4, <3>1, LootContainerItemStep
  <2>3. Enters(generated, LootContainerItem(generated, n, count), generated.heap[n].guid,
               generated.heap[n].kind, count)
    BY <1>3, <1>4, <2>1, LootContainerItemEnters
  <2> QED BY <1>3, <1>5, <2>2, <2>3 DEF Step
<1>7. Unique(w) /\ Gains(generated, w, kind, count) /\ \A X : Holds(generated, w, X)
  BY <1>0, <1>3, <1>6, EntersThen
<1>8. Gains(removed, w, kind, count)
  <2>1. Holds(removed, generated, {}) /\ Holds(generated, w, {})
    BY <1>3, <1>7
  <2> QED BY <1>0, <1>2, <1>3, <1>6, <1>7, <2>1, GainsAfter
<1>9. ASSUME Spare(v, o), NEW k \in Kinds
      PROVE  Amount(w, k) = Amount(v, k)
                + (IF k = v.heap[o].kind THEN 0 - 1 ELSE 0) + (IF k = kind THEN count ELSE 0)
  <2>1. Gains(v, removed, v.heap[o].kind, 0 - 1)
    BY <1>0, <1>1, <1>2, <1>9, LeavesThen
  <2> QED BY <1>8, <2>1 DEF Gains
<1> QED BY <1>7, <1>9 DEF Turns

\* pickupItem: off the ground, and where it was put.
LEMMA PickUpTidy ==
    ASSUME Sound({}, inv), Unique(inv), NEW o \in Objects, o \in Lying(inv), Roomy3
    PROVE  LET w == [LootItem(inv, o) EXCEPT !.ground[o] = @ - 1] IN
           Unique(w) /\ Even(inv, w, {o})
<1> DEFINE looted == LootItem(inv, o)
           w == [looted EXCEPT !.ground[o] = @ - 1]
           g == [inv.ground EXCEPT ![o] = 0]
           lifted == [inv EXCEPT !.ground = g]
           guid == inv.heap[o].guid
           kind == inv.heap[o].kind
           count == inv.heap[o].count
<1>0. /\ Sound({}, inv) /\ inv \in Inventories /\ guid # 0 /\ Room(inv, 1)
      /\ inv.ground \in [Objects -> Nat] /\ count \in Nat
      /\ o \in Live(inv)
  BY CarriedIs, CountType, RoomForAll, Fields DEF Sound, Live
<1>1. inv.ground[o] = 1 /\ o \notin Held(inv) /\ o \notin Worn(inv)
  BY <1>0 DEF Lying, Unique
<1>2. /\ lifted \in Inventories /\ lifted.ground = g /\ lifted.heap = inv.heap
      /\ lifted.loadout = inv.loadout /\ lifted.open = inv.open
      /\ lifted.containers = inv.containers
  <2>1. g \in [Objects -> Nat]
    BY <1>0
  <2> HIDE DEF g
  <2> QED BY <1>0, <2>1, GroundSet
<1> HIDE DEF lifted
<1>3. lifted.ground[o] = 0 /\ \A p \in Objects \ {o} : lifted.ground[p] = inv.ground[p]
  BY <1>0, <1>2
<1>4. Sound({}, lifted)
  <2>1. \A p \in Objects :
          /\ inv.heap[p].guid # 0 => Fair({}, inv.heap[p].kind, inv.heap[p].count)
          /\ lifted.ground[p] > 0 => inv.heap[p].guid # 0
    BY <1>0, <1>3 DEF Sound, Proper, Named
  <2>2. Step({}, inv, lifted, 0)
    BY <1>0, <1>2, <2>1, SameShapeStep
  <2> QED BY <2>2 DEF Step
<1>5. Held(lifted) = Held(inv) /\ Worn(lifted) = Worn(inv)
  BY <1>0, <1>2, SamePlaces
<1>6. Leaves(inv, lifted, o, count)
  <2>1. o \notin Live(lifted)
    BY <1>1, <1>3, <1>4, <1>5, LiveMeans
  <2>2. Departs(inv, lifted, o)
    BY <1>0, <1>2, <1>3, <1>5, <2>1 DEF Departs, Same
  <2> QED BY <1>0, <2>2 DEF Leaves
<1>7. Unique(lifted) /\ Alone(lifted, guid) /\ Fades(inv, lifted)
  <2>1. Fades(inv, lifted)
    BY <1>0, <1>4, <1>6, EffectsFade DEF Leaves
  <2>2. Unique(lifted)
    BY <1>0, <1>4, <1>6, LeavesThen
  <2>3. Alone(lifted, guid)
    BY <1>0, <1>4, <1>6, LeavesThen
  <2> QED BY <2>1, <2>2, <2>3
<1>8. Enters(inv, looted, guid, kind, count) /\ looted \in Inventories
  <2>1. \A p \in Held(inv) : inv.heap[p].guid # inv.heap[o].guid
    BY <1>0, <1>1 DEF Unique, Live
  <2>2. Step({}, inv, looted, 1)
    BY <1>0, LootItemStep
  <2> QED BY <1>0, <2>1, <2>2, LootItemEnters DEF Step, Sound
<1>9. w \in Inventories /\ Sound({}, w)
  BY PickUpStep DEF Step, Sound
<1> HIDE DEF looted
<1>10. /\ w.heap = looted.heap /\ w.loadout = looted.loadout
       /\ w.containers = looted.containers
       /\ w.ground[o] = looted.ground[o] - 1
       /\ \A p \in Objects \ {o} : w.ground[p] = looted.ground[p]
  <2>1. looted.ground \in [Objects -> Nat]
    BY <1>8, Fields
  <2> QED BY <1>8, <2>1 DEF Inventories
<1> HIDE DEF w
<1>11. Held(w) = Held(looted) /\ Worn(w) = Worn(looted)
  BY <1>8, <1>9, <1>10, SamePlaces
<1>12. Enters(lifted, w, guid, kind, count)
  <2>0. Live(lifted) \subseteq Live(inv)
    BY <1>0, <1>4, <1>7, FadesUnique
  <2>1. ASSUME NEW x \in Objects, Falls(inv, looted, x)
        PROVE  Falls(lifted, w, x)
    <3>1. w.ground[x] = lifted.ground[x] + 1
      BY <1>1, <1>3, <1>10, <2>1 DEF Falls
    <3>2. x # o => Same(lifted, w, o)
      BY <1>1, <1>2, <1>3, <1>5, <1>10, <1>11, <2>1 DEF Falls, Same
    <3>3. \A p \in Objects \ {x} : Same(lifted, w, p)
      BY <1>2, <1>3, <1>5, <1>10, <1>11, <2>1, <3>2 DEF Falls, Same
    <3> QED BY <1>2, <1>5, <1>10, <1>11, <2>1, <3>1, <3>3 DEF Falls
  <2>2. ASSUME NEW x \in Objects, Arrives(inv, looted, x)
        PROVE  Arrives(lifted, w, x)
    <3>1. x # o
      BY <1>0, <2>2 DEF Arrives
    <3>2. Same(lifted, w, o)
      BY <1>1, <1>2, <1>3, <1>5, <1>10, <1>11, <2>2, <3>1 DEF Arrives, Same
    <3>3. \A p \in Objects \ {x} : Same(lifted, w, p)
      BY <1>2, <1>3, <1>5, <1>10, <1>11, <2>2, <3>2 DEF Arrives, Same
    <3> QED BY <1>10, <1>11, <2>0, <2>2, <3>1, <3>3 DEF Arrives
  <2>3. ASSUME NEW x \in Objects, x \in Held(inv), Counts(inv, looted, x, inv.heap[x].count + count)
        PROVE  x \in Held(lifted) /\ Counts(lifted, w, x, lifted.heap[x].count + count)
    <3>1. x # o
      BY <1>1, <2>3
    <3>2. Same(lifted, w, o)
      BY <1>1, <1>2, <1>3, <1>5, <1>10, <1>11, <2>3, <3>1 DEF Counts, Same
    <3>3. \A p \in Objects \ {x} : Same(lifted, w, p)
      BY <1>2, <1>3, <1>5, <1>10, <1>11, <2>3, <3>2 DEF Counts, Same
    <3> QED BY <1>2, <1>3, <1>5, <1>10, <1>11, <2>3, <3>1, <3>3 DEF Counts
  <2> QED BY <1>2, <1>8, <1>10, <2>1, <2>2, <2>3 DEF Enters
<1>13. Unique(w) /\ Gains(lifted, w, kind, count) /\ \A X : Holds(lifted, w, X)
  BY <1>0, <1>4, <1>7, <1>9, <1>12, EntersThen
<1>14. Even(inv, w, {o})
  BY <1>0, <1>4, <1>6, <1>9, <1>13, Swapped
<1> QED BY <1>13, <1>14 DEF w, looted

\* The lapses that lose a bag.
Losses == {"full bag", "own slot"}

\* What a request does that counts as many as there are, and what it does to
\* items that are in one place each.
Orderly(touched, careless, w) ==
    /\ Done(w, touched, careless)
    /\ "miscount" \notin lapses \cup careless =>
          /\ Sound({}, w) /\ Kept(inv, w)
          /\ Unique(inv) /\ "split" \notin careless =>
                /\ Unique(w)
                /\ Losses \cap careless = {} => Even(inv, w, touched)

\* pickupItem
LEMMA PickUpOrderly ==
    ASSUME IInv, NEW o \in Objects, PickUp(o)
    PROVE  \E touched, careless, w : Orderly(touched, careless, w)
<1> DEFINE w == [LootItem(inv, o) EXCEPT !.ground[o] = @ - 1]
<1>1. o \in Lying(inv) /\ Roomy3 /\ Done(w, {o}, {})
  BY DEF PickUp
<1>2. ASSUME "miscount" \notin lapses
      PROVE  Sound({}, w) /\ Kept(inv, w) /\ (Unique(inv) => Unique(w) /\ Even(inv, w, {o}))
  <2>1. Sound({}, inv)
    BY <1>2, SoundWithout DEF IInv
  <2> QED BY <1>1, <2>1, PickUpStep, PickUpTidy DEF Step
<1> HIDE DEF w
<1>3. Orderly({o}, {}, w)
  BY <1>1, <1>2 DEF Orderly
<1> QED BY <1>3

\* Equip
LEMMA EquipOrderly ==
    ASSUME IInv, NEW o \in Objects, Equip(o)
    PROVE  \E touched, careless, w : Orderly(touched, careless, w)
<1> DEFINE s == inv.heap[o].kind
           w == EquipContainerItem(inv, o, s)
           touched == {o, inv.loadout[s]} \ {Nobody}
<1>1. /\ o \in Held(inv) /\ s \in Slots /\ inv.heap[o].count > 0 /\ inv.containers[s] = <<>>
      /\ Roomy3 /\ Done(w, touched, {})
  BY Numbers DEF Equip, FirstHeld, Full
<1>2. ASSUME "miscount" \notin lapses
      PROVE  Sound({}, w) /\ Kept(inv, w) /\ (Unique(inv) => Unique(w) /\ Even(inv, w, touched))
  <2>1. Sound({}, inv)
    BY <1>2, SoundWithout DEF IInv
  <2>2. Step({}, inv, w, 2)
    <3> HIDE DEF touched
    <3> QED BY <1>1, <2>1, CarriedIs, RoomForAll, EquipContainerItemStep
  <2>3. Unique(inv) => Unique(w) /\ Even(inv, w, touched)
    BY <1>1, <2>1, RoomForAll, EquipTidy
  <2> QED BY <2>2, <2>3 DEF Step
<1> HIDE DEF w, touched
<1>3. Orderly(touched, {}, w)
  BY <1>1, <1>2 DEF Orderly
<1> QED BY <1>3

\* A request that is said not to be a miscount counts as many as there are.
LEMMA WellSaid ==
    ASSUME NEW o, NEW count, NEW C, "miscount" \notin Miscount(o, count) \cup C
    PROVE  count \in 1 .. inv.heap[o].count
BY DEF Miscount

\* Drop
LEMMA DropOrderly ==
    ASSUME IInv, NEW o \in Objects, NEW count \in 0 .. MaxCount, Drop(o, count)
    PROVE  \E touched, careless, w : Orderly(touched, careless, w)
<1> DEFINE w == DropItem(inv, o, count)
           A == count < inv.heap[o].count /\ 2 * count >= inv.heap[o].count
           careless == Miscount(o, count) \cup (IF A THEN {"split"} ELSE {})
<1>1. /\ o \in Carried(inv) /\ Roomy3 /\ Done(w, {o}, careless)
      /\ \A s \in Slots : inv.loadout[s] = o => inv.containers[s] = <<>>
  BY DEF Drop, Found, FirstHeld, Carried, FullBag, Full
<1>2. ASSUME "miscount" \notin lapses \cup careless
      PROVE  /\ Sound({}, w) /\ Kept(inv, w)
             /\ Unique(inv) /\ ~A => Unique(w) /\ Even(inv, w, {o})
  <2>1. Sound({}, inv)
    BY <1>2, SoundWithout DEF IInv
  <2>2. /\ inv.heap[o].guid # 0 /\ Room(inv, 1)
        /\ o \in Held(inv) \/ o \in Worn(inv)
    BY <1>1, <2>1, CarriedIs, RoomForAll DEF Carried
  <2>3. /\ count \in 1 .. inv.heap[o].count /\ inv.heap[o].count \in Nat
        /\ count \in 1 .. MaxCount /\ count <= inv.heap[o].count
    <3>1. count \in 1 .. inv.heap[o].count
      BY <1>2, WellSaid
    <3> QED BY <2>1, <3>1, CountType, Numbers
  <2>4. Step({}, inv, w, 1)
    BY <2>1, <2>2, <2>3, DropItemStep DEF Said
  <2>5. ~A => count = inv.heap[o].count \/ 2 * count < inv.heap[o].count
    BY <2>3
  <2> HIDE DEF careless, A
  <2>6. Unique(inv) /\ ~A => Unique(w) /\ Even(inv, w, {o})
    BY <1>1, <2>1, <2>2, <2>3, <2>5, DropTidy
  <2> QED BY <2>4, <2>6 DEF Step
<1>3. A => "split" \in careless
  OBVIOUS
<1> HIDE DEF w, careless, A
<1>4. Orderly({o}, careless, w)
  BY <1>1, <1>2, <1>3 DEF Orderly
<1> QED BY <1>4

\* containerMoveItem between containers
LEMMA MoveOrderly ==
    ASSUME IInv, NEW o \in Objects, NEW count \in 0 .. MaxCount, NEW to \in Slots,
           Move(o, to, count)
    PROVE  \E touched, careless, w : Orderly(touched, careless, w)
<1> DEFINE from == Min(SlotsHolding(inv, inv.heap[o].guid))
           A == from # to /\ ~HasSpace(inv, to, inv.heap[o].kind, count)
           careless == Miscount(o, count) \cup (IF A THEN {"overfill"} ELSE {})
           end == MoveToEnd(inv, o, from, to, count)
           onto(i) == MoveOnto(inv, o, from, to, i, count)
           Neat(w) == /\ Sound({}, w) /\ Kept(inv, w)
                      /\ Unique(inv) => Unique(w) /\ Even(inv, w, {o})
<1>1. /\ o \in Held(inv) /\ Open(to) /\ to \in inv.open /\ count <= inv.heap[o].count /\ Roomy3
      /\ Done(end, {o}, careless) \/ \E i : Done(onto(i), {o}, careless)
  BY DEF Move, Open, FirstHeld
<1>2. ASSUME "miscount" \notin lapses \cup careless
      PROVE  Neat(end) /\ \A i : Neat(onto(i))
  <2>1. Sound({}, inv)
    BY <1>2, SoundWithout DEF IInv
  <2>2. inv.heap[o].guid # 0 /\ Room(inv, 2) /\ from \in SlotsHolding(inv, inv.heap[o].guid)
    BY <1>1, <2>1, CarriedIs, RoomForAll
  <2>3. count \in 1 .. MaxCount /\ Said({}, inv.heap[o].count, count)
    <3>1. count \in 1 .. inv.heap[o].count
      BY <1>2, WellSaid
    <3> QED BY <3>1, Numbers DEF Said
  <2> HIDE DEF careless
  <2>4. Step({}, inv, end, 2) /\ \A i : Step({}, inv, onto(i), 2)
    BY <1>1, <2>1, <2>3, MoveStep
  <2> HIDE DEF from
  <2>5. Unique(inv) => Unique(end) /\ Even(inv, end, {o})
    BY <1>1, <2>1, <2>2, <2>3, MoveToEndTidy
  <2>6. \A i : Unique(inv) => Unique(onto(i)) /\ Even(inv, onto(i), {o})
    BY <1>1, <2>1, <2>2, <2>3, MoveOntoTidy
  <2> QED BY <2>4, <2>5, <2>6 DEF Step
<1> HIDE DEF from, careless, end, onto, A
<1>3. \A w : Done(w, {o}, careless) /\ ("miscount" \notin lapses \cup careless => Neat(w)) =>
         Orderly({o}, careless, w)
  BY DEF Orderly
<1> QED BY <1>1, <1>2, <1>3

\* containerMoveItem from the loadout to a container
LEMMA StowOrderly ==
    ASSUME IInv, NEW s \in Slots, NEW to \in Slots, NEW count \in 0 .. MaxCount, Stow(s, to, count)
    PROVE  \E touched, careless, w : Orderly(touched, careless, w)
<1> DEFINE o == inv.loadout[s]
           w == StowWorn(inv, s, to, count)
           A == Full(s) \/ to = s
           careless == Miscount(o, count) \cup (IF A THEN {"full bag"} ELSE {})
<1>1. o # Nobody /\ to \in inv.open /\ Roomy3 /\ Done(w, {o}, careless)
  BY DEF Stow, OnlyWorn, Open
<1> HIDE DEF A
<1>3. A => Losses \cap careless # {}
  <2> SUFFICES ASSUME A PROVE "full bag" \in Losses /\ "full bag" \in careless
    OBVIOUS
  <2> QED BY DEF Losses
<1>4. "miscount" \notin careless => count \in 1 .. inv.heap[o].count
  <2> HIDE DEF o
  <2> QED BY WellSaid
<1> HIDE DEF careless
<1>5. o # 0
  BY <1>1, Numbers
<1>2. ASSUME "miscount" \notin lapses \cup careless
      PROVE  /\ Sound({}, w) /\ Kept(inv, w)
             /\ Unique(inv) => Unique(w) /\ (~A => Even(inv, w, {o}))
  <2>1. Sound({}, inv)
    BY <1>2, SoundWithout DEF IInv
  <2>2. inv.heap[o].count = 1 /\ Room(inv, 1)
    BY <1>1, <1>5, <2>1, InUse, RoomForAll
  <2>3. count = 1 /\ Said({}, inv.heap[o].count, count)
    <3>1. count \in 1 .. inv.heap[o].count
      BY <1>2, <1>4
    <3> QED BY <2>2, <3>1 DEF Said
  <2>4. Step({}, inv, w, 1)
    BY <1>1, <2>1, <2>2, <2>3, StowWornStep
  <2>5. Unique(inv) => Unique(w) /\ (~A => Even(inv, w, {o}))
    BY <1>1, <1>5, <2>1, <2>2, <2>3, StowTidy DEF A, Full
  <2> QED BY <2>4, <2>5 DEF Step
<1> HIDE DEF w, o
<1>6. Orderly({o}, careless, w)
  BY <1>1, <1>2, <1>3 DEF Orderly
<1> QED BY <1>6

\* containerMoveItem from the loadout to its own slot
LEMMA RewearOrderly ==
    ASSUME IInv, NEW s \in Slots, Rewear(s)
    PROVE  \E touched, careless, w : Orderly(touched, careless, w)
<1> DEFINE o == inv.loadout[s]
           w == RemoveLoadoutItem(inv, s)
           careless == {"own slot"}
<1>1. o # Nobody /\ Done(w, {o}, careless)
  BY DEF Rewear, OnlyWorn
<1>2. Losses \cap careless # {}
  <2>1. "own slot" \in Losses /\ "own slot" \in careless
    BY DEF Losses
  <2> QED BY <2>1
<1> HIDE DEF careless
<1>3. o # 0
  BY <1>1, Numbers
<1>4. ASSUME "miscount" \notin lapses \cup careless
      PROVE  Sound({}, w) /\ Kept(inv, w) /\ (Unique(inv) => Unique(w))
  <2>1. Sound({}, inv)
    BY <1>4, SoundWithout DEF IInv
  <2>2. Sound({}, w) /\ Kept(inv, w)
    BY <2>1, RemoveLoadoutItemStep DEF Step
  <2>3. Unique(inv) => Fades(inv, w)
    BY <1>3, <2>1, RemovedFromLoadout
  <2> QED BY <2>1, <2>2, <2>3, FadesUnique
<1> HIDE DEF w, o
<1>5. Orderly({o}, careless, w)
  BY <1>1, <1>2, <1>4 DEF Orderly
<1> QED BY <1>5

-----------------------------------------------------------------------------
(* Every item is in one place. *)

\* Every item is in one place, unless half a stack was dropped or a request
\* counted none or more than there is.
Placed == {"split", "miscount"} \cap lapses = {} => Unique(inv)

\* With neither, the inventory is sound however it came about.
LEMMA PlacedMeans ==
    ASSUME IInv, Placed, {"split", "miscount"} \cap lapses = {}
    PROVE  Sound({}, inv) /\ Unique(inv)
<1>1. "miscount" \notin lapses
  OBVIOUS
<1> QED BY <1>1, SoundWithout DEF IInv, Placed

\* The collection moves nothing.
LEMMA SettledUnique ==
    ASSUME NEW v, Sound({}, v), inv' = Collected(v, timer')
    PROVE  /\ Sound({}, inv') /\ Still(v, inv')
           /\ Held(inv') = Held(v) /\ Worn(inv') = Worn(v)
           /\ inv'.loadout = v.loadout /\ inv'.containers = v.containers
           /\ Unique(v) => Unique(inv')
           /\ \A k \in Kinds : Amount(inv', k) = Amount(v, k)
<1>1. \A t, w : w = Collected(v, t) =>
         /\ Sound({}, w) /\ Still(v, w) /\ Held(w) = Held(v) /\ Worn(w) = Worn(v)
         /\ w.loadout = v.loadout /\ w.containers = v.containers
         /\ Unique(v) => Unique(w)
         /\ \A k \in Kinds : Amount(w, k) = Amount(v, k)
  <2> SUFFICES ASSUME NEW t, NEW w, w = Collected(v, t)
               PROVE  /\ Sound({}, w) /\ Still(v, w) /\ Held(w) = Held(v) /\ Worn(w) = Worn(v)
                      /\ w.loadout = v.loadout /\ w.containers = v.containers
                      /\ Unique(v) => Unique(w)
                      /\ \A k \in Kinds : Amount(w, k) = Amount(v, k)
    OBVIOUS
  <2>1. /\ Sound({}, w) /\ Still(v, w) /\ Held(w) = Held(v) /\ Worn(w) = Worn(v)
        /\ w.loadout = v.loadout /\ w.containers = v.containers
    BY CollectedKeeps, CollectedStill
  <2>2. Unique(v) => Unique(w)
    BY <2>1, EffectsFade, FadesUnique
  <2>3. ASSUME NEW k \in Kinds PROVE Amount(w, k) = Amount(v, k)
    <3>1. Gains(v, w, k, 0) /\ Amount(v, k) \in Nat
      BY <2>1, StillGains, OwnedIs
    <3> QED BY <3>1 DEF Gains
  <2> QED BY <2>1, <2>2, <2>3
<1> QED BY <1>1

\* A request leaves every item in one place.
LEMMA OrderlyPlaced ==
    ASSUME Placed, NEW touched, NEW careless, NEW w, Orderly(touched, careless, w)
    PROVE  Placed'
<1> SUFFICES ASSUME {"split", "miscount"} \cap lapses' = {} PROVE Unique(inv')
  BY DEF Placed
<1>1. /\ lapses' = lapses \cup Busy(touched, w) \cup careless
      /\ inv' = Collected(w, timer')
  BY DEF Orderly, Done
<1>2. "miscount" \notin lapses \cup careless /\ "split" \notin lapses \cup careless
  BY <1>1
<1>3. Unique(inv)
  BY <1>2 DEF Placed
<1>4. Sound({}, w) /\ Unique(w)
  BY <1>2, <1>3 DEF Orderly
<1> QED BY <1>1, <1>4, SettledUnique

\* Every step leaves every item in one place, until then.
LEMMA NextPlaced ==
    IInv /\ Placed /\ [Next]_vars => Placed'
<1> SUFFICES ASSUME IInv, Placed, [Next]_vars PROVE Placed'
  OBVIOUS
<1>0. Timed
  BY DEF IInv
<1>1. ASSUME NEW o \in Objects, PickUp(o) \/ Equip(o) PROVE Placed'
  BY <1>1, PickUpOrderly, EquipOrderly, OrderlyPlaced
<1>2. ASSUME NEW o \in Objects, NEW count \in 0 .. MaxCount,
             Drop(o, count) \/ \E to \in Slots : Move(o, to, count)
      PROVE  Placed'
  BY <1>2, DropOrderly, MoveOrderly, OrderlyPlaced
<1>3. ASSUME NEW s \in Slots, NEW to \in Slots, NEW count \in 0 .. MaxCount, Stow(s, to, count)
      PROVE  Placed'
  BY <1>3, StowOrderly, OrderlyPlaced
<1>4. ASSUME NEW s \in Slots, Rewear(s) PROVE Placed'
  BY <1>4, RewearOrderly, OrderlyPlaced
<1>5. ASSUME lapses' = lapses,
             {"split", "miscount"} \cap lapses = {} =>
                \E w : Sound({}, w) /\ Unique(w) /\ inv' = Collected(w, timer')
      PROVE  Placed'
  BY <1>5, SettledUnique DEF Placed
<1>6. ASSUME NEW o \in Objects, NEW use \in {"consume", "shred"}, StartUse(o, use) PROVE Placed'
  <2>1. inv' = Collected(inv, timer') /\ lapses' = lapses
    BY <1>6 DEF StartUse
  <2> QED BY <1>5, <2>1, PlacedMeans
<1>7. ASSUME Interrupt PROVE Placed'
  <2>1. inv' = Collected(inv, timer') /\ lapses' = lapses
    BY <1>7 DEF Interrupt
  <2> QED BY <1>5, <2>1, PlacedMeans
<1>8. ASSUME Consume PROVE Placed'
  <2> DEFINE removed == RemoveInventoryItem(inv, timer.obj, 1)
             w == LootContainerItem(GenerateItem(removed, Trash, 1), NewObject(removed), 1)
  <2>1. timer.use = "consume" /\ Roomy3 /\ inv' = Collected(w, timer') /\ lapses' = lapses
    BY <1>8 DEF Consume
  <2>2. ASSUME Sound({}, inv), Unique(inv) PROVE Sound({}, w) /\ Unique(w)
    <3>1. Sound({}, w)
      BY <1>0, <2>1, <2>2, ConsumeStep DEF Step
    <3>2. timer.obj \in Objects /\ inv.heap[timer.obj].guid # 0 /\ Room(inv, 2)
      BY <1>0, <2>1, RoomForAll DEF Timed
    <3>3. Trash \in Kinds /\ Trash \notin Bags /\ 1 \in 1 .. MaxCount
      BY Numbers
    <3>4. \A o \in Objects : \A t : inv.heap[o].guid # 0
             /\ t = LootContainerItem(GenerateItem(RemoveInventoryItem(inv, o, 1), Trash, 1),
                                      NewObject(RemoveInventoryItem(inv, o, 1)), 1) => Unique(t)
      BY <2>2, <3>2, <3>3, UseTidy
    <3> QED BY <3>1, <3>2, <3>4
  <2> HIDE DEF w
  <2> QED BY <1>5, <2>1, <2>2, PlacedMeans
<1>9. ASSUME Shred PROVE Placed'
  <2> DEFINE removed == RemoveInventoryItem(inv, timer.obj, 1)
             w == LootItem(GenerateItem(removed, Cloth, ClothCount), NewObject(removed))
  <2>1. timer.use = "shred" /\ Roomy3 /\ inv' = Collected(w, timer') /\ lapses' = lapses
    BY <1>9 DEF Shred
  <2>2. ASSUME Sound({}, inv), Unique(inv) PROVE Sound({}, w) /\ Unique(w)
    <3>1. Sound({}, w)
      BY <1>0, <2>1, <2>2, ShredStep DEF Step
    <3>2. timer.obj \in Objects /\ inv.heap[timer.obj].guid # 0 /\ Room(inv, 2)
      BY <1>0, <2>1, RoomForAll DEF Timed
    <3>3. Cloth \in Kinds /\ Cloth \notin Bags /\ ClothCount \in 1 .. MaxCount
      BY Numbers, InventoryAssumption
    <3>4. \A o \in Objects : \A t : inv.heap[o].guid # 0
             /\ t = LootItem(GenerateItem(RemoveInventoryItem(inv, o, 1), Cloth, ClothCount),
                             NewObject(RemoveInventoryItem(inv, o, 1))) => Unique(t)
      BY <2>2, <3>2, <3>3, UseTidy
    <3> QED BY <3>1, <3>2, <3>4
  <2> HIDE DEF w
  <2> QED BY <1>5, <2>1, <2>2, PlacedMeans
<1>10. CASE UNCHANGED vars
  BY <1>10 DEF vars, Placed
<1> QED BY <1>1, <1>2, <1>3, <1>4, <1>6, <1>7, <1>8, <1>9, <1>10 DEF Next

\* What the player has at first is in one place.
LEMMA InitPlaced ==
    Init => Placed
<1> SUFFICES ASSUME Init PROVE Unique(inv)
  BY DEF Placed
<1> DEFINE h == [o \in Objects |->
                  CASE o \in Slots -> [Item(o, o, 1) EXCEPT !.slot = o]
                    [] o = LastSlot + 1 -> Item(o, Food, MaxStack)
                    [] o = LastSlot + 2 -> Item(o, 1, 1)
                    [] OTHER -> Unused]
           stack == LastSlot + 1
           spare == LastSlot + 2
<1>0. inv \in Inventories /\ Sound({}, inv)
  BY InitSound DEF Sound
<1>1. /\ inv.heap = h
      /\ inv.loadout = [s \in Slots |-> s]
      /\ inv.containers = [s \in Slots |-> IF s = 1 THEN <<stack>> ELSE <<>>]
      /\ inv.ground = [o \in Objects |-> IF o = spare THEN 1 ELSE 0]
  BY DEF Init
<1>2. /\ LastSlot \in Nat \ {0} /\ LastSlot + 2 <= LastObject
      /\ Slots \subseteq Objects /\ stack \in Objects \ Slots /\ spare \in Objects \ Slots
      /\ stack # spare
  BY InventoryAssumption, Numbers DEF Slots, Objects
<1>3. \A o \in Slots \cup {stack, spare} : h[o].guid = o
  BY <1>2 DEF Item
<1> HIDE DEF h, stack, spare
<1>4. \A o \in Objects : o \in Held(inv) => o = stack
  <2>1. \A s \in Slots : \A i \in DOMAIN inv.containers[s] : inv.containers[s][i] = stack
    BY <1>1
  <2> QED BY <1>0, <2>1, HeldMeans
<1>5. \A o \in Objects : o \in Worn(inv) => o \in Slots
  BY <1>0, <1>1, WornMeans
<1>6. \A o \in Objects : inv.ground[o] = IF o = spare THEN 1 ELSE 0
  BY <1>1
<1>7. \A o \in Live(inv) : o \in Slots \cup {stack, spare}
  BY <1>0, <1>4, <1>5, <1>6, LiveMeans
<1>8. \A o \in Live(inv) :
         inv.ground[o] = 0 \/ (inv.ground[o] = 1 /\ o \notin Held(inv) /\ o \notin Worn(inv))
  BY <1>0, <1>2, <1>4, <1>5, <1>6, LiveMeans
<1> QED BY <1>1, <1>3, <1>7, <1>8 DEF Unique

\* The places of an object.
LEMMA PlacesMean ==
    ASSUME NEW v, NEW o, NEW q \in Places(v, o)
    PROVE  \/ \E s \in Slots : \E i \in DOMAIN v.containers[s] :
                 q = <<s, i>> /\ v.containers[s][i] = o
           \/ \E s \in Slots : q = <<s, 0>> /\ v.loadout[s] = o
           \/ \E i \in 1 .. v.ground[o] : q = <<0, i>>
<1>1. CASE q \in {e \in Entries(v) : v.containers[e[1]][e[2]] = o}
  <2>1. PICK s \in Slots : q \in {s} \X DOMAIN v.containers[s]
    BY <1>1 DEF Entries
  <2>2. PICK i \in DOMAIN v.containers[s] : q = <<s, i>>
    BY <2>1
  <2>3. v.containers[s][i] = o
    BY <1>1, <2>2
  <2> QED BY <2>2, <2>3
<1>2. CASE q \in {<<s, 0>> : s \in {t \in Slots : v.loadout[t] = o}}
  BY <1>2
<1>3. CASE q \in {<<0, i>> : i \in 1 .. v.ground[o]}
  BY <1>3
<1> QED BY <1>1, <1>2, <1>3 DEF Places

\* What is unique is in one place.
LEMMA UniquePlace ==
    ASSUME NEW v, Sound({}, v), Unique(v), NEW o \in Live(v), NEW p \in Places(v, o),
           NEW q \in Places(v, o)
    PROVE  p = q
<1> DEFINE InContainer(e) == \E s \in Slots : \E i \in DOMAIN v.containers[s] :
                                e = <<s, i>> /\ v.containers[s][i] = o
           InSlot(e) == \E s \in Slots : e = <<s, 0>> /\ v.loadout[s] = o
           OnGround(e) == \E i \in 1 .. v.ground[o] : e = <<0, i>>
<1>0. /\ v \in Inventories /\ o \in Objects /\ v.ground[o] \in Nat
      /\ ~(o \in Held(v) /\ o \in Worn(v))
  BY LiveMeans DEF Sound
<1>1. (InContainer(p) \/ InSlot(p) \/ OnGround(p)) /\ (InContainer(q) \/ InSlot(q) \/ OnGround(q))
  BY PlacesMean
<1>2. \A e : InContainer(e) => o \in Held(v)
  BY <1>0, HeldMeans
<1>3. \A e : InSlot(e) => o \in Worn(v)
  BY <1>0, WornMeans
<1>4. \A e : OnGround(e) => v.ground[o] = 1 /\ e = <<0, 1>> /\ o \notin Held(v) /\ o \notin Worn(v)
  <2> SUFFICES ASSUME NEW e, OnGround(e)
               PROVE  v.ground[o] = 1 /\ e = <<0, 1>> /\ o \notin Held(v) /\ o \notin Worn(v)
    OBVIOUS
  <2>1. PICK i \in 1 .. v.ground[o] : e = <<0, i>>
    OBVIOUS
  <2>2. v.ground[o] = 1 /\ o \notin Held(v) /\ o \notin Worn(v)
    BY <1>0, <2>1 DEF Unique
  <2>3. i = 1
    BY <2>1, <2>2
  <2> QED BY <2>1, <2>2, <2>3
<1>5. ASSUME InContainer(p), InContainer(q) PROVE p = q
  <2>1. PICK s \in Slots : \E i \in DOMAIN v.containers[s] : p = <<s, i>> /\ v.containers[s][i] = o
    BY <1>5
  <2>2. PICK i \in DOMAIN v.containers[s] : p = <<s, i>> /\ v.containers[s][i] = o
    BY <2>1
  <2>3. PICK t \in Slots : \E j \in DOMAIN v.containers[t] : q = <<t, j>> /\ v.containers[t][j] = o
    BY <1>5
  <2>4. PICK j \in DOMAIN v.containers[t] : q = <<t, j>> /\ v.containers[t][j] = o
    BY <2>3
  <2>5. s = t
    BY <2>2, <2>4 DEF Sound, Apart
  <2>6. i = j
    BY <2>2, <2>4, <2>5 DEF Sound, Keyed
  <2> QED BY <2>2, <2>4, <2>5, <2>6
<1>6. ASSUME InSlot(p), InSlot(q) PROVE p = q
  <2>1. PICK s \in Slots : p = <<s, 0>> /\ v.loadout[s] = o
    BY <1>6
  <2>2. PICK t \in Slots : q = <<t, 0>> /\ v.loadout[t] = o
    BY <1>6
  <2>3. s = t
    <3>1. o # 0
      BY <1>0, Numbers
    <3> QED BY <2>1, <2>2, <3>1, InUse
  <2> QED BY <2>1, <2>2, <2>3
<1> HIDE DEF InContainer, InSlot, OnGround
<1> QED BY <1>0, <1>1, <1>2, <1>3, <1>4, <1>5, <1>6

\* However items are moved, worn, dropped, picked up and used up, an item is in
\* one place, under a guid of its own, unless the player drops half a stack or
\* more of it, where the code drops the very object that stays behind, or sends
\* a count of none or of more than there is.
THEOREM EachInOnePlace == Spec => []OnePlace
<1>1. Init => IInv /\ Placed
  BY InitIInv, InitPlaced
<1>2. IInv /\ Placed /\ [Next]_vars => (IInv /\ Placed)'
  BY NextIInv, NextPlaced
<1>3. IInv /\ Placed => OnePlace
  <2> SUFFICES ASSUME IInv, Placed, {"split", "miscount"} \cap lapses = {}
               PROVE  /\ \A o \in Live(inv) : \A p, q \in Places(inv, o) : p = q
                      /\ \A o, p \in Live(inv) : inv.heap[o].guid = inv.heap[p].guid => o = p
    BY DEF OnePlace
  <2>0. Sound({}, inv) /\ Unique(inv)
    BY PlacedMeans
  <2>1. \A o \in Live(inv) : \A p, q \in Places(inv, o) : p = q
    BY <2>0, UniquePlace
  <2>2. \A o, p \in Live(inv) : inv.heap[o].guid = inv.heap[p].guid => o = p
    BY <2>0 DEF Unique
  <2> QED BY <2>1, <2>2
<1> QED BY <1>1, <1>2, <1>3, PTL DEF Spec

-----------------------------------------------------------------------------
(* Nothing is lost and nothing is made. *)

\* Where every item is in one place, each is counted once.
LEMMA TotalIs ==
    ASSUME NEW v, Sound({}, v), Unique(v), NEW k
    PROVE  Total(v, k) = Amount(v, k)
<1> DEFINE f == [o \in Objects |-> IF v.heap[o].kind = k THEN v.heap[o].count * Uses(v, o) ELSE 0]
           g == [o \in Objects |-> IF o \in Live(v) /\ v.heap[o].kind = k THEN v.heap[o].count ELSE 0]
<1>1. ASSUME NEW o \in Objects PROVE f[o] = g[o]
  <2>1. /\ v.heap[o].count \in Nat /\ v.ground[o] \in Nat
        /\ o \in Live(v) <=> o \in Held(v) \/ o \in Worn(v) \/ v.ground[o] > 0
        /\ ~(o \in Held(v) /\ o \in Worn(v))
    BY CountType, LiveMeans
  <2>2. Uses(v, o) = IF o \in Live(v) THEN 1 ELSE 0
    BY <2>1 DEF Uses, Unique
  <2>3. v.heap[o].count * 1 = v.heap[o].count /\ v.heap[o].count * 0 = 0
    BY <2>1
  <2>4. v.heap[o].count * Uses(v, o) = IF o \in Live(v) THEN v.heap[o].count ELSE 0
    <3>1. CASE o \in Live(v)
      BY <2>2, <2>3, <3>1
    <3>2. CASE o \notin Live(v)
      BY <2>2, <2>3, <3>2
    <3> QED BY <3>1, <3>2
  <2> QED BY <2>4
<1>2. f = g
  BY <1>1
<1>3. Total(v, k) = SumOf(f) /\ Amount(v, k) = SumOf(g)
  BY DEF Total, Amount, Owned
<1> HIDE DEF f, g
<1> QED BY <1>2, <1>3

\* The player has done nothing careless but overfill a bag.
Careful == lapses \subseteq {"overfill"}

\* As long as that is so, the books are right, and a timer runs on what is
\* carried.
Booked ==
    Careful =>
        /\ \A k \in Kinds : Amount(inv, k) = ledger[k]
        /\ timer.use # "none" => timer.obj \in Carried(inv) /\ ~FullBag(timer.obj)

\* A careful player drops no half stacks, and counts right.
LEMMA CarefulMeans ==
    ASSUME IInv, Placed, Careful
    PROVE  Sound({}, inv) /\ Unique(inv)
BY PlacedMeans DEF Careful

\* A request leaves the books right.
LEMMA OrderlyBooked ==
    ASSUME IInv, Placed, Booked, NEW touched, NEW careless, NEW w, Orderly(touched, careless, w)
    PROVE  Booked'
<1> SUFFICES ASSUME Careful'
             PROVE  /\ \A k \in Kinds : Amount(inv', k) = ledger'[k]
                    /\ timer'.use # "none" => (timer.obj \in Carried(inv) /\ ~FullBag(timer.obj))'
  BY DEF Booked
<1>1. /\ lapses' = lapses \cup Busy(touched, w) \cup careless /\ inv' = Collected(w, timer')
      /\ timer' = timer /\ ledger' = ledger
  BY DEF Orderly, Done
<1>2. /\ Careful /\ "busy" \notin Busy(touched, w)
      /\ "miscount" \notin lapses \cup careless /\ "split" \notin careless
      /\ Losses \cap careless = {}
  BY <1>1 DEF Careful, Losses
<1>3. Sound({}, inv) /\ Unique(inv)
  BY <1>2, CarefulMeans
<1>4. Sound({}, w) /\ Kept(inv, w) /\ Even(inv, w, touched)
  BY <1>2, <1>3 DEF Orderly
<1>5. /\ Held(inv') = Held(w) /\ Worn(inv') = Worn(w)
      /\ inv'.loadout = w.loadout /\ inv'.containers = w.containers
      /\ \A k \in Kinds : Amount(inv', k) = Amount(w, k)
  BY <1>1, <1>4, SettledUnique
<1>6. \A k \in Kinds : Amount(inv', k) = ledger'[k]
  BY <1>1, <1>2, <1>4, <1>5 DEF Booked, Even
<1>7. ASSUME timer.use # "none"
      PROVE  timer.obj \in Carried(inv') /\ \A s \in Slots :
                inv'.loadout[s] = timer.obj => inv'.containers[s] = <<>>
  <2> DEFINE x == timer.obj
             guid == inv.heap[timer.obj].guid
  <2>1. x \in Objects /\ guid # 0 /\ x \in Carried(inv) /\ timer # NoUse
    <3>1. timer # NoUse
      BY <1>7, NoTimer
    <3> QED BY <1>2, <1>7, <3>1 DEF IInv, Timed, Booked
  <2>2. /\ \A o \in touched : inv.heap[o].guid # guid
        /\ \A s \in Slots : w.loadout[s] # Nobody /\ w.heap[w.loadout[s]].guid = guid =>
              w.containers[s] = <<>>
    BY <1>2, <2>1 DEF Busy
  <2>3. x \in Carried(w)
    BY <1>4, <2>1, <2>2 DEF Even, Holds
  <2>4. ASSUME NEW s \in Slots, w.loadout[s] = x PROVE w.containers[s] = <<>>
    <3>1. w.heap[x].guid = guid
      BY <1>4, <2>1 DEF Kept
    <3>2. x # Nobody
      BY <2>1, Numbers
    <3> QED BY <2>2, <2>4, <3>1, <3>2
  <2> QED BY <1>5, <2>3, <2>4 DEF Carried
<1> QED BY <1>1, <1>6, <1>7 DEF FullBag, Full

\* Every step leaves the books right.
LEMMA NextBooked ==
    IInv /\ Placed /\ Booked /\ [Next]_vars => Booked'
<1> SUFFICES ASSUME IInv, Placed, Booked, [Next]_vars PROVE Booked'
  OBVIOUS
<1>0. Timed /\ (Careful => Sound({}, inv) /\ Unique(inv))
  BY CarefulMeans DEF IInv
<1>1. ASSUME NEW o \in Objects, PickUp(o) \/ Equip(o) PROVE Booked'
  BY <1>1, PickUpOrderly, EquipOrderly, OrderlyBooked
<1>2. ASSUME NEW o \in Objects, NEW count \in 0 .. MaxCount,
             Drop(o, count) \/ \E to \in Slots : Move(o, to, count)
      PROVE  Booked'
  BY <1>2, DropOrderly, MoveOrderly, OrderlyBooked
<1>3. ASSUME NEW s \in Slots, NEW to \in Slots, NEW count \in 0 .. MaxCount, Stow(s, to, count)
      PROVE  Booked'
  BY <1>3, StowOrderly, OrderlyBooked
<1>4. ASSUME NEW s \in Slots, Rewear(s) PROVE Booked'
  BY <1>4, RewearOrderly, OrderlyBooked
<1>5. ASSUME NEW o \in Objects, NEW use \in {"consume", "shred"}, StartUse(o, use) PROVE Booked'
  <2>1. /\ o \in Carried(inv) /\ ~FullBag(o) /\ timer' = [use |-> use, obj |-> o]
        /\ inv' = Collected(inv, timer') /\ ledger' = ledger /\ lapses' = lapses
    BY <1>5 DEF StartUse, Found, FirstHeld, Carried
  <2>2. timer'.obj = o
    BY <2>1
  <2> SUFFICES ASSUME Careful
               PROVE  /\ \A k \in Kinds : Amount(inv', k) = ledger'[k]
                      /\ (timer.obj \in Carried(inv) /\ ~FullBag(timer.obj))'
    BY <2>1 DEF Booked, Careful
  <2>3. /\ Held(inv') = Held(inv) /\ Worn(inv') = Worn(inv)
        /\ inv'.loadout = inv.loadout /\ inv'.containers = inv.containers
        /\ \A k \in Kinds : Amount(inv', k) = Amount(inv, k)
    BY <1>0, <2>1, SettledUnique
  <2>4. (timer.obj \in Carried(inv) /\ ~FullBag(timer.obj))'
    BY <2>1, <2>2, <2>3 DEF Carried, FullBag, Full
  <2> QED BY <2>1, <2>3, <2>4 DEF Booked
<1>6. ASSUME Interrupt PROVE Booked'
  <2>1. /\ timer' = NoUse /\ inv' = Collected(inv, timer')
        /\ ledger' = ledger /\ lapses' = lapses
    BY <1>6 DEF Interrupt
  <2>2. timer'.use = "none"
    BY <2>1, NoTimer
  <2> SUFFICES ASSUME Careful PROVE \A k \in Kinds : Amount(inv', k) = ledger'[k]
    BY <2>1, <2>2 DEF Booked, Careful
  <2>3. \A k \in Kinds : Amount(inv', k) = Amount(inv, k)
    BY <1>0, <2>1, SettledUnique
  <2> QED BY <2>1, <2>3 DEF Booked
<1>7. ASSUME NEW from \in Kinds, NEW to \in Kinds, NEW count \in Int, NEW w,
             Careful => Sound({}, w) /\ Turns(inv, w, from, to, count), from # to,
             inv' = Collected(w, timer'), timer' = NoUse, lapses' = lapses,
             ledger' = [ledger EXCEPT ![from] = @ - 1, ![to] = @ + count]
      PROVE  Booked'
  <2>1. timer'.use = "none"
    BY <1>7, NoTimer
  <2> SUFFICES ASSUME Careful, NEW k \in Kinds PROVE Amount(inv', k) = ledger'[k]
    BY <1>7, <2>1 DEF Booked, Careful
  <2>2. Amount(inv', k) = Amount(w, k)
    BY <1>7, SettledUnique
  <2>3. Amount(w, k) = Amount(inv, k)
            + (IF k = from THEN 0 - 1 ELSE 0) + (IF k = to THEN count ELSE 0)
    BY <1>7 DEF Turns
  <2>4. Amount(inv, k) = ledger[k] /\ ledger \in [Kinds -> Int]
    BY DEF Booked, IInv
  <2>5. ledger'[k] = ledger[k]
            + (IF k = from THEN 0 - 1 ELSE 0) + (IF k = to THEN count ELSE 0)
    BY <1>7, <2>4
  <2> QED BY <2>2, <2>3, <2>4, <2>5
<1>8. ASSUME timer.use # "none", Careful
      PROVE  timer.obj \in Objects /\ inv.heap[timer.obj].guid # 0 /\ Spare(inv, timer.obj)
  BY <1>0, <1>8 DEF Timed, Booked, Spare, FullBag, Full
<1>9. ASSUME Consume PROVE Booked'
  <2> DEFINE removed == RemoveInventoryItem(inv, timer.obj, 1)
             w == LootContainerItem(GenerateItem(removed, Trash, 1), NewObject(removed), 1)
  <2>1. /\ timer.use = "consume" /\ Roomy3 /\ timer' = NoUse /\ inv' = Collected(w, timer')
        /\ ledger' = [ledger EXCEPT ![Food] = @ - 1, ![Trash] = @ + 1]
        /\ lapses' = lapses
    BY <1>9 DEF Consume
  <2>2. /\ Food \in Kinds /\ Trash \in Kinds /\ Trash \notin Bags /\ Food # Trash
        /\ 1 \in 1 .. MaxCount /\ 1 \in Int
    BY Numbers, InventoryAssumption
  <2>3. ASSUME Careful PROVE Sound({}, w) /\ Turns(inv, w, Food, Trash, 1)
    <3>1. Sound({}, w)
      BY <1>0, <2>1, <2>3, ConsumeStep DEF Step
    <3>2. /\ timer.obj \in Objects /\ inv.heap[timer.obj].guid # 0 /\ Spare(inv, timer.obj)
          /\ inv.heap[timer.obj].kind = Food /\ Room(inv, 2)
      BY <1>0, <1>8, <2>1, <2>3, RoomForAll DEF Timed
    <3>3. \A o \in Objects : \A t : inv.heap[o].guid # 0 /\ Spare(inv, o)
             /\ t = LootContainerItem(GenerateItem(RemoveInventoryItem(inv, o, 1), Trash, 1),
                                      NewObject(RemoveInventoryItem(inv, o, 1)), 1)
             => Turns(inv, t, inv.heap[o].kind, Trash, 1)
      BY <1>0, <2>2, <2>3, <3>2, UseTidy
    <3>4. Turns(inv, w, inv.heap[timer.obj].kind, Trash, 1)
      BY <3>2, <3>3
    <3> QED BY <3>1, <3>2, <3>4
  <2> HIDE DEF w
  <2> QED BY <1>7, <2>1, <2>2, <2>3
<1>10. ASSUME Shred PROVE Booked'
  <2> DEFINE removed == RemoveInventoryItem(inv, timer.obj, 1)
             kind == inv.heap[timer.obj].kind
             w == LootItem(GenerateItem(removed, Cloth, ClothCount), NewObject(removed))
  <2>1. /\ timer.use = "shred" /\ Roomy3 /\ timer' = NoUse /\ inv' = Collected(w, timer')
        /\ ledger' = [ledger EXCEPT ![kind] = @ - 1, ![Cloth] = @ + ClothCount]
        /\ lapses' = lapses
    BY <1>10 DEF Shred
  <2>2. /\ kind \in Kinds /\ Cloth \in Kinds /\ Cloth \notin Bags /\ kind # Cloth
        /\ ClothCount \in 1 .. MaxCount /\ ClothCount \in Int
    <3>1. kind \in Bags
      BY <1>0, <2>1 DEF Timed
    <3>2. Bags \subseteq Kinds /\ Cloth \notin Bags /\ Cloth \in Kinds
      BY Numbers
    <3>3. ClothCount \in 1 .. MaxCount /\ ClothCount \in Int
      BY InventoryAssumption
    <3> QED BY <3>1, <3>2, <3>3
  <2>3. ASSUME Careful PROVE Sound({}, w) /\ Turns(inv, w, kind, Cloth, ClothCount)
    <3>1. Sound({}, w)
      BY <1>0, <2>1, <2>3, ShredStep DEF Step
    <3>2. /\ timer.obj \in Objects /\ inv.heap[timer.obj].guid # 0 /\ Spare(inv, timer.obj)
          /\ Room(inv, 2)
      BY <1>8, <2>1, <2>3, RoomForAll
    <3>3. \A o \in Objects : \A t : inv.heap[o].guid # 0 /\ Spare(inv, o)
             /\ t = LootItem(GenerateItem(RemoveInventoryItem(inv, o, 1), Cloth, ClothCount),
                             NewObject(RemoveInventoryItem(inv, o, 1)))
             => Turns(inv, t, inv.heap[o].kind, Cloth, ClothCount)
      BY <1>0, <2>2, <2>3, <3>2, UseTidy
    <3> QED BY <3>1, <3>2, <3>3
  <2> HIDE DEF w, kind
  <2> QED BY <1>7, <2>1, <2>2, <2>3
<1>11. CASE UNCHANGED vars
  BY <1>11 DEF vars, Booked, Careful, Carried, FullBag, Full
<1> QED BY <1>1, <1>2, <1>3, <1>4, <1>5, <1>6, <1>9, <1>10, <1>11 DEF Next

\* The books are opened with what there is.
LEMMA InitBooked ==
    Init => Booked
<1> SUFFICES ASSUME Init PROVE Booked
  OBVIOUS
<1>1. Sound({}, inv) /\ Unique(inv)
  BY InitSound, InitPlaced DEF Placed, Init
<1>2. \A k \in Kinds : Amount(inv, k) = ledger[k]
  BY <1>1, TotalIs DEF Init
<1>3. timer.use = "none"
  BY NoTimer DEF Init
<1> QED BY <1>2, <1>3 DEF Booked

\* However items are moved, worn, picked up and used up, none is lost and none
\* is made, as long as the player touches nothing a timer runs on, drops no
\* half stacks, stows no bag with something in it, moves no worn bag to its own
\* slot, and sends no count the item has not.
THEOREM NothingLostOrMade == Spec => []Conserved
<1>1. Init => IInv /\ Placed /\ Booked
  BY InitIInv, InitPlaced, InitBooked
<1>2. IInv /\ Placed /\ Booked /\ [Next]_vars => (IInv /\ Placed /\ Booked)'
  BY NextIInv, NextPlaced, NextBooked
<1>3. IInv /\ Placed /\ Booked => Conserved
  <2> SUFFICES ASSUME IInv, Placed, Booked, Careful, NEW k \in Kinds
               PROVE  Total(inv, k) = ledger[k]
    BY DEF Conserved, Careful
  <2>1. Total(inv, k) = Amount(inv, k)
    BY CarefulMeans, TotalIs
  <2> QED BY <2>1 DEF Booked
<1> QED BY <1>1, <1>2, <1>3, PTL DEF Spec
=============================================================================
