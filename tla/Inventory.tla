------------------------------ MODULE Inventory ------------------------------
(***************************************************************************)
(* What a character of the 2016 zone carries: the loadout, the containers  *)
(* the equipped bags open, the item entities on the ground, and the timed  *)
(* uses of items (eat, drink, heal, shred) that act when the timer of the  *)
(* progress bar runs out.                                                  *)
(*                                                                         *)
(* Items are JavaScript objects, and the code passes references around: a  *)
(* container, an item entity and the callback of a timer may hold the same *)
(* object, or two copies with one item guid.  "heap" holds the objects,    *)
(* everything else holds references.  The handlers are operators from an   *)
(* inventory to an inventory, composed the way the calls are nested.       *)
(***************************************************************************)
EXTENDS Loops, Sequences, FiniteSets, FiniteSetsExt, SequencesExt, Functions

CONSTANTS
    LastSlot,     \* loadout slots that take a bag, numbered in the code's order;
                  \* the kind of bag a slot takes is named by the slot
    Food,         \* a stackable kind that is used up: food, drink, medicine
    Trash, Cloth, \* what is left of it, and of a shredded bag
    MaxStack,     \* MAX_STACK_SIZE of everything that is not a bag
    MaxCount,     \* bound: the count of a request, a uint32 of the packet that
                  \* the handlers take as it comes
    MaxBulk,      \* MAX_BULK of a bag
    BagBulk,      \* BULK of a bag; everything else has bulk 1
    ClothCount,   \* pieces of cloth a bag is shredded into
    LastObject,   \* bound: item objects, numbered
    MaxRequests   \* bound: requests of the player

Slots == 1 .. LastSlot
Objects == 1 .. LastObject

ASSUME InventoryAssumption ==
    /\ LastSlot \in Nat \ {0} /\ LastObject \in Nat /\ LastObject >= LastSlot + 2
    /\ Food \notin Slots /\ Trash \notin Slots /\ Cloth \notin Slots
    /\ Food # Trash /\ Food # Cloth /\ Trash # Cloth
    /\ MaxStack \in Nat /\ MaxBulk \in Nat /\ BagBulk \in Nat /\ MaxRequests \in Nat
    /\ ClothCount \in 1 .. MaxStack /\ MaxStack <= MaxBulk
    /\ MaxCount \in Nat /\ MaxStack <= MaxCount

VARIABLES
    inv,      \* [heap, loadout, open, containers, ground]
    timer,    \* the timed use under way: client.hudTimer and its closure
    ledger,   \* ghost: kind |-> items that should exist
    lapses,   \* ghost: what the player has done that the code does not bear
    requests  \* ghost: how many requests the player has made

vars == <<inv, timer, ledger, lapses, requests>>

Bags == Slots
Kinds == Bags \cup {Food, Trash, Cloth}
Nobody == 0
NoUse == [use |-> "none", obj |-> Nobody]

\* slot: the loadout slot the object was made for, 0 for any other object (in a
\* container slotId is the position; the slots that take a bag are 10 and above,
\* and no container here holds as many items).
Item(guid, kind, count) == [guid |-> guid, kind |-> kind, count |-> count, slot |-> 0]
Unused == Item(0, Cloth, 0)

Bulk1(kind) == IF kind \in Bags THEN BagBulk ELSE 1
StackSize(kind) == IF kind \in Bags THEN 1 ELSE MaxStack

(***************************************************************************)
(* References and fresh objects.                                           *)
(***************************************************************************)
Held(v) == UNION {Range(v.containers[s]) : s \in Slots}
Worn(v) == {v.loadout[s] : s \in Slots} \ {Nobody}
Lying(v) == {o \in Objects : v.ground[o] > 0}
Live(v) == Held(v) \cup Worn(v) \cup Lying(v)

FreeObjects(v) == {o \in Objects : v.heap[o].guid = 0}
NewObject(v) == Min(FreeObjects(v))
NewGuid(v) == Min(1..(LastObject + 1) \ {v.heap[o].guid : o \in Objects})

Alloc(v, item) == [v EXCEPT !.heap[NewObject(v)] = item]

\* generateItem
GenerateItem(v, kind, count) ==
    Alloc(v, Item(NewGuid(v), kind, count))

Collected(v, t) ==
    [v EXCEPT !.heap = [o \in Objects |->
        IF o \in Live(v) \/ o = t.obj THEN v.heap[o] ELSE Unused]]

(***************************************************************************)
(* Containers.  The container of a bag is there as long as the bag is worn *)
(* (open); its items are kept by guid, in the order they came.             *)
(***************************************************************************)
SumOf(f) == SumTo(f, LastObject)

ContainerBulk(v, s) ==
    SumOf([o \in Objects |-> IF o \in Range(v.containers[s])
                             THEN Bulk1(v.heap[o].kind) * v.heap[o].count ELSE 0])

\* Mutant: a bag takes one more than its bulk.
OneTooMany(v, s, kind, count) == ContainerBulk(v, s) + Bulk1(kind) * count <= MaxBulk + 1

HasSpace(v, s, kind, count) == ContainerBulk(v, s) + Bulk1(kind) * count <= MaxBulk

Roomy(v, kind, count) ==
    {s \in v.open : HasSpace(v, s, kind, count)}

Stacks(v, s, kind, count) ==
    {i \in DOMAIN v.containers[s] :
        /\ StackSize(kind) > 1
        /\ v.heap[v.containers[s][i]].kind = kind
        /\ v.heap[v.containers[s][i]].count + count <= StackSize(kind)}

\* Where a container has an item of this guid, and the containers that do
\* (getItemContainer).
Positions(v, s, guid) ==
    {i \in DOMAIN v.containers[s] : v.heap[v.containers[s][i]].guid = guid}
SlotsHolding(v, guid) == {s \in Slots : Positions(v, s, guid) # {}}

\* The item of its guid in the first container that holds one.
FirstHeld(v, o) ==
    /\ o \in Held(v)
    /\ o \in Range(v.containers[Min(SlotsHolding(v, v.heap[o].guid))])

\* getInventoryItem: the worn item of the guid comes before one in a container.
Found(v, o) ==
    \/ o \in Worn(v)
    \/ FirstHeld(v, o) /\ \A p \in Worn(v) : v.heap[p].guid # v.heap[o].guid

Ground(v, o) == [v EXCEPT !.ground[o] = @ + 1]

\* addContainerItem: a copy of the object, in place of one with the same guid.
AddContainerItem(v, o, s, count) ==
    LET n == NewObject(v)
        copy == [v.heap[o] EXCEPT !.count = count, !.slot = 0]
        here == Positions(v, s, v.heap[o].guid)
    IN  [Alloc(v, copy) EXCEPT !.containers[s] =
            IF here = {} THEN Append(@, n) ELSE [@ EXCEPT ![Min(here)] = n]]

AddToStack(v, s, i, count) ==
    [v EXCEPT !.heap[v.containers[s][i]].count = @ + count]

\* removeContainerItem takes from the object it is given, and from the
\* container only when that object is used up.
RemoveContainerItem(v, o, s, count) ==
    IF v.heap[o].count = count
    THEN [v EXCEPT !.containers[s] = RemoveAt(@, Min(Positions(v, s, v.heap[o].guid)))]
    ELSE [v EXCEPT !.heap[o].count = @ - count]

\* lootContainerItem: into the first container with room, onto the first stack
\* with room there, or to the ground.
LootContainerItem(v, o, count) ==
    LET kind == v.heap[o].kind
        roomy == Roomy(v, kind, count)
        s == Min(roomy)
        stacks == Stacks(v, s, kind, count)
    IN  IF roomy = {} THEN Ground(v, o)
        ELSE IF stacks = {} THEN AddContainerItem(v, o, s, count)
        ELSE AddToStack(v, s, Min(stacks), count)

(***************************************************************************)
(* The loadout.                                                            *)
(***************************************************************************)
\* equipItem: a copy of the object in the slot, and an empty container.
EquipItem(v, o, s) ==
    [Alloc(v, [v.heap[o] EXCEPT !.count = 1, !.slot = s]) EXCEPT
        !.loadout[s] = NewObject(v), !.open = @ \cup {s}, !.containers[s] = <<>>]

\* removeLoadoutItem closes the bag's container, with what is in it.
\* Mutant: the container outlives its bag.
RemoveKeepsOpen(v, s) == [v EXCEPT !.loadout[s] = Nobody]

RemoveLoadoutItem(v, s) ==
    [v EXCEPT !.loadout[s] = Nobody, !.open = @ \ {s}, !.containers[s] = <<>>]

\* lootItem: worn when its slot is free.
LootItem(v, o) ==
    LET kind == v.heap[o].kind IN
    IF kind \in Bags /\ v.loadout[kind] = Nobody
    THEN EquipItem(v, o, kind)
    ELSE LootContainerItem(v, o, v.heap[o].count)

IsWorn(v, o) ==
    LET s == v.heap[o].slot
    IN  s # 0 /\ v.loadout[s] # Nobody /\ v.heap[v.loadout[s]].guid = v.heap[o].guid

\* removeInventoryItem: from the loadout, from a container, or from nowhere; a
\* count above the stack means all of it.
RemoveInventoryItem(v, o, count) ==
    LET holding == SlotsHolding(v, v.heap[o].guid)
        some == IF count > v.heap[o].count THEN v.heap[o].count ELSE count
    IN  IF IsWorn(v, o) THEN RemoveLoadoutItem(v, v.heap[o].slot)
        ELSE IF holding = {} THEN v
        ELSE RemoveContainerItem(v, o, Min(holding), some)

(***************************************************************************)
(* dropItem compares the count of the request with what is left after the  *)
(* removal: all of a stack and less than half of it are dropped as meant;  *)
(* half of it drops the very object that stays behind, more than half and  *)
(* more than there is drop nothing, and none drops an item of none.        *)
(***************************************************************************)
DropItem(v, o, count) ==
    LET removed == RemoveInventoryItem(v, o, count)
        generated == GenerateItem(removed, v.heap[o].kind, count)
    IN  IF removed.heap[o].count = count THEN Ground(removed, o)
        ELSE IF removed.heap[o].count > count THEN Ground(generated, NewObject(removed))
        ELSE removed

(***************************************************************************)
(* equipContainerItem: the bag that was worn goes to a container.  One of  *)
(* the same guid is found equipped only after the removal.                 *)
(***************************************************************************)
\* Mutant: the bag that was worn is forgotten.
EquipForgetsOld(v, o, s) ==
    EquipItem(RemoveContainerItem(v, o, Min(SlotsHolding(v, v.heap[o].guid)), 1), o, s)

EquipContainerItem(v, o, s) ==
    LET old == v.loadout[s]
        taken == RemoveContainerItem(v, o, Min(SlotsHolding(v, v.heap[o].guid)), 1)
        stowed == IF old = Nobody THEN taken
                  ELSE LootContainerItem(RemoveLoadoutItem(taken, s), old, 1)
    IN  IF old # Nobody /\ v.heap[old].guid = v.heap[o].guid THEN taken
        ELSE EquipItem(stowed, o, s)

(***************************************************************************)
(* containerMoveItem between containers.  The containers of the loadout    *)
(* all carry one containerGuid, so that the two look the same to the code  *)
(* and the space is never checked.                                         *)
(***************************************************************************)
PutMoved(v, o, s, whole, count) ==
    IF whole THEN AddContainerItem(v, o, s, count)
    ELSE LET generated == GenerateItem(v, v.heap[o].kind, 1)
         IN  AddContainerItem(generated, NewObject(v), s, count)

\* Mutant: the size of the stack is read after the removal has altered it.
MoveAltered(v, o, from, to, count) ==
    LET removed == RemoveContainerItem(v, o, from, count)
    IN  PutMoved(removed, o, to, removed.heap[o].count = count, count)

MoveToEnd(v, o, from, to, count) ==
    PutMoved(RemoveContainerItem(v, o, from, count), o, to, v.heap[o].count = count, count)

\* Onto the item of slot i when it is a stack with room, or else to the end.
MoveOnto(v, o, from, to, i, count) ==
    LET removed == RemoveContainerItem(v, o, from, count) IN
    IF i \in Stacks(removed, to, v.heap[o].kind, count)
    THEN AddToStack(removed, to, i, count)
    ELSE PutMoved(removed, o, to, v.heap[o].count = count, count)

\* A worn bag goes to a container, as many as the request counts; when that is
\* its own container, it is gone.
StowWorn(v, s, to, count) ==
    LET removed == RemoveLoadoutItem(v, s) IN
    IF to = s THEN removed ELSE AddContainerItem(removed, v.loadout[s], to, count)

(***************************************************************************)
(* What the player does.                                                   *)
(***************************************************************************)
\* How many times an object is on the ground, in the containers and worn.
Uses(v, o) ==
    v.ground[o] + (IF o \in Held(v) THEN 1 ELSE 0) + (IF o \in Worn(v) THEN 1 ELSE 0)
Total(v, k) ==
    SumOf([o \in Objects |-> IF v.heap[o].kind = k THEN v.heap[o].count * Uses(v, o) ELSE 0])

\* A bag is worn in every slot, the first with a stack in it, and another bag
\* for the first slot lies on the ground.
Init ==
    /\ inv = [heap |-> [o \in Objects |->
                  CASE o \in Slots -> [Item(o, o, 1) EXCEPT !.slot = o]
                    [] o = LastSlot + 1 -> Item(o, Food, MaxStack)
                    [] o = LastSlot + 2 -> Item(o, 1, 1)
                    [] OTHER -> Unused],
              loadout |-> [s \in Slots |-> s],
              open |-> Slots,
              containers |-> [s \in Slots |-> IF s = 1 THEN <<LastSlot + 1>> ELSE <<>>],
              ground |-> [o \in Objects |-> IF o = LastSlot + 2 THEN 1 ELSE 0]]
    /\ timer = NoUse
    /\ ledger = [k \in Kinds |-> Total(inv, k)]
    /\ lapses = {}
    /\ requests = 0

Roomy3 == Cardinality(FreeObjects(inv)) >= 3

Request == requests < MaxRequests /\ requests' = requests + 1

Open(s) == s \in inv.open
Full(s) == inv.containers[s] # <<>>
FullBag(o) == \E s \in Slots : inv.loadout[s] = o /\ Full(s)

\* A count that is none, or more than the item has.
Miscount(o, count) == IF count \in 1 .. inv.heap[o].count THEN {} ELSE {"miscount"}

\* The step, which leads to v, takes part in the timed use under way: it touches
\* the item the timer is running on, or fills the worn bag that is.
Busy(touched, v) ==
    LET guid == inv.heap[timer.obj].guid IN
    IF /\ timer # NoUse
       /\ \/ \E o \in touched : inv.heap[o].guid = guid
          \/ \E s \in Slots : /\ v.loadout[s] # Nobody
                              /\ v.heap[v.loadout[s]].guid = guid
                              /\ v.containers[s] # <<>>
    THEN {"busy"} ELSE {}

Done(v, touched, careless) ==
    /\ Request
    /\ inv' = Collected(v, timer)
    /\ lapses' = lapses \cup Busy(touched, v) \cup careless
    /\ UNCHANGED <<timer, ledger>>

\* pickupItem: looted, and the entity is deleted.
PickUp(o) ==
    /\ o \in Lying(inv)
    /\ Roomy3
    /\ Done([LootItem(inv, o) EXCEPT !.ground[o] = @ - 1], {o}, {})

\* requestUseItem, drop.
Drop(o, count) ==
    /\ Found(inv, o)
    /\ ~FullBag(o)
    /\ Roomy3
    /\ Done(DropItem(inv, o, count), {o},
            Miscount(o, count)
                \cup (IF count < inv.heap[o].count /\ 2 * count >= inv.heap[o].count
                      THEN {"split"} ELSE {}))

\* requestUseItem, equip, and containerMoveItem from a container to the loadout.
Equip(o) ==
    LET old == inv.loadout[inv.heap[o].kind] IN
    /\ FirstHeld(inv, o)
    /\ inv.heap[o].kind \in Bags
    /\ inv.heap[o].count > 0
    /\ ~Full(inv.heap[o].kind)
    /\ Roomy3
    /\ Done(EquipContainerItem(inv, o, inv.heap[o].kind), {o, old} \ {Nobody}, {})

\* containerMoveItem from a container to a container, to the end of it or onto
\* the item at a slot of it.
Move(o, to, count) ==
    LET from == Min(SlotsHolding(inv, inv.heap[o].guid))
        overfill == from # to /\ ~HasSpace(inv, to, inv.heap[o].kind, count)
        careless == Miscount(o, count) \cup (IF overfill THEN {"overfill"} ELSE {})
    IN  /\ FirstHeld(inv, o)
        /\ Open(to)
        /\ count <= inv.heap[o].count
        /\ Roomy3
        /\ \/ Done(MoveToEnd(inv, o, from, to, count), {o}, careless)
           \/ \E i \in DOMAIN inv.containers[to] :
                 Done(MoveOnto(inv, o, from, to, i, count), {o}, careless)

\* The worn bag of a slot is what containerMoveItem finds for its guid: no
\* container holds an item of that guid.
OnlyWorn(s) ==
    inv.loadout[s] # Nobody /\ SlotsHolding(inv, inv.heap[inv.loadout[s]].guid) = {}

\* containerMoveItem from the loadout to a container.
Stow(s, to, count) ==
    LET o == inv.loadout[s] IN
    /\ OnlyWorn(s)
    /\ Open(to)
    /\ HasSpace(inv, to, s, count)
    /\ Roomy3
    /\ Done(StowWorn(inv, s, to, count), {o},
            Miscount(o, count) \cup (IF Full(s) \/ to = s THEN {"full bag"} ELSE {}))

\* containerMoveItem from the loadout to the loadout.  A bag goes to no slot but
\* its own; there it is removed as the bag that was worn, and then not found.
Rewear(s) ==
    /\ OnlyWorn(s)
    /\ Done(RemoveLoadoutItem(inv, s), {inv.loadout[s]}, {"own slot"})

\* utilizeHudTimer: a new use ends the one under way.
StartUse(o, use) ==
    /\ Found(inv, o)
    /\ (use = "consume") = (inv.heap[o].kind = Food)
    /\ (use = "shred") = (inv.heap[o].kind \in Bags)
    /\ ~FullBag(o)
    /\ Request
    /\ timer' = [use |-> use, obj |-> o]
    /\ inv' = Collected(inv, timer')
    /\ UNCHANGED <<ledger, lapses>>

\* stopHudTimer, when the character moves.
Interrupt ==
    /\ timer # NoUse
    /\ timer' = NoUse
    /\ inv' = Collected(inv, timer')
    /\ UNCHANGED <<ledger, lapses, requests>>

\* eatItemPass, drinkItemPass, useMedicalPass: whether the item was removed is
\* not looked at.
Consume ==
    LET removed == RemoveInventoryItem(inv, timer.obj, 1) IN
    /\ timer.use = "consume"
    /\ Roomy3
    /\ timer' = NoUse
    /\ inv' = Collected(LootContainerItem(GenerateItem(removed, Trash, 1), NewObject(removed), 1),
                        timer')
    /\ ledger' = [ledger EXCEPT ![Food] = @ - 1, ![Trash] = @ + 1]
    /\ UNCHANGED <<lapses, requests>>

\* shredItemPass
Shred ==
    LET removed == RemoveInventoryItem(inv, timer.obj, 1)
        kind == inv.heap[timer.obj].kind
    IN  /\ timer.use = "shred"
        /\ Roomy3
        /\ timer' = NoUse
        /\ inv' = Collected(LootItem(GenerateItem(removed, Cloth, ClothCount), NewObject(removed)),
                            timer')
        /\ ledger' = [ledger EXCEPT ![kind] = @ - 1, ![Cloth] = @ + ClothCount]
        /\ UNCHANGED <<lapses, requests>>

Next ==
    \/ \E o \in Objects : PickUp(o) \/ Equip(o)
    \/ \E o \in Objects, count \in 0..MaxCount :
          Drop(o, count) \/ \E to \in Slots : Move(o, to, count)
    \/ \E s, to \in Slots, count \in 0..MaxCount : Stow(s, to, count)
    \/ \E s \in Slots : Rewear(s)
    \/ \E o \in Objects, use \in {"consume", "shred"} : StartUse(o, use)
    \/ Interrupt
    \/ Consume
    \/ Shred

Spec == Init /\ [][Next]_vars

(***************************************************************************)
(* Properties.                                                             *)
(***************************************************************************)
\* The type invariant.  A container is open exactly where a bag is worn.  As
\* long as no request counts none or more than there is, no object that is
\* referred to has a count of zero, since a stack that is used up leaves its
\* container, and bags do not stack.
ItemType == [guid: 0..(LastObject + 1), kind: Kinds, count: 0..MaxCount, slot: {0} \cup Slots]
Inventories ==
    [heap: [Objects -> ItemType], loadout: [Slots -> {Nobody} \cup Objects],
     open: SUBSET Slots, containers: [Slots -> Seq(Objects)], ground: [Objects -> Nat]]
TypeOK ==
    /\ inv \in Inventories
    /\ \A s \in Slots :
          Open(s) <=> inv.loadout[s] # Nobody /\ inv.heap[inv.loadout[s]].kind = s
    /\ "miscount" \notin lapses =>
          \A o \in Live(inv) :
             inv.heap[o].count > 0 /\ (inv.heap[o].kind \in Bags => inv.heap[o].count = 1)
    /\ timer \in [use: {"none", "consume", "shred"}, obj: {Nobody} \cup Objects]
    /\ ledger \in [Kinds -> Int]
    /\ lapses \subseteq {"busy", "split", "overfill", "full bag", "miscount", "own slot"}
    /\ requests \in 0..MaxRequests

\* However items are moved, dropped, equipped and used up, none is lost and
\* none is made, as long as the player neither touches what a timer is running
\* on, nor drops half or more of a stack, nor stows a bag with something in it,
\* nor moves a worn bag to its own slot, nor sends a count the item has not.
Conserved ==
    lapses \subseteq {"overfill"} => \A k \in Kinds : Total(inv, k) = ledger[k]

\* The places of an object: a position in a container, a slot of the loadout,
\* entities on the ground.
Entries(v) == UNION {{s} \X DOMAIN v.containers[s] : s \in Slots}
Places(v, o) ==
    {e \in Entries(v) : v.containers[e[1]][e[2]] = o}
        \cup {<<s, 0>> : s \in {t \in Slots : v.loadout[t] = o}}
        \cup {<<0, i>> : i \in 1..v.ground[o]}

\* An item is in one place, under a guid of its own, unless half a stack was
\* dropped or a request counted none or more than there is.
OnePlace ==
    {"split", "miscount"} \cap lapses = {} =>
        /\ \A o \in Live(inv) : \A p, q \in Places(inv, o) : p = q
        /\ \A o, p \in Live(inv) : inv.heap[o].guid = inv.heap[p].guid => o = p

\* No bag holds more than its bulk, unless items were moved between bags.
WithinBulk ==
    "overfill" \notin lapses =>
        \A s \in Slots : Open(s) => ContainerBulk(inv, s) <= MaxBulk

\* A bag with something in it is never closed.
OnlyEmptyBagsClose == [][\A s \in Slots : Full(s) => Open(s)']_vars
=============================================================================
