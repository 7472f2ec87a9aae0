------------------------------ MODULE Crafting ------------------------------
(***************************************************************************)
(* Crafting on the 2016 zone server (classes/craftmanager.ts).  A request  *)
(* makes a CraftManager with a private copy of what the inventory holds.   *)
(* craftItem works on the copy first: it makes what is missing by calling  *)
(* itself, takes the components off the copy and adds the product to it.   *)
(* Then it waits for the player's only hud timer, and does the same to the *)
(* inventory, which may have changed meanwhile.                            *)
(*                                                                         *)
(* The copy is never written from outside, so that all that craftItem will *)
(* do is known when the request arrives: "Plan" computes the makings in    *)
(* the order of their timers, and an action for each of them does it.      *)
(* Items are counted, whatever stacks and containers they lie in, and a    *)
(* product always fits in a container.                                     *)
(***************************************************************************)
EXTENDS Loops, Sequences

CONSTANTS
    LastItem,    \* item definitions, numbered so that a thing comes after
                 \* everything it is made of
    Recipes,     \* craftable item |-> sequence of [item, amount]
    Managers,    \* requests of the player, one CraftManager each
    MaxCount,    \* bound: items asked for in a request
    MaxLoops,    \* maxCraftLoopCount
    MaxAmount,   \* the most a recipe asks of one component
    Stock,       \* bound: items of each kind the inventory may hold at first
    NoManager

Items == 1 .. LastItem
Craftable == DOMAIN Recipes

\* Recipes are lists of components, and none leads back to itself: so it is in
\* recipes.json, and so the items can be numbered.
ASSUME CraftAssumption ==
    /\ {LastItem, MaxCount, MaxLoops} \subseteq Nat /\ MaxAmount \in Nat \ {0}
    /\ Craftable \subseteq Items
    /\ \A r \in Craftable : Recipes[r] \in Seq([item : 1 .. (r - 1), amount : 1 .. MaxAmount])
    /\ Stock \in [Items -> Nat]
    /\ NoManager \notin Managers

VARIABLES
    bag,       \* the items in the containers
    todo,      \* makings each manager has still to do, <<>> when it has returned
    timer,     \* the manager whose callback the hud timer holds, or NoManager
    requests,  \* managers not yet created
    touched    \* history: managers in whose time others changed the inventory

craftVars == <<bag, todo, timer, requests, touched>>

Makings == [item : Craftable, count : Nat \ {0}]

\* what a CraftManager keeps: its copy of the inventory, the makings planned so
\* far, craftLoopCount, and whether craftItem has not failed
Runs == [copy : [Items -> Nat], makings : Seq(Makings), loops : Nat, ok : BOOLEAN]
Run(copy) == [copy |-> copy, makings |-> <<>>, loops |-> 0, ok |-> TRUE]

-----------------------------------------------------------------------------
(* The plan.  A run that has failed stays as it is. *)

Failed(run) == [run EXCEPT !.ok = FALSE]

\* removeCraftComponent, and what takes a component from the inventory
Take(run, item, n) ==
    IF ~run.ok THEN run
    ELSE IF run.copy[item] < n THEN Failed(run)
    ELSE [run EXCEPT !.copy[item] = @ - n]

\* Mutant: the stack is used again in every round.
ToMakeStale(have, amount, round) == IF have >= amount THEN 0 ELSE amount - have

\* what the copy has of a component is used up first, the rest of every round
\* is made
ToMake(have, amount, round) ==
    LET used == (round - 1) * amount IN
    IF have - used >= amount THEN 0
    ELSE IF have - used > 0 THEN amount - (have - used) ELSE amount

\* the rounds of making a component the copy has too few of
MakeMissing(craft, run, part, count) ==
    Repeat([k \in 1 .. count |-> craft[part.item][ToMake(run.copy[part.item], part.amount, k)]],
           run, count)

\* one component of a recipe
Component(craft, run, part, count) ==
    LET need == part.amount * count IN
    IF ~run.ok \/ run.copy[part.item] >= need THEN Take(run, part.item, need)
    ELSE IF part.item \notin Craftable THEN Failed(run)
    ELSE Take(MakeMissing(craft, run, part, count), part.item, need)

Components(craft, run, r, count) ==
    Repeat([k \in 1 .. Len(Recipes[r]) |->
              [s \in Runs |-> Component(craft, s, Recipes[r][k], count)]], run, Len(Recipes[r]))

\* the dummy item is pushed, and the timer of the making is next
Planned(run, r, count) ==
    IF ~run.ok THEN run
    ELSE [run EXCEPT !.copy[r] = @ + count,
                     !.makings = Append(@, [item |-> r, count |-> count])]

Counted(run) == [run EXCEPT !.loops = @ + 1]

\* craftItem, when at most n calls of it can still be nested; as every call is
\* counted in loops, more than MaxLoops never are
CraftItem[n \in 0 .. MaxLoops] ==
    [r \in Craftable |-> [count \in Nat |-> [run \in Runs |->
        IF ~run.ok \/ count = 0 THEN run
        ELSE IF n = 0 \/ run.loops >= MaxLoops THEN Failed(Counted(run))
        ELSE Planned(Components(CraftItem[n - 1], Counted(run), r, count), r, count)]]]

\* start: one at a time, until one fails
Plan(copy, r, count) ==
    Repeat([k \in 1 .. count |-> CraftItem[MaxLoops][r][1]], Run(copy), count)

-----------------------------------------------------------------------------
CraftInit ==
    /\ bag \in {b \in [Items -> UNION {0 .. Stock[i] : i \in Items}] :
                    \A i \in Items : b[i] <= Stock[i]}
    /\ todo = [m \in Managers |-> <<>>]
    /\ timer = NoManager
    /\ requests = Managers
    /\ touched = {}

CraftRequest(m, r, count) ==
    /\ m \in requests
    /\ requests' = requests \ {m}
    /\ todo' = [todo EXCEPT ![m] = Plan(bag, r, count).makings]
    /\ timer' = IF todo'[m] = <<>> THEN timer ELSE m
    /\ UNCHANGED <<bag, touched>>

\* Mutant: the last component is not taken.
AllButLastTaken(making) ==
    LET parts == Recipes[making.item] IN
    Repeat([k \in 1 .. Len(parts) |-> [s \in Runs |->
              Take(s, parts[k].item, parts[k].amount * making.count)]], Run(bag), Len(parts) - 1)

\* the components are taken from the inventory one after the other, and what was
\* taken before one of them is short is not given back
Taken(making) ==
    LET parts == Recipes[making.item] IN
    Repeat([k \in 1 .. Len(parts) |-> [s \in Runs |->
              Take(s, parts[k].item, parts[k].amount * making.count)]], Run(bag), Len(parts))

Suffices(making) == Taken(making).ok

\* generateItem makes one, and lootItem stores no more than that
Looted(b, making) == [b EXCEPT ![making.item] = @ + 1]

\* the hud timer fires
Make(m) ==
    LET making == Head(todo[m])
        rest == Taken(making).copy
    IN  /\ timer = m
        /\ bag' = IF Suffices(making) THEN Looted(rest, making) ELSE rest
        /\ todo' = [todo EXCEPT ![m] = IF Suffices(making) THEN Tail(@) ELSE <<>>]
        /\ timer' = IF todo'[m] = <<>> THEN NoManager ELSE m
        /\ touched' = touched \cup {n \in Managers \ {m} : todo[n] # <<>>}
        /\ UNCHANGED requests

\* moving, mounting, eating, ...: the timer is given another callback, and the
\* craft that waits for it waits for ever
TimerTaken ==
    /\ timer # NoManager
    /\ timer' = NoManager
    /\ UNCHANGED <<bag, todo, requests, touched>>

\* the player drops or uses an item while something is made
ItemGoes(i) ==
    /\ timer # NoManager /\ bag[i] > 0
    /\ bag' = [bag EXCEPT ![i] = @ - 1]
    /\ touched' = touched \cup {m \in Managers : todo[m] # <<>>}
    /\ UNCHANGED <<todo, timer, requests>>

CraftNext ==
    \/ \E m \in Managers, r \in Craftable, count \in 1 .. MaxCount : CraftRequest(m, r, count)
    \/ \E m \in Managers : Make(m)
    \/ TimerTaken
    \/ \E i \in Items : ItemGoes(i)

CraftSpec == CraftInit /\ [][CraftNext]_craftVars

-----------------------------------------------------------------------------
\* The type invariant.  Amounts stay natural numbers, although makings of two
\* managers take from one inventory; a pending timer has a making to do.
CraftTypeOK ==
    /\ bag \in [Items -> Nat]
    /\ todo \in [Managers -> Seq(Makings)]
    /\ timer \in Managers \cup {NoManager}
    /\ timer # NoManager => todo[timer] # <<>>
    /\ requests \subseteq Managers /\ touched \subseteq Managers \ requests

\* what the first n components of a recipe ask of an item, and all of them
Needs(r, i, n) ==
    SumTo([k \in DOMAIN Recipes[r] |-> IF Recipes[r][k].item = i THEN Recipes[r][k].amount ELSE 0], n)
Amount(r, i) == Needs(r, i, Len(Recipes[r]))

\* what a number of makings of each item does to item i
Made(made, i) == IF i \in Craftable THEN made[i] ELSE 0
Spent(made, i) ==
    SumTo([r \in Items |-> IF r \in Craftable THEN made[r] * Amount(r, i) ELSE 0], LastItem)
Net(made, i) == Made(made, i) - Spent(made, i)

\* Whether r can be made at all: some number of makings of each item that leaves
\* no item in debt, and one more of r than there was.
Feasible(r, b) ==
    \E made \in [Craftable -> 0 .. MaxLoops * MaxAmount] : \A i \in Items :
        b[i] + Net(made, i) >= IF i = r THEN b[r] + 1 ELSE 0

\* Unless craftItem gives up at its limit, it says yes exactly when there is a
\* way to make the item from what the inventory holds: the rounds, the dummy
\* products and the nested calls neither spend an item twice nor overlook one.
\* (Asked of the inventories a first request may find.)
PlanIsExact ==
    requests = Managers => \A r \in Craftable :
        Plan(bag, r, 1).loops <= MaxLoops => (Plan(bag, r, 1).ok <=> Feasible(r, bag))

\* As long as nobody else changes the inventory, every making finds in it what
\* the plan took off the copy ("if inventory doesn't have component but has
\* materials for it", craftmanager.ts).
PlanHolds ==
    \A m \in Managers \ touched :
        timer = m => Suffices(Head(todo[m]))

\* what an item is worth in raw items
Worth[i \in Items] ==
    IF i \notin Craftable THEN 1
    ELSE SumTo([k \in 1 .. Len(Recipes[i]) |-> Recipes[i][k].amount * Worth[Recipes[i][k].item]],
               Len(Recipes[i]))

Value(b) == SumTo([i \in Items |-> b[i] * Worth[i]], LastItem)

\* Crafting never creates value: whatever two requests and the player do to the
\* inventory between their timers, its worth in raw items does not grow.
NothingFromNothing == [][bag' # bag => Value(bag') <= Value(bag)]_bag
=============================================================================
