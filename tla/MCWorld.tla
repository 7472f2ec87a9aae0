------------------------------ MODULE MCWorld ------------------------------
(***************************************************************************)
(* Parts of the 2016 zone's world that share no state, one per behaviour:  *)
(* "part" is chosen at the start, and the others stay as they are.         *)
(***************************************************************************)
EXTENDS Vehicles, Construction, Crafting

CONSTANTS
    Parts       \* the parts a run is about

VARIABLES
    part

worldVars == <<part, vars, craftVars, buildVars>>

\* The chain log (1), plank (2), stick (3) of recipes.json (its items 16, 109 and
\* 111), a hoe (4) of a stick and a plank, and a bow (5) of two sticks.
Part(i, n) == [item |-> i, amount |-> n]
WorldRecipes ==
    [r \in 2 .. 5 |-> CASE r = 2 -> <<Part(1, 1)>>
                        [] r = 3 -> <<Part(2, 1)>>
                        [] r = 4 -> <<Part(3, 1), Part(2, 1)>>
                        [] r = 5 -> <<Part(3, 2)>>]
WorldStock == <<2, 1, 1, 0, 0>>

WorldInit ==
    /\ part \in Parts
    /\ Init
    /\ CraftInit
    /\ part # "crafting" => bag = [i \in Items |-> 0]
    /\ BuildInit

VehiclesStep == part = "vehicles" /\ UNCHANGED <<part, craftVars, buildVars>> /\ Next
CraftingStep == part = "crafting" /\ UNCHANGED <<part, vars, buildVars>> /\ CraftNext
ConstructionStep == part = "construction" /\ UNCHANGED <<part, vars, craftVars>> /\ BuildNext

WorldSpec ==
    /\ WorldInit
    /\ [][VehiclesStep \/ CraftingStep \/ ConstructionStep]_worldVars
    /\ \A v \in VehicleIds : WF_vars(BurnTick(v))

\* The type invariants of the three parts: besides types, that an explosion
\* leaves out its own vehicle, a pending making has a timer, and an expansion is
\* in its foundation's slots.
TypesOK ==
    /\ TypeOK
    /\ CraftTypeOK
    /\ BuildTypeOK

\* Crafting: planning takes from the counts exactly what the recipes need.
PlanningExact == part = "crafting" => PlanIsExact
=============================================================================
