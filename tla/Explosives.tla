----------------------------- MODULE Explosives -----------------------------
(***************************************************************************)
(* Land mines and home-made bombs on the 2016 zone server (placement and   *)
(* explodeExplosive in zoneserver.ts).  A mine looks around every 90 ms; a *)
(* bomb explodes ten seconds after each time somebody ignites it; both     *)
(* explode when they are shot, and when another explodes close by.  A      *)
(* blast waits 150 ms before each vehicle in range, then before each       *)
(* explosive close by, so that all of these happen in between; and it ends *)
(* among the vehicles, with no explosive reached, when one of them has     *)
(* left the map meanwhile and its damage throws.  What a blast does to     *)
(* players and vehicles is in Survival and Vehicles.                       *)
(***************************************************************************)
EXTENDS Naturals

CONSTANTS
    Charges,    \* explosives
    Near,       \* Near[e]: those within 2 m of e
    MaxIgnited  \* bound: pending ignitions of one bomb

VARIABLES
    charge,     \* explosive |-> "none", "mine", "bomb", "removed", "exploded"
    looks,      \* mines whose mineTimer is armed
    ignited,    \* bomb |-> pending timers of igniteIED
    atVehicles, \* explosives whose blasts wait for a vehicle
    reached,    \* explosive |-> its neighbours the blast has yet to come to
    booms       \* history: explosive |-> number of its explosions

blastVars == <<charge, looks, ignited, atVehicles, reached, booms>>

BlastInit ==
    /\ charge = [e \in Charges |-> "none"]
    /\ looks = {}
    /\ ignited = [e \in Charges |-> 0]
    /\ atVehicles = {}
    /\ reached = [e \in Charges |-> {}]
    /\ booms = [e \in Charges |-> 0]

Armed == {e \in Charges : charge[e] \in {"mine", "bomb"}}

PlaceExplosiveEntity(e, kind) ==
    /\ charge[e] = "none"
    /\ charge' = [charge EXCEPT ![e] = kind]
    /\ looks' = IF kind = "mine" THEN looks \cup {e} ELSE looks
    /\ UNCHANGED <<ignited, atVehicles, reached, booms>>

\* explosionDamage up to its first wait: with a vehicle in range that is before
\* the explosives, else before the first of them; "after" is what the blasts
\* before it have still to come to
ExplosionDamage(e, after) ==
    \/ /\ atVehicles' = atVehicles \cup {e}
       /\ reached' = after
    \/ /\ reached' = [after EXCEPT ![e] = (Armed \cap Near[e]) \ {e}]
       /\ UNCHANGED atVehicles

\* Mutant: an explosive that is gone explodes again.
ExplodeAgain(e, after) ==
    /\ charge' = [charge EXCEPT ![e] = "exploded"]
    /\ booms' = [booms EXCEPT ![e] = @ + 1]
    /\ ExplosionDamage(e, after)

\* explodeExplosive
Explode(e, after) ==
    IF e \in Armed
    THEN /\ charge' = [charge EXCEPT ![e] = "exploded"]
         /\ booms' = [booms EXCEPT ![e] = @ + 1]
         /\ ExplosionDamage(e, after)
    ELSE reached' = after /\ UNCHANGED <<charge, atVehicles, booms>>

\* somebody is close to the mine, or nobody; a mine that is gone looks no more
Look(e, close) ==
    /\ e \in looks
    /\ IF close THEN Explode(e, reached) ELSE UNCHANGED <<charge, atVehicles, reached, booms>>
    /\ looks' = IF close \/ e \notin Armed THEN looks \ {e} ELSE looks
    /\ UNCHANGED ignited

IgniteIED(e) ==
    /\ charge[e] = "bomb" /\ ignited[e] < MaxIgnited
    /\ ignited' = [ignited EXCEPT ![e] = @ + 1]
    /\ UNCHANGED <<charge, looks, atVehicles, reached, booms>>

BurnsDown(e) ==
    /\ ignited[e] > 0
    /\ ignited' = [ignited EXCEPT ![e] = @ - 1]
    /\ Explode(e, reached)
    /\ UNCHANGED looks

\* registerHit, or the blast of a vehicle close by
Shot(e) == e \in Armed /\ Explode(e, reached) /\ UNCHANGED <<looks, ignited>>

\* The vehicles have been damaged: those who stay close by are next, unless
\* damageVehicle has thrown.
VehiclesDone(e) ==
    /\ e \in atVehicles
    /\ atVehicles' = atVehicles \ {e}
    /\ \/ reached' = [reached EXCEPT ![e] = (Armed \cap Near[e]) \ {e}]
       \/ UNCHANGED reached
    /\ UNCHANGED <<charge, looks, ignited, booms>>

\* after Scheduler.wait(150); one that was removed meanwhile is skipped
BlastReaches(e, f) ==
    /\ f \in reached[e]
    /\ Explode(f, [reached EXCEPT ![e] = @ \ {f}])
    /\ UNCHANGED <<looks, ignited>>

\* an administrator's remover: deleteEntity
RemoveExplosive(e) ==
    /\ e \in Armed
    /\ charge' = [charge EXCEPT ![e] = "removed"]
    /\ UNCHANGED <<looks, ignited, atVehicles, reached, booms>>

BlastNext ==
    \E e \in Charges :
        \/ \E kind \in {"mine", "bomb"} : PlaceExplosiveEntity(e, kind)
        \/ \E close \in BOOLEAN : Look(e, close)
        \/ IgniteIED(e) \/ BurnsDown(e) \/ Shot(e) \/ RemoveExplosive(e)
        \/ VehiclesDone(e)
        \/ \E f \in Charges : BlastReaches(e, f)

BlastSpec == BlastInit /\ [][BlastNext]_blastVars

-----------------------------------------------------------------------------
\* The bound of the pending ignitions is a number.
BlastAssumption == MaxIgnited \in Nat

\* The type invariant.  A mine that is there keeps looking, and a blast is that
\* of an explosive that has exploded, on its way to others that were placed.
BlastTypeOK ==
    /\ charge \in [Charges -> {"none", "mine", "bomb", "removed", "exploded"}]
    /\ looks \subseteq Charges
    /\ ignited \in [Charges -> 0 .. MaxIgnited]
    /\ \A e \in atVehicles : e \in Charges /\ charge[e] = "exploded"
    /\ reached \in [Charges -> SUBSET Charges]
    /\ booms \in [Charges -> Nat]
    /\ \A e \in Charges :
          /\ charge[e] = "mine" => e \in looks
          /\ reached[e] \subseteq Near[e] \ {e}
          /\ reached[e] # {} => charge[e] = "exploded"
          /\ \A f \in reached[e] : charge[f] # "none"

\* An explosive explodes at most once, whatever lit it, however often, and
\* whoever removed it: its timers, shots and neighbours' blasts come late.
ExplodesOnce ==
    \A e \in Charges :
        booms[e] = IF charge[e] = "exploded" THEN 1 ELSE 0
=============================================================================
