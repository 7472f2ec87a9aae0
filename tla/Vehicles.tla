------------------------------ MODULE Vehicles ------------------------------
(***************************************************************************)
(* Vehicles of the 2016 zone server (zoneserver.ts, classes/vehicle.ts):   *)
(* who sits where, which client manages (simulates) a vehicle, the engine, *)
(* damage, burning and explosions.                                         *)
(*                                                                         *)
(* "mounted" belongs to the client and "seats" to the vehicle; "managed"   *)
(* belongs to the vehicle and "manages" to the client; nothing but the     *)
(* handlers keeps the two sides together.  The timers (burning, fuel) and  *)
(* the loop of an explosion hold on to the vehicle OBJECT across a wait,   *)
(* and the object may have left the vehicle map meanwhile.                 *)
(*                                                                         *)
(* Positions are abstracted to who is in range when a handler asks.        *)
(* Condition is counted in units of the damage of one tick of burning; a   *)
(* vehicle that left the map has its seats emptied here, for nothing finds *)
(* them any more.  Who is dead is asked only when a vehicle explodes.      *)
(* Spectator cameras, parachutes and the /hax commands are left out.       *)
(***************************************************************************)
EXTENDS Naturals, FiniteSets, SequencesExt

CONSTANTS
    Clients,     \* connected players, each with its character
    VehicleIds,  \* every vehicle that is ever created
    LastSeat,    \* seats are 0 .. LastSeat, the driver's is 0
    Full,        \* condition of a new vehicle
    Critical,    \* at or below it a vehicle burns
    MaxVisits,   \* bound: connections, over all players
    None

ASSUME SeatsAndCondition ==
    /\ LastSeat \in Nat
    /\ {Full, Critical} \subseteq Nat \ {0} /\ Critical < Full
    /\ MaxVisits \in Nat
    /\ None \notin Clients \cup VehicleIds

Seats == 0 .. LastSeat

VARIABLES
    online,     \* _clients, in the order the handlers visit it
    mounted,    \* client.vehicle.mountedVehicle
    manages,    \* client.managedObjects
    status,     \* "unborn", "here" in _vehicles, or "gone" from it
    seats,      \* vehicle.seats
    managed,    \* vehicle.isManaged
    engineOn,   \* vehicle.engineOn
    updater,    \* the fuel timer (vehicle.resourcesUpdater) is pending
    condition,  \* vehicle._resources[CONDITION]
    burning,    \* vehicle.damageTimeout: "unset", "pending" or "fired"
    blasts,     \* explosions between two vehicles of their loop
    explosions, \* history: explosions of each vehicle so far
    visits

players == <<online, mounted, manages>>
bodies == <<status, seats, managed, engineOn, updater>>
damages == <<condition, burning, blasts, explosions>>
vars == <<players, bodies, damages, visits>>

Init ==
    /\ online = <<>>
    /\ mounted = [c \in Clients |-> None]
    /\ manages = [c \in Clients |-> {}]
    /\ status = [v \in VehicleIds |-> "unborn"]
    /\ seats = [v \in VehicleIds |-> [i \in Seats |-> None]]
    /\ managed = [v \in VehicleIds |-> FALSE]
    /\ engineOn = [v \in VehicleIds |-> FALSE]
    /\ updater = [v \in VehicleIds |-> FALSE]
    /\ condition = [v \in VehicleIds |-> Full]
    /\ burning = [v \in VehicleIds |-> "unset"]
    /\ blasts = {}
    /\ explosions = [v \in VehicleIds |-> 0]
    /\ visits = 0

Online == ToSet(online)
Here == {v \in VehicleIds : status[v] = "here"}
SeatOf(v, c) == {i \in Seats : seats[v][i] = c}
FreeSeats(v) == {i \in Seats : seats[v][i] = None}
FirstFree(v) == {i \in FreeSeats(v) : \A j \in FreeSeats(v) : i <= j}
NoOne == [i \in Seats |-> None]

-----------------------------------------------------------------------------
(* Management of the simulation. *)

TakeoverKeepsOld(c, v) == [manages EXCEPT ![c] = @ \cup {v}]

\* takeoverManagedObject: the first client found managing v gives it up, and
\* the new driver gets it; nothing happens when the driver manages it already
Takeover(c, v) ==
    LET m == [manages EXCEPT ![c] = @ \cup {v}]
        old == {d \in Online \ {c} : v \in manages[d]}
    IN  IF v \in manages[c] \/ old = {}
        THEN m
        ELSE [m EXCEPT ![CHOOSE d \in old : TRUE] = @ \ {v}]

\* vehicleManager for one client: an unmanaged vehicle in range is assigned to
\* it, a vehicle it manages and has left behind is dropped
Manage(state, c, range) ==
    [mgr |-> [state.mgr EXCEPT ![c] =
                (@ \cap range[c]) \cup {v \in Here \cap range[c] : ~state.on[v]}
                    \cup (@ \ Here)],
     on |-> [v \in VehicleIds |->
                IF v \notin Here THEN state.on[v]
                ELSE IF v \in range[c] THEN TRUE
                     ELSE state.on[v] /\ v \notin state.mgr[c]]]

\* who manages what after the first i clients were asked
Rounds(range) ==
    LET after[i \in 0 .. Len(online)] ==
            IF i = 0 THEN [mgr |-> manages, on |-> managed]
            ELSE Manage(after[i - 1], online[i], range)
    IN  after

\* worldRoutine runs vehicleManager for every client in turn.  Whoever sits in
\* a vehicle is where the vehicle is.
WorldRoutine ==
    \E range \in [Online -> SUBSET Here] :
        LET end == Rounds(range)[Len(online)]
        IN  /\ \A c \in Online, v \in Here : SeatOf(v, c) # {} => v \in range[c]
            /\ manages' = end.mgr
            /\ managed' = end.on
            /\ UNCHANGED <<online, mounted, status, seats, engineOn,
                           updater, damages, visits>>

-----------------------------------------------------------------------------
(* Players. *)

Connect(c) ==
    /\ c \notin Online /\ visits < MaxVisits
    /\ online' = Append(online, c)
    /\ visits' = visits + 1
    /\ UNCHANGED <<mounted, manages, bodies, damages>>

\* dismountVehicle finds the vehicle and the seat, or returns
IsSeated(c) == mounted[c] \in Here /\ SeatOf(mounted[c], c) # {}

\* the seats and engines after dismountVehicle(c)
SeatsWithout(c) ==
    IF ~IsSeated(c) THEN seats
    ELSE [seats EXCEPT ![mounted[c]] =
            [i \in Seats |-> IF @[i] = c THEN None ELSE @[i]]]

EnginesWithout(c) ==
    IF IsSeated(c) /\ seats[mounted[c]][0] = c
    THEN [engineOn EXCEPT ![mounted[c]] = FALSE]
    ELSE engineOn

MountedWithout(c) == IF IsSeated(c) THEN [mounted EXCEPT ![c] = None] ELSE mounted

\* a player's request to get out, or its respawn
Dismount(c) ==
    /\ c \in Online /\ IsSeated(c)
    /\ seats' = SeatsWithout(c)
    /\ engineOn' = EnginesWithout(c)
    /\ mounted' = MountedWithout(c)
    /\ UNCHANGED <<online, manages, status, managed, updater, damages, visits>>

\* mountVehicle: the vehicle is noted before a seat is looked for.  A driver
\* takes over the management, and starts the engine if there is fuel, which
\* starts the fuel timer.
Mount(c, v) ==
    /\ c \in Online /\ mounted[c] = None /\ v \in Here
    /\ mounted' = [mounted EXCEPT ![c] = v]
    /\ IF FreeSeats(v) = {}
       THEN UNCHANGED <<manages, bodies>>
       ELSE \E i \in FirstFree(v), fuelled \in BOOLEAN :
              /\ seats' = [seats EXCEPT ![v][i] = c]
              /\ manages' = IF i = 0 THEN Takeover(c, v) ELSE manages
              /\ managed' = [managed EXCEPT ![v] =
                                @ \/ (i = 0 /\ v \notin manages[c])]
              /\ engineOn' = [engineOn EXCEPT ![v] = @ \/ (i = 0 /\ fuelled)]
              /\ updater' = [updater EXCEPT ![v] = @ \/ (i = 0 /\ fuelled)]
              /\ UNCHANGED status
    /\ UNCHANGED <<online, damages, visits>>

ChangeSeatKeepsOld(c, to) ==
    /\ c \in Online /\ IsSeated(c) /\ to \in FreeSeats(mounted[c])
    /\ seats' = [seats EXCEPT ![mounted[c]][to] = c]
    /\ manages' = IF to = 0 THEN Takeover(c, mounted[c]) ELSE manages
    /\ managed' = [managed EXCEPT ![mounted[c]] = @ \/ to = 0]
    /\ UNCHANGED <<online, mounted, status, engineOn, updater, damages, visits>>

\* a mounted vehicle that is gone makes changeSeat throw before it writes
ChangeSeat(c, to) ==
    LET v == mounted[c] IN
    /\ c \in Online /\ IsSeated(c) /\ to \in FreeSeats(v)
    /\ seats' = [seats EXCEPT ![v] =
                    [i \in Seats |-> IF i = to THEN c
                                     ELSE IF @[i] = c THEN None ELSE @[i]]]
    /\ manages' = IF to = 0 THEN Takeover(c, v) ELSE manages
    /\ managed' = [managed EXCEPT ![v] = @ \/ (to = 0 /\ v \notin manages[c])]
    /\ UNCHANGED <<online, mounted, status, engineOn, updater, damages, visits>>

\* the fuel timer stops by itself once it finds the engine off, or the
\* vehicle gone
FuelTick(v) ==
    /\ updater[v]
    /\ updater' = [updater EXCEPT ![v] = v \in Here /\ engineOn[v]]
    /\ UNCHANGED <<players, status, seats, managed, engineOn, damages, visits>>

\* deleteClient: the client object goes with its managedObjects and its
\* mountedVehicle; dropVehicleManager leaves isManaged as it is
DeleteClient(c) ==
    /\ \E i \in DOMAIN online : online[i] = c /\ online' = RemoveAt(online, i)
    /\ seats' = SeatsWithout(c)
    /\ engineOn' = EnginesWithout(c)
    /\ mounted' = [mounted EXCEPT ![c] = None]
    /\ manages' = [manages EXCEPT ![c] = {}]
    /\ UNCHANGED <<status, managed, updater, damages, visits>>

-----------------------------------------------------------------------------
(* Vehicles come and go. *)

CreateVehicle(v) ==
    /\ status[v] = "unborn"
    /\ status' = [status EXCEPT ![v] = "here"]
    /\ UNCHANGED <<players, seats, managed, engineOn, updater, damages, visits>>

\* vehicleDismiss: the one who asks gets out, the others do not
VehicleDismiss(c) ==
    LET v == mounted[c] IN
    /\ c \in Online /\ v # None
    /\ mounted' = MountedWithout(c)
    /\ status' = [status EXCEPT ![v] = "gone"]
    /\ seats' = [seats EXCEPT ![v] = NoOne]
    /\ engineOn' = [engineOn EXCEPT ![v] = FALSE]
    /\ UNCHANGED <<online, manages, managed, updater, damages, visits>>

\* explosionDamage up to its first wait, or onwards after one: the vehicles of
\* "left" that are still in the map are visited until one is in range, and
\* that one's damage waits 150 ms
Loop(by, nth, left) ==
    {{}} \cup {{[by |-> by, nth |-> nth, target |-> t, left |-> left \ {t}]} :
                  t \in left}

\* destroyVehicle on the object of v: the explosion hurts the players around,
\* then the dead who had mounted v are dismounted, then v leaves the map
DestroyVehicle(v, others) ==
    \E dead \in SUBSET Online :
    \E blast \in Loop(v, explosions[v] + 1, Here \ {v}) :
        /\ mounted' = [c \in Clients |->
                IF mounted[c] = v /\ IsSeated(c) /\ c \in dead THEN None
                ELSE mounted[c]]
        /\ status' = [status EXCEPT ![v] = "gone"]
        /\ seats' = [seats EXCEPT ![v] = NoOne]
        /\ engineOn' = [engineOn EXCEPT ![v] = FALSE]
        /\ condition' = [condition EXCEPT ![v] = 0]
        /\ explosions' = [explosions EXCEPT ![v] = @ + 1]
        /\ blasts' = others \cup blast

\* destroyedState changes when the condition falls into a lower band: none,
\* critical, supercritical
Band(n) == IF n > Critical THEN 0 ELSE IF n > 1 THEN 3 ELSE 4

\* damageVehicle on the object of v; "others" are the explosions pending besides
DamageVehicle(v, damage, others) ==
    IF condition[v] <= damage
    THEN DestroyVehicle(v, others)
    ELSE /\ condition' = [condition EXCEPT ![v] = @ - damage]
         /\ blasts' = others
         /\ UNCHANGED <<mounted, status, seats, engineOn, explosions>>

\* Noting the new band of a vehicle that has left the map makes damageVehicle
\* throw, out of the timer or the loop that called it.
Throws(v, damage) ==
    LET left == condition[v] - damage IN
    v \notin Here /\ condition[v] > damage /\ Band(left) \notin {0, Band(condition[v])}

BurningBelow(v, damage) ==
    IF v \in Here /\ condition[v] > damage /\ burning[v] = "unset" /\ Band(condition[v] - damage) = 3
    THEN [burning EXCEPT ![v] = "pending"]
    ELSE burning

\* the burning timer is set once, when a survivor enters one of the low bands
BurningAfter(v, damage) ==
    LET left == condition[v] - damage IN
    IF /\ v \in Here /\ condition[v] > damage
       /\ burning[v] = "unset" /\ Band(left) \notin {0, Band(condition[v])}
    THEN [burning EXCEPT ![v] = "pending"]
    ELSE burning

\* a shot, a collision or a mine
Hit(v, damage) ==
    /\ v \in Here
    /\ DamageVehicle(v, damage, blasts)
    /\ burning' = BurningAfter(v, damage)
    /\ UNCHANGED <<online, manages, managed, updater, visits>>

BurnTick(v) ==
    /\ burning[v] = "pending"
    /\ DamageVehicle(v, 1, blasts)
    /\ burning' = [burning EXCEPT ![v] = IF condition'[v] > 0 /\ ~Throws(v, 1) THEN @ ELSE "fired"]
    /\ UNCHANGED <<online, manages, managed, updater, visits>>

\* the vehicle an explosion was waiting for is damaged, whatever became of it
\* in between, and the loop goes on unless that throws
BlastHit(b, damage) ==
    LET survivors == IF condition[b.target] <= damage THEN Here \ {b.target} ELSE Here IN
    /\ \E next \in IF Throws(b.target, damage) THEN {{}}
                  ELSE Loop(b.by, b.nth, b.left \cap survivors) :
          DamageVehicle(b.target, damage, (blasts \ {b}) \cup next)
    /\ burning' = BurningAfter(b.target, damage)
    /\ UNCHANGED <<online, manages, managed, updater, visits>>

-----------------------------------------------------------------------------
Next ==
    \/ WorldRoutine
    \/ \E c \in Clients :
          \/ Connect(c) \/ DeleteClient(c)
          \/ Dismount(c) \/ VehicleDismiss(c)
          \/ \E v \in VehicleIds : Mount(c, v)
          \/ \E i \in Seats : ChangeSeat(c, i)
    \/ \E v \in VehicleIds :
          \/ CreateVehicle(v) \/ FuelTick(v) \/ BurnTick(v)
          \/ \E damage \in 1 .. Full : Hit(v, damage)
    \/ \E b \in blasts, damage \in 1 .. Full : BlastHit(b, damage)

Spec == Init /\ [][Next]_vars

\* timers fire
FairSpec == Spec /\ \A v \in VehicleIds : WF_vars(BurnTick(v))

-----------------------------------------------------------------------------
\* The type invariant.  An explosion never waits for the damage of the vehicle
\* that explodes (explosionDamage leaves it out).
TypeOK ==
    /\ online \in Seq(Clients) /\ Len(online) = Cardinality(Online)
    /\ mounted \in [Clients -> VehicleIds \cup {None}]
    /\ manages \in [Clients -> SUBSET VehicleIds]
    /\ status \in [VehicleIds -> {"unborn", "here", "gone"}]
    /\ seats \in [VehicleIds -> [Seats -> Clients \cup {None}]]
    /\ managed \in [VehicleIds -> BOOLEAN]
    /\ engineOn \in [VehicleIds -> BOOLEAN]
    /\ updater \in [VehicleIds -> BOOLEAN]
    /\ condition \in [VehicleIds -> 0 .. Full]
    /\ burning \in [VehicleIds -> {"unset", "pending", "fired"}]
    /\ \A b \in blasts : b.target # b.by /\ b.left \subseteq VehicleIds \ {b.by, b.target}
    /\ explosions \in [VehicleIds -> Nat]
    /\ visits \in 0 .. MaxVisits

\* Whoever has a seat is connected, has that vehicle mounted, and has one seat:
\* mountVehicle, changeSeat, dismountVehicle and deleteClient keep the vehicle's
\* side of a seat and the client's side of it together.
SeatsAreMounted ==
    \A v \in Here, c \in Clients :
        SeatOf(v, c) # {} => c \in Online /\ mounted[c] = v /\ Cardinality(SeatOf(v, c)) = 1

\* No vehicle is simulated by two clients, and the one that does is connected
\* and known to isManaged, so that vehicleManager assigns no second one; the
\* driver is that client, however he came to the wheel: by getting in, or by
\* moving over from another seat.
OneManager ==
    \A v \in VehicleIds :
        LET managers == {c \in Clients : v \in manages[c]} IN
        /\ Cardinality(managers) <= 1
        /\ managers # {} => managers \subseteq Online /\ managed[v]
        /\ v \in Here /\ seats[v][0] # None => seats[v][0] \in managers

\* A vehicle in one of the two low bands explodes in the end, whichever way its
\* damage came (startVehicleDamageDelay).
CriticalExplodes ==
    \A v \in VehicleIds : (v \in Here /\ condition[v] <= Critical) ~> v \notin Here
=============================================================================
