----------------------------- MODULE WorldProofs -----------------------------
(***************************************************************************)
(* Proofs about the vehicles and the bases of the 2016 zone server, for    *)
(* any number of clients, vehicles, seats, foundations and walls, and any  *)
(* damage.                                                                 *)
(***************************************************************************)
EXTENDS MCWorld, CraftingProofs, FiniteSetTheorems, TLAPS

-----------------------------------------------------------------------------
(* The two sides of a seat. *)

\* The variables the seats depend on keep their types.
SeatTypes ==
    /\ online \in Seq(Clients)
    /\ mounted \in [Clients -> VehicleIds \cup {None}]
    /\ status \in [VehicleIds -> {"unborn", "here", "gone"}]
    /\ seats \in [VehicleIds -> [Seats -> Clients \cup {None}]]

\* Nobody sits in a vehicle that is not there yet.
UnbornEmpty ==
    \A v \in VehicleIds, i \in Seats : status[v] = "unborn" => seats[v][i] = None

\* SeatsAreMounted, seat by seat.
EachSeatMounted ==
    \A v \in VehicleIds, i \in Seats :
        status[v] = "here" /\ seats[v][i] # None =>
            /\ seats[v][i] \in Online
            /\ mounted[seats[v][i]] = v
            /\ \A j \in Seats : seats[v][j] = seats[v][i] => j = i

IInv == SeatTypes /\ UnbornEmpty /\ EachSeatMounted

-----------------------------------------------------------------------------
\* What is removed from a sequence is one element, and no other.
LEMMA RemoveAtKeeps ==
    ASSUME NEW s \in Seq(Clients), NEW i \in DOMAIN s
    PROVE  /\ RemoveAt(s, i) \in Seq(Clients)
           /\ \A d \in ToSet(s) : d # s[i] => d \in ToSet(RemoveAt(s, i))
           /\ (\A j, k \in DOMAIN s : s[j] = s[k] => j = k) =>
                \A j, k \in DOMAIN RemoveAt(s, i) :
                  RemoveAt(s, i)[j] = RemoveAt(s, i)[k] => j = k
<1> DEFINE r == RemoveAt(s, i)
<1>1. /\ r \in Seq(Clients) /\ Len(r) = Len(s) - 1
      /\ \A j \in 1 .. Len(s) - 1 : r[j] = IF j < i THEN s[j] ELSE s[j + 1]
  BY RemoveAtIs
<1>2. ASSUME NEW j \in DOMAIN s, s[j] # s[i] PROVE s[j] \in ToSet(r)
  <2>1. CASE j < i
    BY <1>1, <2>1 DEF ToSet
  <2>2. CASE j > i
    <3>1. j - 1 \in DOMAIN r /\ r[j - 1] = s[j]
      BY <1>1, <2>2
    <3> QED BY <3>1 DEF ToSet
  <2> QED BY <1>2, <2>1, <2>2
<1>3. ASSUME \A j, k \in DOMAIN s : s[j] = s[k] => j = k,
             NEW j \in DOMAIN r, NEW k \in DOMAIN r, r[j] = r[k]
      PROVE  j = k
  <2>1. j \in 1 .. Len(s) - 1 /\ k \in 1 .. Len(s) - 1 /\ DOMAIN s = 1 .. Len(s) /\ i \in Nat
    BY <1>1
  <2> HIDE DEF r
  <2>2. (IF j < i THEN s[j] ELSE s[j + 1]) = (IF k < i THEN s[k] ELSE s[k + 1])
    BY <1>1, <1>3, <2>1
  <2> QED BY <1>3, <2>1, <2>2
<1> QED BY <1>1, <1>2, <1>3 DEF ToSet

\* What is appended to a sequence takes nobody away.
LEMMA AppendKeeps ==
    ASSUME NEW s \in Seq(Clients), NEW c \in Clients
    PROVE  Append(s, c) \in Seq(Clients) /\ ToSet(s) \subseteq ToSet(Append(s, c))
<1>1. Append(s, c) \in Seq(Clients) /\ \A j \in DOMAIN s : j \in DOMAIN Append(s, c) /\ Append(s, c)[j] = s[j]
  OBVIOUS
<1> QED BY <1>1 DEF ToSet

\* The invariant is what the property says.
LEMMA Implied == IInv => SeatsAreMounted
<1> SUFFICES ASSUME IInv, NEW v \in Here, NEW c \in Clients, SeatOf(v, c) # {}
             PROVE  c \in Online /\ mounted[c] = v /\ Cardinality(SeatOf(v, c)) = 1
  BY DEF SeatsAreMounted
<1>1. PICK i \in Seats : seats[v][i] = c
  BY DEF SeatOf
<1>2. c # None /\ v \in VehicleIds /\ status[v] = "here"
  BY SeatsAndCondition DEF Here
<1>3. c \in Online /\ mounted[c] = v
  BY <1>1, <1>2 DEF IInv, EachSeatMounted
<1>4. SeatOf(v, c) = {i}
  BY <1>1, <1>2 DEF IInv, EachSeatMounted, SeatOf
<1> QED BY <1>3, <1>4, FS_Singleton

\* At first the seats are empty.
LEMMA InitIInv == Init => IInv
  BY SeatsAndCondition DEF Init, IInv, SeatTypes, UnbornEmpty, EachSeatMounted, NoOne

\* c gets out of the seat it has, if it has one.
LEMMA Leaves ==
    ASSUME IInv, NEW c \in Clients
    PROVE  /\ SeatsWithout(c) \in [VehicleIds -> [Seats -> Clients \cup {None}]]
           /\ MountedWithout(c) \in [Clients -> VehicleIds \cup {None}]
           /\ \A d \in Clients \ {c} : MountedWithout(c)[d] = mounted[d]
           /\ \A v \in VehicleIds, i \in Seats :
                /\ SeatsWithout(c)[v][i] \in {seats[v][i], None}
                /\ status[v] = "here" => SeatsWithout(c)[v][i] # c
<1>0. c # None
  BY SeatsAndCondition
<1>1. CASE IsSeated(c)
  BY <1>0, <1>1 DEF IInv, SeatTypes, EachSeatMounted, IsSeated, SeatOf, Here, SeatsWithout, MountedWithout
<1>2. CASE ~IsSeated(c)
  BY <1>0, <1>2 DEF IInv, SeatTypes, EachSeatMounted, IsSeated, SeatOf, Here, SeatsWithout, MountedWithout
<1> QED BY <1>1, <1>2

-----------------------------------------------------------------------------
\* A step that only takes people out of seats and of vehicles keeps the
\* invariant, as long as nobody who keeps a seat is taken from it.
LEMMA Emptied ==
    ASSUME IInv, SeatTypes', status' = status,
           \A v \in VehicleIds, i \in Seats :
             /\ seats'[v][i] \in {seats[v][i], None}
             /\ status[v] = "here" /\ seats'[v][i] # None =>
                  /\ seats'[v][i] \in Online'
                  /\ mounted'[seats'[v][i]] = mounted[seats'[v][i]]
    PROVE  IInv'
<1>1. UnbornEmpty'
  BY DEF IInv, UnbornEmpty
<1>2. EachSeatMounted'
  BY DEF IInv, EachSeatMounted
<1> QED BY <1>1, <1>2 DEF IInv

\* Who connects has no seat, and nobody else is changed.
LEMMA ConnectStep == ASSUME IInv, NEW c \in Clients, Connect(c) PROVE IInv'
<1>1. online' \in Seq(Clients) /\ Online \subseteq Online'
  BY AppendKeeps DEF Connect, IInv, SeatTypes, Online
<1>2. UNCHANGED <<mounted, status, seats>>
  BY DEF Connect, bodies
<1> QED BY <1>1, <1>2 DEF IInv, SeatTypes, UnbornEmpty, EachSeatMounted

\* Who dismounts leaves both sides of the seat.
LEMMA DismountStep == ASSUME IInv, NEW c \in Clients, Dismount(c) PROVE IInv'
<1>1. /\ seats' = SeatsWithout(c) /\ mounted' = MountedWithout(c)
      /\ UNCHANGED <<online, status>>
  BY DEF Dismount
<1>2. SeatTypes'
  BY <1>1, Leaves DEF IInv, SeatTypes
<1>3. Online' = Online
  BY <1>1 DEF Online
<1> QED BY <1>1, <1>2, <1>3, Leaves, Emptied DEF IInv, SeatTypes, EachSeatMounted

\* Who leaves the server leaves the seat first.
LEMMA DeleteClientStep == ASSUME IInv, NEW c \in Clients, DeleteClient(c) PROVE IInv'
<1>1. /\ seats' = SeatsWithout(c) /\ mounted' = [mounted EXCEPT ![c] = None]
      /\ status' = status
  BY DEF DeleteClient
<1>2. online' \in Seq(Clients) /\ \A d \in Online : d # c => d \in Online'
  BY RemoveAtKeeps DEF DeleteClient, IInv, SeatTypes, Online
<1>3. SeatTypes'
  BY <1>1, <1>2, Leaves DEF IInv, SeatTypes
<1> QED BY <1>1, <1>2, <1>3, Leaves, Emptied DEF IInv, SeatTypes, EachSeatMounted

\* The seat that is taken is free, and who takes it has none.
LEMMA MountStep ==
    ASSUME IInv, NEW c \in Clients, NEW v \in VehicleIds, Mount(c, v) PROVE IInv'
<1>1. /\ c \in Online /\ mounted[c] = None /\ status[v] = "here" /\ c # None /\ v # None
      /\ mounted' = [mounted EXCEPT ![c] = v] /\ online' = online /\ Online' = Online
      /\ status' = status
  BY SeatsAndCondition DEF Mount, Here, Online, bodies
<1>2. \A w \in VehicleIds, i \in Seats : status[w] = "here" => seats[w][i] # c
  BY <1>1, SeatsAndCondition DEF IInv, EachSeatMounted
<1>3. CASE seats' = seats
  BY <1>1, <1>2, <1>3 DEF IInv, SeatTypes, UnbornEmpty, EachSeatMounted
<1>4. ASSUME NEW i \in FreeSeats(v), seats' = [seats EXCEPT ![v][i] = c] PROVE IInv'
  <2>1. i \in Seats /\ seats[v][i] = None
    BY DEF FreeSeats
  <2>2. SeatTypes' /\ UnbornEmpty'
    BY <1>1, <1>4, <2>1 DEF IInv, SeatTypes, UnbornEmpty
  <2>3. \A w \in VehicleIds, j \in Seats :
          seats'[w][j] = IF w = v /\ j = i THEN c ELSE seats[w][j]
    BY <1>4, <2>1 DEF IInv, SeatTypes
  <2>4. EachSeatMounted'
    BY <1>1, <1>2, <2>1, <2>3 DEF IInv, SeatTypes, EachSeatMounted
  <2> QED BY <2>2, <2>4 DEF IInv
<1> QED BY <1>3, <1>4 DEF Mount, FirstFree, bodies

\* The seat that is left is emptied when the other is taken.
LEMMA ChangeSeatStep ==
    ASSUME IInv, NEW c \in Clients, NEW to \in Seats, ChangeSeat(c, to) PROVE IInv'
<1> DEFINE v == mounted[c]
<1>1. /\ c \in Online /\ v \in VehicleIds /\ status[v] = "here" /\ c # None
      /\ seats[v][to] = None
      /\ UNCHANGED <<online, mounted, status>> /\ Online' = Online
      /\ seats' = [seats EXCEPT ![v] =
                      [i \in Seats |-> IF i = to THEN c ELSE IF @[i] = c THEN None ELSE @[i]]]
  BY SeatsAndCondition DEF ChangeSeat, IsSeated, FreeSeats, Here, Online
<1>2. mounted[c] = v
  OBVIOUS
<1> HIDE DEF v
<1>3. SeatTypes' /\ UnbornEmpty'
  BY <1>1 DEF IInv, SeatTypes, UnbornEmpty
<1>4. \A w \in VehicleIds, j \in Seats :
        seats'[w][j] = IF w # v THEN seats[w][j]
                       ELSE IF j = to THEN c ELSE IF seats[w][j] = c THEN None ELSE seats[w][j]
  BY <1>1 DEF IInv, SeatTypes
<1>5. EachSeatMounted'
  BY <1>1, <1>2, <1>4 DEF IInv, SeatTypes, EachSeatMounted
<1> QED BY <1>3, <1>5 DEF IInv

\* A new vehicle has empty seats.
LEMMA CreateVehicleStep ==
    ASSUME IInv, NEW v \in VehicleIds, CreateVehicle(v) PROVE IInv'
<1>1. /\ status[v] = "unborn" /\ status' = [status EXCEPT ![v] = "here"]
      /\ UNCHANGED <<online, mounted, seats>> /\ Online' = Online
  BY DEF CreateVehicle, players, Online
<1> QED BY <1>1 DEF IInv, SeatTypes, UnbornEmpty, EachSeatMounted

\* A vehicle that leaves the map takes its seats with it.
LEMMA VehicleGone ==
    ASSUME IInv, NEW v, online' = online,
           mounted' \in [Clients -> VehicleIds \cup {None}],
           \A c \in Clients : mounted[c] # v => mounted'[c] = mounted[c],
           status' = [status EXCEPT ![v] = "gone"],
           seats' = [seats EXCEPT ![v] = NoOne]
    PROVE  IInv'
<1>1. Online' = Online
  BY DEF Online
<1>2. SeatTypes' /\ UnbornEmpty'
  BY DEF IInv, SeatTypes, UnbornEmpty, NoOne
<1>3. \A w \in VehicleIds : status'[w] = "here" =>
        w # v /\ status[w] = "here" /\ seats'[w] = seats[w]
  BY DEF IInv, SeatTypes
<1>4. EachSeatMounted'
  BY <1>1, <1>3, SeatsAndCondition DEF IInv, SeatTypes, EachSeatMounted
<1> QED BY <1>2, <1>4 DEF IInv

\* A dismissed vehicle loses its seats, its passengers are not looked for.
LEMMA VehicleDismissStep ==
    ASSUME IInv, NEW c \in Clients, VehicleDismiss(c) PROVE IInv'
<1>1. /\ mounted' = MountedWithout(c) /\ online' = online
      /\ status' = [status EXCEPT ![mounted[c]] = "gone"]
      /\ seats' = [seats EXCEPT ![mounted[c]] = NoOne]
  BY DEF VehicleDismiss
<1>2. \A d \in Clients : mounted[d] # mounted[c] => mounted'[d] = mounted[d]
  BY <1>1, Leaves
<1> QED BY <1>1, <1>2, Leaves, VehicleGone

\* Damage changes no seat, unless it destroys the vehicle.
LEMMA DamageKeeps ==
    ASSUME IInv, NEW v, NEW damage, NEW others, online' = online,
           DamageVehicle(v, damage, others)
    PROVE  IInv'
<1>1. CASE DestroyVehicle(v, others)
  <2>1. /\ mounted' \in [Clients -> VehicleIds \cup {None}]
        /\ \A c \in Clients : mounted[c] # v => mounted'[c] = mounted[c]
        /\ status' = [status EXCEPT ![v] = "gone"]
        /\ seats' = [seats EXCEPT ![v] = NoOne]
    BY <1>1 DEF DestroyVehicle, IInv, SeatTypes
  <2> QED BY <2>1, VehicleGone
<1>2. CASE UNCHANGED <<mounted, status, seats>>
  BY <1>2 DEF IInv, SeatTypes, UnbornEmpty, EachSeatMounted, Online
<1> QED BY <1>1, <1>2 DEF DamageVehicle

\* Every step keeps the invariant.
LEMMA NextIInv == IInv /\ [Next]_vars => IInv'
<1> SUFFICES ASSUME IInv, [Next]_vars PROVE IInv'
  OBVIOUS
<1>1. CASE WorldRoutine \/ UNCHANGED vars \/ \E v \in VehicleIds : FuelTick(v)
  <2>1. UNCHANGED <<online, mounted, status, seats>>
    BY <1>1 DEF WorldRoutine, FuelTick, vars, players, bodies
  <2> QED BY <2>1 DEF IInv, SeatTypes, UnbornEmpty, EachSeatMounted, Online
<1>2. ASSUME NEW c \in Clients,
             \/ Connect(c) \/ DeleteClient(c)
             \/ Dismount(c) \/ VehicleDismiss(c)
             \/ \E v \in VehicleIds : Mount(c, v)
             \/ \E i \in Seats : ChangeSeat(c, i)
      PROVE  IInv'
  BY <1>2, ConnectStep, DeleteClientStep, DismountStep, VehicleDismissStep, MountStep,
     ChangeSeatStep
<1>3. ASSUME NEW v \in VehicleIds, CreateVehicle(v) PROVE IInv'
  BY <1>3, CreateVehicleStep
<1>4. ASSUME NEW v \in VehicleIds, BurnTick(v) PROVE IInv'
  BY <1>4, DamageKeeps DEF BurnTick
<1>5. ASSUME NEW v \in VehicleIds, NEW damage \in 1 .. Full, Hit(v, damage) PROVE IInv'
  BY <1>5, DamageKeeps DEF Hit
<1>6. ASSUME NEW b \in blasts, NEW damage \in 1 .. Full, BlastHit(b, damage) PROVE IInv'
  BY <1>6, DamageKeeps DEF BlastHit
<1> QED BY <1>1, <1>2, <1>3, <1>4, <1>5, <1>6 DEF Next

-----------------------------------------------------------------------------
(* Who simulates what. *)

\* The other variables keep their types.
BodyTypes ==
    /\ manages \in [Clients -> SUBSET VehicleIds]
    /\ managed \in [VehicleIds -> BOOLEAN]
    /\ engineOn \in [VehicleIds -> BOOLEAN]
    /\ updater \in [VehicleIds -> BOOLEAN]

DamageTypes ==
    /\ condition \in [VehicleIds -> 0 .. Full]
    /\ burning \in [VehicleIds -> {"unset", "pending", "fired"}]
    /\ \A b \in blasts : b.target # b.by /\ b.left \subseteq VehicleIds \ {b.by, b.target}
    /\ explosions \in [VehicleIds -> Nat]
    /\ visits \in 0 .. MaxVisits

\* Nobody is connected twice.
NoDoubles == \A i, j \in DOMAIN online : online[i] = online[j] => i = j

\* OneManager of a pair of manages and managed, vehicle by vehicle.
Sound(mgr, on) ==
    \A v \in VehicleIds :
        /\ \A c, d \in Clients : v \in mgr[c] /\ v \in mgr[d] => c = d
        /\ \A c \in Clients : v \in mgr[c] => c \in Online /\ on[v]
        /\ status[v] = "here" /\ seats[v][0] # None => v \in mgr[seats[v][0]]

Simulated == Sound(manages, managed)

VehicleIInv == IInv /\ BodyTypes /\ DamageTypes /\ NoDoubles /\ Simulated

\* A list that names everybody once is as long as they are many.
LEMMA LengthOfOnline ==
    ASSUME SeatTypes, NoDoubles
    PROVE  Len(online) = Cardinality(Online)
<1> DEFINE D == 1 .. Len(online)
<1>1. Len(online) \in Nat /\ DOMAIN online = D /\ online \in [D -> Clients]
  BY DEF SeatTypes
<1>2. online \in Surjection(D, Online)
  BY <1>1 DEF Surjection, Online, ToSet
<1>3. online \in Injection(D, Online)
  BY <1>1, <1>2 DEF Injection, IsInjective, NoDoubles, Surjection
<1>4. IsFiniteSet(D) /\ Cardinality(D) = Len(online)
  BY <1>1, FS_Interval, SMTT(30)
<1> HIDE DEF D
<1> QED BY <1>2, <1>3, <1>4, FS_Surjection

\* The invariant is what the properties say.
LEMMA VehicleImplied == VehicleIInv => TypeOK /\ OneManager
<1> SUFFICES ASSUME VehicleIInv PROVE TypeOK /\ OneManager
  OBVIOUS
<1>1. TypeOK
  BY LengthOfOnline DEF VehicleIInv, IInv, SeatTypes, BodyTypes, DamageTypes, TypeOK
<1>2. ASSUME NEW v \in VehicleIds
      PROVE  LET managers == {c \in Clients : v \in manages[c]} IN
             /\ Cardinality(managers) <= 1
             /\ managers # {} => managers \subseteq Online /\ managed[v]
             /\ v \in Here /\ seats[v][0] # None => seats[v][0] \in managers
  <2> DEFINE managers == {c \in Clients : v \in manages[c]}
  <2>1. managers = {} \/ \E c : managers = {c}
    BY DEF VehicleIInv, Simulated, Sound
  <2>2. Cardinality(managers) <= 1
    <3> HIDE DEF managers
    <3>1. Cardinality(managers) = 0 \/ Cardinality(managers) = 1
      BY <2>1, FS_EmptySet, FS_Singleton, Zenon
    <3> QED BY <3>1
  <2>3. managers # {} => managers \subseteq Online /\ managed[v]
    BY DEF VehicleIInv, Simulated, Sound
  <2>4. 0 \in Seats
    BY SeatsAndCondition DEF Seats
  <2>5. v \in Here /\ seats[v][0] # None => seats[v][0] \in managers
    BY <2>4 DEF VehicleIInv, Simulated, Sound, Here, IInv, SeatTypes
  <2> QED BY <2>2, <2>3, <2>5
<1> QED BY <1>1, <1>2 DEF OneManager

\* The round of one client (vehicleManager): it drops only what it left behind,
\* and takes only what nobody simulates.
LEMMA ManageKeeps ==
    ASSUME NEW range \in [Online -> SUBSET Here], NEW c \in Online, c \in Clients,
           \A v \in Here : SeatOf(v, c) # {} => v \in range[c],
           NEW s, s.mgr \in [Clients -> SUBSET VehicleIds], s.on \in [VehicleIds -> BOOLEAN],
           Sound(s.mgr, s.on)
    PROVE  LET t == Manage(s, c, range) IN
           /\ t.mgr \in [Clients -> SUBSET VehicleIds] /\ t.on \in [VehicleIds -> BOOLEAN]
           /\ Sound(t.mgr, t.on)
<1> DEFINE mgr == s.mgr
           on == s.on
           t == Manage(s, c, range)
           new == (mgr[c] \cap range[c]) \cup {v \in Here \cap range[c] : ~on[v]}
                    \cup (mgr[c] \ Here)
<1>0. Here \subseteq VehicleIds /\ range[c] \subseteq Here
  BY DEF Here
<1>1. t.mgr = [mgr EXCEPT ![c] = new]
  BY DEF Manage
<1>2. t.on = [v \in VehicleIds |->
                IF v \notin Here THEN on[v]
                ELSE IF v \in range[c] THEN TRUE
                     ELSE on[v] /\ v \notin mgr[c]]
  BY DEF Manage
<1>3. mgr \in [Clients -> SUBSET VehicleIds] /\ on \in [VehicleIds -> BOOLEAN] /\ Sound(mgr, on)
  OBVIOUS
<1> HIDE DEF mgr, on, t
<1>4. new \subseteq VehicleIds
  BY <1>0, <1>3
<1>5. \A v \in VehicleIds :
        /\ v \in new => (v \in mgr[c] /\ (v \in range[c] \/ v \notin Here)) \/ (v \in range[c] /\ ~on[v])
        /\ v \in mgr[c] /\ v \notin new => v \in Here /\ v \notin range[c]
        /\ v \in range[c] /\ ~on[v] => v \in new
  BY <1>0
<1> HIDE DEF new
<1>6. t.mgr \in [Clients -> SUBSET VehicleIds] /\ t.on \in [VehicleIds -> BOOLEAN]
  BY <1>1, <1>2, <1>3, <1>4
<1>7. \A d \in Clients : t.mgr[d] = IF d = c THEN new ELSE mgr[d]
  BY <1>1, <1>3
<1>8. ASSUME NEW v \in VehicleIds
      PROVE  /\ \A d, e \in Clients : v \in t.mgr[d] /\ v \in t.mgr[e] => d = e
             /\ \A d \in Clients : v \in t.mgr[d] => d \in Online /\ t.on[v]
             /\ status[v] = "here" /\ seats[v][0] # None => v \in t.mgr[seats[v][0]]
  <2>1. /\ \A d, e \in Clients : v \in mgr[d] /\ v \in mgr[e] => d = e
        /\ \A d \in Clients : v \in mgr[d] => d \in Online /\ on[v]
        /\ status[v] = "here" /\ seats[v][0] # None => v \in mgr[seats[v][0]]
    BY <1>3 DEF Sound
  <2>2. t.on[v] <=> IF v \notin Here THEN on[v]
                    ELSE v \in range[c] \/ (on[v] /\ v \notin mgr[c])
    BY <1>2, <1>3
  <2>3. v \in Here /\ seats[v][0] = c => v \in range[c]
    <3>1. 0 \in Seats
      BY SeatsAndCondition DEF Seats
    <3> QED BY <3>1 DEF SeatOf
  <2>4. \A d, e \in Clients : v \in t.mgr[d] /\ v \in t.mgr[e] => d = e
    BY <1>5, <1>7, <2>1
  <2>5. \A d \in Clients : v \in t.mgr[d] => d \in Online /\ t.on[v]
    BY <1>0, <1>5, <1>7, <2>1, <2>2
  <2>6. status[v] = "here" /\ seats[v][0] # None => v \in t.mgr[seats[v][0]]
    <3> SUFFICES ASSUME status[v] = "here", seats[v][0] # None PROVE v \in t.mgr[seats[v][0]]
      OBVIOUS
    <3>1. v \in Here /\ v \in mgr[seats[v][0]]
      BY <2>1 DEF Here
    <3>2. CASE seats[v][0] = c
      BY <1>5, <1>7, <2>1, <2>3, <3>1, <3>2
    <3>3. CASE seats[v][0] # c
      BY <1>1, <3>1, <3>3, <1>3
    <3> QED BY <3>2, <3>3
  <2> QED BY <2>4, <2>5, <2>6
<1>9. Sound(t.mgr, t.on)
  BY <1>8 DEF Sound
<1> QED BY <1>6, <1>9 DEF t

\* The recursive definition of Rounds has a solution.
LEMMA RoundsSteps ==
    ASSUME NEW range, Len(online) \in Nat
    PROVE  /\ Rounds(range)[0] = [mgr |-> manages, on |-> managed]
           /\ \A i \in 1 .. Len(online) :
                Rounds(range)[i] = Manage(Rounds(range)[i - 1], online[i], range)
<1> DEFINE N == Len(online)
           first == [mgr |-> manages, on |-> managed]
           Solves(g, n) ==
             /\ g = [i \in 0 .. n |-> g[i]]
             /\ \A i \in 0 .. n :
                  g[i] = IF i = 0 THEN first ELSE Manage(g[i - 1], online[i], range)
           Solved == {n \in 0 .. N : \E g : Solves(g, n)}
<1> HIDE DEF first
<1>1. 0 \in Solved
  <2> DEFINE h == [i \in 0 .. 0 |-> first]
  <2>1. h = [i \in 0 .. 0 |-> h[i]] /\ \A i \in 0 .. 0 : i = 0 /\ h[i] = first
    OBVIOUS
  <2>2. Solves(h, 0)
    <3> HIDE DEF h
    <3> QED BY <2>1
  <2>3. 0 \in 0 .. N
    OBVIOUS
  <2> QED BY <2>2, <2>3
<1>2. ASSUME NEW n \in 0 .. (N - 1), n \in Solved PROVE n + 1 \in Solved
  <2>1. PICK g : Solves(g, n)
    BY <1>2
  <2> DEFINE h == [i \in 0 .. (n + 1) |->
                     IF i <= n THEN g[i] ELSE Manage(g[n], online[i], range)]
  <2>2. \A i \in 0 .. n : g[i] = IF i = 0 THEN first ELSE Manage(g[i - 1], online[i], range)
    BY <2>1
  <2>3. \A i \in 0 .. (n + 1) :
          h[i] = IF i = 0 THEN first ELSE Manage(h[i - 1], online[i], range)
    BY <2>2
  <2>4. Solves(h, n + 1)
    <3> HIDE DEF h
    <3>1. h = [i \in 0 .. (n + 1) |-> h[i]]
      BY DEF h
    <3> QED BY <2>3, <3>1
  <2>5. n + 1 \in 0 .. N
    OBVIOUS
  <2> QED BY <2>4, <2>5
<1>3. N \in Solved
  <2>1. \A i \in 0 .. (N - 1) : i \in Solved => i + 1 \in Solved
    BY <1>2
  <2>2. N \in Nat
    OBVIOUS
  <2> HIDE DEF Solved, N
  <2>3. \A i \in 0 .. N : i \in Solved
    BY <1>1, <2>1, <2>2, UpTo
  <2> QED BY <2>2, <2>3
<1>4. Rounds(range) = [i \in 0 .. Len(online) |->
          IF i = 0 THEN [mgr |-> manages, on |-> managed]
          ELSE Manage(Rounds(range)[i - 1], online[i], range)]
  <2>1. PICK g : g = [i \in 0 .. Len(online) |->
          IF i = 0 THEN [mgr |-> manages, on |-> managed]
          ELSE Manage(g[i - 1], online[i], range)]
    BY <1>3 DEF first
  <2> QED BY <2>1 DEF Rounds
<1> DEFINE r == Rounds(range)
<1>5. r = [i \in 0 .. Len(online) |-> IF i = 0 THEN first ELSE Manage(r[i - 1], online[i], range)]
  BY <1>4 DEF first
<1>6. r[0] = first /\ \A i \in 1 .. Len(online) : r[i] = Manage(r[i - 1], online[i], range)
  <2> HIDE DEF r
  <2> QED BY <1>5
<1> QED BY <1>6 DEF first

\* The worldRoutine as a whole.
LEMMA WorldRoutineKeeps ==
    ASSUME VehicleIInv, WorldRoutine
    PROVE  BodyTypes' /\ Simulated'
<1>1. PICK range \in [Online -> SUBSET Here] :
        /\ \A c \in Online, v \in Here : SeatOf(v, c) # {} => v \in range[c]
        /\ manages' = Rounds(range)[Len(online)].mgr
        /\ managed' = Rounds(range)[Len(online)].on
  BY DEF WorldRoutine
<1> DEFINE N == Len(online)
           r == Rounds(range)
           Good == {i \in 0 .. N :
                      /\ r[i].mgr \in [Clients -> SUBSET VehicleIds]
                      /\ r[i].on \in [VehicleIds -> BOOLEAN]
                      /\ Sound(r[i].mgr, r[i].on)}
<1>2. N \in Nat /\ \A i \in 1 .. N : online[i] \in Online /\ online[i] \in Clients
  BY DEF VehicleIInv, IInv, SeatTypes, Online, ToSet
<1>3. /\ r[0] = [mgr |-> manages, on |-> managed]
      /\ \A i \in 1 .. N : r[i] = Manage(r[i - 1], online[i], range)
  BY <1>2, RoundsSteps
<1> HIDE DEF N, r
<1>4. 0 \in Good
  BY <1>2, <1>3 DEF VehicleIInv, BodyTypes, Simulated
<1>5. ASSUME NEW i \in 0 .. (N - 1), i \in Good PROVE i + 1 \in Good
  <2>1. i + 1 \in 1 .. N /\ i + 1 \in 0 .. N /\ (i + 1) - 1 = i
    BY <1>2
  <2> DEFINE c == online[i + 1]
             s == r[i]
  <2>2. /\ c \in Online /\ c \in Clients
        /\ \A v \in Here : SeatOf(v, c) # {} => v \in range[c]
    BY <1>1, <1>2, <2>1
  <2>3. r[i + 1] = Manage(s, c, range)
    BY <1>3, <2>1
  <2>4. /\ s.mgr \in [Clients -> SUBSET VehicleIds] /\ s.on \in [VehicleIds -> BOOLEAN]
        /\ Sound(s.mgr, s.on)
    BY <1>5
  <2> HIDE DEF c, s
  <2> DEFINE t == Manage(s, c, range)
  <2>5. /\ t.mgr \in [Clients -> SUBSET VehicleIds] /\ t.on \in [VehicleIds -> BOOLEAN]
        /\ Sound(t.mgr, t.on)
    BY <2>2, <2>4, ManageKeeps
  <2> HIDE DEF t
  <2> QED BY <2>1, <2>3, <2>5 DEF t
<1>6. N \in Good
  <2>1. \A i \in 0 .. (N - 1) : i \in Good => i + 1 \in Good
    BY <1>5
  <2> HIDE DEF Good
  <2>2. \A i \in 0 .. N : i \in Good
    BY <1>2, <1>4, <2>1, UpTo
  <2> QED BY <1>2, <2>2
<1>7. /\ manages' \in [Clients -> SUBSET VehicleIds]
      /\ managed' \in [VehicleIds -> BOOLEAN]
      /\ Sound(manages', managed')
  BY <1>1, <1>6 DEF N, r
<1>8. UNCHANGED <<online, status, seats, engineOn, updater>>
  BY DEF WorldRoutine
<1>9. Online' = Online
  BY <1>8 DEF Online
<1> QED BY <1>7, <1>8, <1>9 DEF Simulated, Sound, BodyTypes, VehicleIInv

\* A step that leaves who manages what as it is, and puts nobody at a wheel,
\* keeps OneManager, as long as whoever manages a vehicle stays connected.
LEMMA SameManagers ==
    ASSUME VehicleIInv, UNCHANGED <<manages, managed>>,
           \A v \in VehicleIds :
             status'[v] = "here" /\ seats'[v][0] # None =>
               status[v] = "here" /\ seats'[v][0] = seats[v][0],
           \A c \in Online : manages[c] = {} \/ c \in Online'
    PROVE  Simulated'
  BY DEF VehicleIInv, Simulated, Sound

\* The driver takes over what another simulated, or nobody (takeoverManagedObject).
LEMMA TakeoverKeeps ==
    ASSUME VehicleIInv, NEW c \in Online, NEW v \in Here,
           manages' = Takeover(c, v), managed' = [managed EXCEPT ![v] = TRUE],
           UNCHANGED <<online, status>>, seats'[v][0] = c,
           \A w \in VehicleIds \ {v} : seats'[w][0] = seats[w][0]
    PROVE  manages' \in [Clients -> SUBSET VehicleIds] /\ Simulated'
<1>0. /\ c \in Clients /\ v \in VehicleIds /\ Online' = Online
      /\ manages \in [Clients -> SUBSET VehicleIds]
      /\ managed \in [VehicleIds -> BOOLEAN] /\ Online \subseteq Clients
  BY DEF VehicleIInv, IInv, SeatTypes, BodyTypes, Online, ToSet, Here
<1> DEFINE old == {d \in Online \ {c} : v \in manages[d]}
           m == [manages EXCEPT ![c] = manages[c] \cup {v}]
           x == CHOOSE d \in old : TRUE
<1>1. \A d, e \in Clients : v \in manages[d] /\ v \in manages[e] => d = e
  BY <1>0 DEF VehicleIInv, Simulated, Sound
<1>2. \A d \in Clients : v \in manages[d] => d \in Online
  BY <1>0 DEF VehicleIInv, Simulated, Sound
<1>3. /\ manages' \in [Clients -> SUBSET VehicleIds]
      /\ \A d \in Clients : manages'[d] = IF d = c THEN manages[d] \cup {v} ELSE manages[d] \ {v}
  <2>1. CASE v \in manages[c] \/ old = {}
    <3>1. manages' = m
      BY <2>1 DEF Takeover
    <3>2. \A d \in Clients \ {c} : v \notin manages[d]
      BY <1>0, <1>1, <1>2, <2>1
    <3>3. \A d \in Clients \ {c} : manages[d] \ {v} = manages[d]
      BY <3>2
    <3>4. \A d \in Clients : m[d] = IF d = c THEN manages[c] \cup {v} ELSE manages[d]
      BY <1>0
    <3>5. m \in [Clients -> SUBSET VehicleIds]
      BY <1>0
    <3> HIDE DEF m
    <3> QED BY <3>1, <3>3, <3>4, <3>5
  <2>2. CASE ~(v \in manages[c] \/ old = {})
    <3>1. manages' = [m EXCEPT ![x] = @ \ {v}]
      BY <2>2 DEF Takeover
    <3>2. x \in Online /\ x # c /\ v \in manages[x]
      BY <2>2
    <3> HIDE DEF x
    <3>3. \A d \in Clients : v \in manages[d] <=> d = x
      BY <1>0, <1>1, <3>2
    <3>4. \A d \in Clients \ {x} : manages[d] \ {v} = manages[d]
      BY <3>3
    <3>5. x \in Clients /\ m[x] = manages[x] /\ m \in [Clients -> SUBSET VehicleIds]
      BY <1>0, <3>2
    <3>6. manages' = [m EXCEPT ![x] = manages[x] \ {v}]
      BY <3>1, <3>5
    <3>7. \A d \in Clients :
            manages'[d] = IF d = x THEN manages[x] \ {v}
                          ELSE IF d = c THEN manages[c] \cup {v} ELSE manages[d]
      BY <1>0, <3>5, <3>6
    <3>8. manages' \in [Clients -> SUBSET VehicleIds]
      BY <3>5, <3>6
    <3> QED BY <3>2, <3>4, <3>7, <3>8
  <2> QED BY <2>1, <2>2
<1>4. ASSUME NEW w \in VehicleIds
      PROVE  /\ \A d, e \in Clients : w \in manages'[d] /\ w \in manages'[e] => d = e
             /\ \A d \in Clients : w \in manages'[d] => d \in Online /\ managed'[w]
             /\ status[w] = "here" /\ seats'[w][0] # None => w \in manages'[seats'[w][0]]
  <2>1. CASE w = v
    BY <1>0, <1>3, <2>1
  <2>2. CASE w # v
    <3>1. \A d \in Clients : w \in manages'[d] <=> w \in manages[d]
      BY <1>3, <2>2
    <3>2. managed'[w] = managed[w] /\ seats'[w][0] = seats[w][0]
      BY <1>0, <2>2
    <3>3. seats[w][0] \in Clients \cup {None}
      BY SeatsAndCondition DEF VehicleIInv, IInv, SeatTypes, Seats
    <3>4. /\ \A d, e \in Clients : w \in manages[d] /\ w \in manages[e] => d = e
          /\ \A d \in Clients : w \in manages[d] => d \in Online /\ managed[w]
          /\ status[w] = "here" /\ seats[w][0] # None => w \in manages[seats[w][0]]
      BY DEF VehicleIInv, Simulated, Sound
    <3> QED BY <3>1, <3>2, <3>3, <3>4
  <2> QED BY <2>1, <2>2
<1> QED BY <1>0, <1>3, <1>4 DEF Simulated, Sound


\* What the steps of a client do to who simulates what.
LEMMA ClientKeepsManagers ==
    ASSUME VehicleIInv, NEW c \in Clients,
           \/ Connect(c) \/ DeleteClient(c)
           \/ Dismount(c) \/ VehicleDismiss(c)
    PROVE  BodyTypes' /\ Simulated'
<1>0. /\ BodyTypes /\ IInv /\ 0 \in Seats /\ Online \subseteq Clients
      /\ seats \in [VehicleIds -> [Seats -> Clients \cup {None}]] /\ c # None
      /\ status \in [VehicleIds -> {"unborn", "here", "gone"}]
  BY SeatsAndCondition DEF VehicleIInv, IInv, SeatTypes, Seats, Online, ToSet
<1>1. EnginesWithout(c) \in [VehicleIds -> BOOLEAN]
  <2>1. CASE EnginesWithout(c) = engineOn
    BY <1>0, <2>1, Zenon DEF BodyTypes
  <2>2. CASE EnginesWithout(c) = [engineOn EXCEPT ![mounted[c]] = FALSE]
    BY <1>0, <2>2, Zenon DEF BodyTypes
  <2> QED BY <2>1, <2>2 DEF EnginesWithout
<1>2. \A v \in VehicleIds : status[v] = "here" =>
        \/ SeatsWithout(c)[v][0] = None
        \/ SeatsWithout(c)[v][0] = seats[v][0] /\ seats[v][0] # c
  BY <1>0, Leaves
<1>3. CASE Connect(c)
  <2>1. Online \subseteq Online'
    BY <1>3, AppendKeeps DEF Connect, IInv, SeatTypes, Online, VehicleIInv
  <2>2. UNCHANGED <<manages, managed, status, seats, engineOn, updater>>
    BY <1>3 DEF Connect, bodies
  <2> QED BY <1>0, <2>1, <2>2, SameManagers DEF BodyTypes
<1>4. CASE Dismount(c)
  <2>1. /\ UNCHANGED <<manages, managed, status, updater, online>>
        /\ seats' = SeatsWithout(c) /\ engineOn' = EnginesWithout(c)
    BY <1>4 DEF Dismount
  <2>2. Online' = Online
    BY <2>1 DEF Online
  <2> QED BY <1>0, <1>1, <1>2, <2>1, <2>2, SameManagers DEF BodyTypes
<1>5. CASE VehicleDismiss(c)
  <2> DEFINE v == mounted[c]
  <2>1. /\ UNCHANGED <<manages, managed, updater, online>>
        /\ status' = [status EXCEPT ![v] = "gone"]
        /\ seats' = [seats EXCEPT ![v] = NoOne]
        /\ engineOn' = [engineOn EXCEPT ![v] = FALSE]
    BY <1>5 DEF VehicleDismiss
  <2> HIDE DEF v
  <2>2. Online' = Online
    BY <2>1 DEF Online
  <2>3. engineOn' \in [VehicleIds -> BOOLEAN]
    BY <1>0, <2>1, Zenon DEF BodyTypes
  <2>4. \A w \in VehicleIds : status'[w] = "here" => w # v /\ status[w] = "here" /\ seats'[w] = seats[w]
    BY <1>0, <2>1
  <2> QED BY <1>0, <2>1, <2>2, <2>3, <2>4, SameManagers DEF BodyTypes
<1>6. CASE DeleteClient(c)
  <2>1. /\ UNCHANGED <<managed, status, updater>>
        /\ manages' = [manages EXCEPT ![c] = {}]
        /\ seats' = SeatsWithout(c) /\ engineOn' = EnginesWithout(c)
    BY <1>6 DEF DeleteClient
  <2>2. \A d \in Online : d # c => d \in Online'
    BY <1>6, RemoveAtKeeps DEF DeleteClient, IInv, SeatTypes, Online, VehicleIInv
  <2>3. /\ manages' \in [Clients -> SUBSET VehicleIds] /\ manages'[c] = {}
        /\ \A d \in Clients : d # c => manages'[d] = manages[d]
    BY <1>0, <2>1 DEF BodyTypes
  <2>4. ASSUME NEW v \in VehicleIds
        PROVE  /\ \A d, e \in Clients : v \in manages'[d] /\ v \in manages'[e] => d = e
               /\ \A d \in Clients : v \in manages'[d] => d \in Online' /\ managed'[v]
               /\ status'[v] = "here" /\ seats'[v][0] # None => v \in manages'[seats'[v][0]]
    <3>1. /\ \A d, e \in Clients : v \in manages[d] /\ v \in manages[e] => d = e
          /\ \A d \in Clients : v \in manages[d] => d \in Online /\ managed[v]
          /\ status[v] = "here" /\ seats[v][0] # None => v \in manages[seats[v][0]]
      BY DEF VehicleIInv, Simulated, Sound
    <3>2. seats[v][0] \in Clients \cup {None}
      BY <1>0
    <3>3. status'[v] = "here" /\ seats'[v][0] # None =>
            status[v] = "here" /\ seats'[v][0] = seats[v][0] /\ seats[v][0] # c
      BY <1>2, <2>1
    <3> QED BY <2>1, <2>2, <2>3, <3>1, <3>2, <3>3
  <2> QED BY <1>0, <1>1, <2>1, <2>3, <2>4 DEF BodyTypes, Simulated, Sound
<1> QED BY <1>3, <1>4, <1>5, <1>6

\* Getting in, and moving to another seat.
LEMMA SeatKeepsManagers ==
    ASSUME VehicleIInv, NEW c \in Clients,
           \/ \E v \in VehicleIds : Mount(c, v)
           \/ \E i \in Seats : ChangeSeat(c, i)
    PROVE  BodyTypes' /\ Simulated'
<1>0. /\ BodyTypes /\ IInv /\ 0 \in Seats /\ Online \subseteq Clients
      /\ seats \in [VehicleIds -> [Seats -> Clients \cup {None}]] /\ c # None
      /\ managed \in [VehicleIds -> BOOLEAN] /\ engineOn \in [VehicleIds -> BOOLEAN]
      /\ updater \in [VehicleIds -> BOOLEAN]
  BY SeatsAndCondition DEF VehicleIInv, IInv, SeatTypes, BodyTypes, Seats, Online, ToSet
<1>1. ASSUME NEW v \in VehicleIds, Mount(c, v) PROVE BodyTypes' /\ Simulated'
  <2>1. /\ c \in Online /\ v \in Here /\ UNCHANGED <<online, status>> /\ Online' = Online
    BY <1>1 DEF Mount, bodies, Online
  <2>2. CASE UNCHANGED <<manages, bodies>>
    BY <1>0, <2>1, <2>2, SameManagers DEF bodies, BodyTypes
  <2>3. ASSUME NEW i \in FreeSeats(v), NEW fuelled \in BOOLEAN,
               seats' = [seats EXCEPT ![v][i] = c],
               manages' = IF i = 0 THEN Takeover(c, v) ELSE manages,
               managed' = [managed EXCEPT ![v] = @ \/ (i = 0 /\ v \notin manages[c])],
               engineOn' = [engineOn EXCEPT ![v] = @ \/ (i = 0 /\ fuelled)],
               updater' = [updater EXCEPT ![v] = @ \/ (i = 0 /\ fuelled)]
        PROVE  BodyTypes' /\ Simulated'
    <3>1. /\ engineOn' \in [VehicleIds -> BOOLEAN] /\ updater' \in [VehicleIds -> BOOLEAN]
          /\ managed' \in [VehicleIds -> BOOLEAN]
      <4>1. (engineOn[v] \/ (i = 0 /\ fuelled)) \in BOOLEAN
        OBVIOUS
      <4>2. (updater[v] \/ (i = 0 /\ fuelled)) \in BOOLEAN
        OBVIOUS
      <4>3. (managed[v] \/ (i = 0 /\ v \notin manages[c])) \in BOOLEAN
        OBVIOUS
      <4> QED BY <1>0, <2>3, <4>1, <4>2, <4>3, Zenon
    <3>2. i \in Seats /\ \A w \in VehicleIds, j \in Seats :
            seats'[w][j] = IF w = v /\ j = i THEN c ELSE seats[w][j]
      BY <1>0, <2>3 DEF FreeSeats
    <3>3. CASE i = 0
      <4>1. managed[v] = TRUE \/ v \notin manages[c]
        BY <1>0 DEF VehicleIInv, Simulated, Sound
      <4>2. managed' = [managed EXCEPT ![v] = TRUE]
        BY <1>0, <2>3, <3>3, <4>1, Zenon
      <4>3. manages' = Takeover(c, v)
        BY <2>3, <3>3
      <4>4. seats'[v][0] = c /\ \A w \in VehicleIds \ {v} : seats'[w][0] = seats[w][0]
        BY <1>0, <3>2, <3>3
      <4>5. manages' \in [Clients -> SUBSET VehicleIds] /\ Simulated'
        BY <2>1, <4>2, <4>3, <4>4, TakeoverKeeps
      <4> QED BY <3>1, <4>5 DEF BodyTypes
    <3>4. CASE i # 0
      <4>1. managed' = managed /\ manages' = manages
        BY <1>0, <2>3, <3>4, Zenon
      <4>2. \A w \in VehicleIds : seats'[w][0] = seats[w][0]
        BY <1>0, <3>2, <3>4
      <4>3. Simulated'
        BY <2>1, <4>1, <4>2, SameManagers
      <4> QED BY <1>0, <3>1, <4>1, <4>3 DEF BodyTypes
    <3> QED BY <3>3, <3>4
  <2> QED BY <1>1, <2>2, <2>3 DEF Mount, FirstFree
<1>2. ASSUME NEW to \in Seats, ChangeSeat(c, to) PROVE BodyTypes' /\ Simulated'
  <2> DEFINE v == mounted[c]
  <2>1. /\ c \in Online /\ v \in Here /\ v \in VehicleIds
        /\ UNCHANGED <<online, status, engineOn, updater>> /\ Online' = Online
        /\ status[v] = "here"
        /\ seats[v][to] = None
        /\ seats' = [seats EXCEPT ![v] =
                        [i \in Seats |-> IF i = to THEN c ELSE IF @[i] = c THEN None ELSE @[i]]]
        /\ manages' = IF to = 0 THEN Takeover(c, v) ELSE manages
        /\ managed' = [managed EXCEPT ![v] = @ \/ (to = 0 /\ v \notin manages[c])]
    BY <1>2 DEF ChangeSeat, IsSeated, FreeSeats, Here, Online
  <2> HIDE DEF v
  <2>2. managed' \in [VehicleIds -> BOOLEAN]
    <3>1. (managed[v] \/ (to = 0 /\ v \notin manages[c])) \in BOOLEAN
      OBVIOUS
    <3> QED BY <1>0, <2>1, <3>1, Zenon
  <2>3. \A w \in VehicleIds, j \in Seats :
          seats'[w][j] = IF w # v THEN seats[w][j]
                         ELSE IF j = to THEN c ELSE IF seats[w][j] = c THEN None ELSE seats[w][j]
    BY <1>0, <2>1
  <2>4. CASE to = 0
    <3>1. managed[v] = TRUE \/ v \notin manages[c]
      BY <1>0, <2>1 DEF VehicleIInv, Simulated, Sound
    <3>2. managed' = [managed EXCEPT ![v] = TRUE]
      BY <1>0, <2>1, <2>4, <3>1, Zenon
    <3>3. seats'[v][0] = c /\ \A w \in VehicleIds \ {v} : seats'[w][0] = seats[w][0]
      BY <1>0, <2>1, <2>3, <2>4
    <3>4. manages' \in [Clients -> SUBSET VehicleIds] /\ Simulated'
      BY <2>1, <2>4, <3>2, <3>3, TakeoverKeeps
    <3> QED BY <1>0, <2>1, <2>2, <3>4 DEF BodyTypes
  <2>5. CASE to # 0
    <3>1. managed' = managed /\ manages' = manages
      BY <1>0, <2>1, <2>5, Zenon
    <3>2. \A w \in VehicleIds : seats'[w][0] # None => seats'[w][0] = seats[w][0]
      BY <1>0, <2>1, <2>3, <2>5
    <3>3. Simulated'
      BY <2>1, <3>1, <3>2, SameManagers
    <3> QED BY <1>0, <2>1, <2>2, <3>1, <3>3 DEF BodyTypes
  <2> QED BY <2>4, <2>5
<1> QED BY <1>1, <1>2

\* Damage of any size leaves who simulates what as it is.
LEMMA DamageKeepsManagers ==
    ASSUME VehicleIInv, NEW v, NEW damage, NEW others,
           UNCHANGED <<online, manages, managed, updater>>,
           DamageVehicle(v, damage, others)
    PROVE  BodyTypes' /\ Simulated'
<1>0. /\ BodyTypes /\ Online' = Online
      /\ status \in [VehicleIds -> {"unborn", "here", "gone"}]
      /\ seats \in [VehicleIds -> [Seats -> Clients \cup {None}]]
  BY DEF VehicleIInv, IInv, SeatTypes, Online
<1>1. CASE DestroyVehicle(v, others)
  <2>1. /\ status' = [status EXCEPT ![v] = "gone"]
        /\ seats' = [seats EXCEPT ![v] = NoOne]
        /\ engineOn' = [engineOn EXCEPT ![v] = FALSE]
    BY <1>1 DEF DestroyVehicle
  <2>2. engineOn' \in [VehicleIds -> BOOLEAN]
    BY <1>0, <2>1, Zenon DEF BodyTypes
  <2>3. \A w \in VehicleIds : status'[w] = "here" =>
          w # v /\ status[w] = "here" /\ seats'[w] = seats[w]
    BY <1>0, <2>1
  <2>4. Simulated'
    BY <1>0, <2>3, SameManagers
  <2> QED BY <1>0, <2>2, <2>4 DEF BodyTypes
<1>2. CASE UNCHANGED <<status, seats, engineOn>>
  BY <1>0, <1>2, SameManagers DEF BodyTypes
<1> QED BY <1>1, <1>2 DEF DamageVehicle


\* Condition, burning and explosions.
LEMMA DamageKeepsTypes ==
    ASSUME VehicleIInv, NEW v, NEW damage \in 1 .. Full, NEW others,
           \A b \in others : b.target # b.by /\ b.left \subseteq VehicleIds \ {b.by, b.target},
           visits' = visits,
           DamageVehicle(v, damage, others),
           burning' \in [VehicleIds -> {"unset", "pending", "fired"}]
    PROVE  DamageTypes'
<1>0. /\ condition \in [VehicleIds -> 0 .. Full] /\ explosions \in [VehicleIds -> Nat]
      /\ visits \in 0 .. MaxVisits /\ Full \in Nat
  BY SeatsAndCondition DEF VehicleIInv, DamageTypes
<1>1. CASE DestroyVehicle(v, others)
  <2>1. PICK blast \in Loop(v, explosions[v] + 1, Here \ {v}) :
          /\ condition' = [condition EXCEPT ![v] = 0]
          /\ explosions' = [explosions EXCEPT ![v] = @ + 1]
          /\ blasts' = others \cup blast
    BY <1>1 DEF DestroyVehicle
  <2>2. condition' \in [VehicleIds -> 0 .. Full] /\ explosions' \in [VehicleIds -> Nat]
    <3>1. 0 \in 0 .. Full
      BY <1>0
    <3>2. condition' \in [VehicleIds -> 0 .. Full]
      BY <1>0, <2>1, <3>1
    <3>3. \A w \in VehicleIds : explosions'[w] \in Nat
      BY <1>0, <2>1
    <3> QED BY <1>0, <2>1, <3>2, <3>3
  <2>3. Here \subseteq VehicleIds
    BY DEF Here
  <2>4. \A b \in blast : b.target # b.by /\ b.left \subseteq VehicleIds \ {b.by, b.target}
    BY <2>3 DEF Loop
  <2> QED BY <1>0, <2>1, <2>2, <2>4 DEF DamageTypes
<1>2. CASE ~(condition[v] <= damage)
  <2>1. /\ condition' = [condition EXCEPT ![v] = @ - damage]
        /\ blasts' = others /\ UNCHANGED explosions
    BY <1>2 DEF DamageVehicle
  <2>2. condition' \in [VehicleIds -> 0 .. Full]
    <3>1. \A w \in VehicleIds : condition'[w] \in 0 .. Full
      BY <1>0, <1>2, <2>1
    <3> QED BY <1>0, <2>1, <3>1
  <2> QED BY <1>0, <2>1, <2>2 DEF DamageTypes
<1> QED BY <1>1, <1>2 DEF DamageVehicle

\* Every step keeps the types of the damage.
LEMMA DamageTypesKept ==
    ASSUME VehicleIInv, [Next]_vars
    PROVE  DamageTypes'
<1>0. /\ DamageTypes /\ burning \in [VehicleIds -> {"unset", "pending", "fired"}]
      /\ 1 \in 1 .. Full /\ MaxVisits \in Nat
  BY SeatsAndCondition DEF VehicleIInv, DamageTypes
<1>1. ASSUME NEW c \in Clients, Connect(c) PROVE DamageTypes'
  BY <1>0, <1>1 DEF Connect, damages, DamageTypes
<1>2. CASE UNCHANGED <<damages, visits>>
  BY <1>0, <1>2 DEF damages, DamageTypes
<1>3. ASSUME NEW v, NEW damage PROVE BurningAfter(v, damage) \in [VehicleIds -> {"unset", "pending", "fired"}]
  BY <1>0 DEF BurningAfter
<1>4. ASSUME NEW v \in VehicleIds, BurnTick(v) PROVE DamageTypes'
  <2>1. burning' \in [VehicleIds -> {"unset", "pending", "fired"}]
    BY <1>0, <1>4 DEF BurnTick
  <2> QED BY <1>0, <1>4, <2>1, DamageKeepsTypes DEF BurnTick, DamageTypes
<1>5. ASSUME NEW v \in VehicleIds, NEW damage \in 1 .. Full, Hit(v, damage) PROVE DamageTypes'
  BY <1>0, <1>3, <1>5, DamageKeepsTypes DEF Hit, DamageTypes
<1>6. ASSUME NEW b \in blasts, NEW damage \in 1 .. Full, BlastHit(b, damage) PROVE DamageTypes'
  <2>1. b.left \subseteq VehicleIds \ {b.by, b.target}
    BY <1>0 DEF DamageTypes
  <2>2. PICK next :
          /\ next = {} \/ \E left \in SUBSET b.left : next \in Loop(b.by, b.nth, left)
          /\ DamageVehicle(b.target, damage, (blasts \ {b}) \cup next)
    BY <1>6 DEF BlastHit
  <2>3. \A x \in next : x.target # x.by /\ x.left \subseteq VehicleIds \ {x.by, x.target}
    BY <2>1, <2>2 DEF Loop
  <2>4. \A x \in (blasts \ {b}) \cup next :
          x.target # x.by /\ x.left \subseteq VehicleIds \ {x.by, x.target}
    BY <1>0, <2>3 DEF DamageTypes
  <2>5. visits' = visits /\ burning' = BurningAfter(b.target, damage)
    BY <1>6 DEF BlastHit
  <2> QED BY <1>3, <2>2, <2>4, <2>5, DamageKeepsTypes
<1>7. WorldRoutine => UNCHANGED <<damages, visits>>
  BY DEF WorldRoutine
<1>8. ASSUME NEW c \in Clients,
             \/ DeleteClient(c) \/ Dismount(c) \/ VehicleDismiss(c)
             \/ \E v \in VehicleIds : Mount(c, v)
             \/ \E i \in Seats : ChangeSeat(c, i)
      PROVE  UNCHANGED <<damages, visits>>
  BY <1>8 DEF DeleteClient, Dismount, VehicleDismiss, Mount, ChangeSeat
<1>9. ASSUME NEW v \in VehicleIds, CreateVehicle(v) \/ FuelTick(v)
      PROVE  UNCHANGED <<damages, visits>>
  BY <1>9 DEF CreateVehicle, FuelTick
<1>10. UNCHANGED vars => UNCHANGED <<damages, visits>>
  BY DEF vars
<1> QED BY <1>1, <1>2, <1>4, <1>5, <1>6, <1>7, <1>8, <1>9, <1>10 DEF Next

\* Who connects was not connected, and who leaves is taken from the list.
LEMMA NoDoublesKept ==
    ASSUME VehicleIInv, [Next]_vars
    PROVE  NoDoubles'
<1>0. online \in Seq(Clients) /\ NoDoubles
  BY DEF VehicleIInv, IInv, SeatTypes
<1>1. ASSUME NEW c \in Clients, Connect(c) PROVE NoDoubles'
  <2>1. online' = Append(online, c) /\ \A i \in DOMAIN online : online[i] # c
    BY <1>1 DEF Connect, Online, ToSet
  <2>2. /\ DOMAIN online = 1 .. Len(online) /\ DOMAIN online' = 1 .. Len(online) + 1
        /\ Len(online) \in Nat
        /\ \A i \in 1 .. Len(online) : online'[i] = online[i]
        /\ online'[Len(online) + 1] = c
    BY <1>0, <2>1
  <2> QED BY <1>0, <2>1, <2>2 DEF NoDoubles
<1>2. ASSUME NEW c \in Clients, DeleteClient(c) PROVE NoDoubles'
  BY <1>0, <1>2, RemoveAtKeeps DEF DeleteClient, NoDoubles
<1>3. CASE UNCHANGED online
  BY <1>0, <1>3 DEF NoDoubles
<1>4. WorldRoutine \/ UNCHANGED vars => UNCHANGED online
  BY DEF WorldRoutine, vars, players
<1>5. ASSUME NEW c \in Clients,
             \/ Dismount(c) \/ VehicleDismiss(c)
             \/ \E v \in VehicleIds : Mount(c, v)
             \/ \E i \in Seats : ChangeSeat(c, i)
      PROVE  UNCHANGED online
  BY <1>5 DEF Dismount, VehicleDismiss, Mount, ChangeSeat
<1>6. ASSUME NEW v \in VehicleIds,
             \/ CreateVehicle(v) \/ FuelTick(v) \/ BurnTick(v)
             \/ \E damage \in 1 .. Full : Hit(v, damage)
      PROVE  UNCHANGED online
  BY <1>6 DEF CreateVehicle, FuelTick, BurnTick, Hit, players
<1>7. (\E b \in blasts, damage \in 1 .. Full : BlastHit(b, damage)) => UNCHANGED online
  BY DEF BlastHit
<1> QED BY <1>1, <1>2, <1>3, <1>4, <1>5, <1>6, <1>7 DEF Next

\* The whole invariant of the vehicles.
LEMMA VehicleInitIInv == Init => VehicleIInv
<1> SUFFICES ASSUME Init PROVE VehicleIInv
  OBVIOUS
<1>1. IInv
  BY InitIInv
<1>2. BodyTypes
  BY DEF Init, BodyTypes
<1>3. DamageTypes
  BY SeatsAndCondition DEF Init, DamageTypes
<1>4. NoDoubles /\ Simulated
  BY SeatsAndCondition DEF Init, NoDoubles, Simulated, Sound
<1> QED BY <1>1, <1>2, <1>3, <1>4 DEF VehicleIInv

\* Every step keeps the invariant of the vehicles.
LEMMA VehicleNextIInv == VehicleIInv /\ [Next]_vars => VehicleIInv'
<1> SUFFICES ASSUME VehicleIInv, [Next]_vars PROVE VehicleIInv'
  OBVIOUS
<1>1. IInv'
  BY NextIInv DEF VehicleIInv
<1>2. DamageTypes' /\ NoDoubles'
  BY DamageTypesKept, NoDoublesKept
<1>3. BodyTypes' /\ Simulated'
  <2>1. ASSUME NEW v \in VehicleIds, CreateVehicle(v) PROVE BodyTypes' /\ Simulated'
    <3>1. /\ status[v] = "unborn" /\ status' = [status EXCEPT ![v] = "here"]
          /\ UNCHANGED <<online, manages, managed, seats, engineOn, updater>>
          /\ Online' = Online
      BY <2>1 DEF CreateVehicle, players, Online
    <3>2. 0 \in Seats /\ \A i \in Seats : seats[v][i] = None
      BY <3>1, SeatsAndCondition DEF VehicleIInv, IInv, UnbornEmpty, Seats
    <3>3. Simulated'
      BY <3>1, <3>2, SameManagers DEF VehicleIInv, IInv, SeatTypes
    <3> QED BY <3>1, <3>3 DEF VehicleIInv, BodyTypes
  <2>2. ASSUME NEW v \in VehicleIds, FuelTick(v) PROVE BodyTypes' /\ Simulated'
    <3>1. /\ updater' = [updater EXCEPT ![v] = v \in Here /\ engineOn[v]]
          /\ UNCHANGED <<online, manages, managed, seats, status, engineOn>>
          /\ Online' = Online
      BY <2>2 DEF FuelTick, players, Online
    <3>2. Simulated'
      BY <3>1, SameManagers
    <3>3. (v \in Here /\ engineOn[v]) \in BOOLEAN
      OBVIOUS
    <3>4. updater' \in [VehicleIds -> BOOLEAN]
      BY <3>1, <3>3, Zenon DEF VehicleIInv, BodyTypes
    <3> QED BY <3>1, <3>2, <3>4 DEF VehicleIInv, BodyTypes
  <2>3. ASSUME NEW v \in VehicleIds, BurnTick(v) PROVE BodyTypes' /\ Simulated'
    BY <2>3, DamageKeepsManagers DEF BurnTick
  <2>4. ASSUME NEW v \in VehicleIds, NEW damage \in 1 .. Full, Hit(v, damage)
        PROVE  BodyTypes' /\ Simulated'
    BY <2>4, DamageKeepsManagers DEF Hit
  <2>5. ASSUME NEW b \in blasts, NEW damage \in 1 .. Full, BlastHit(b, damage)
        PROVE  BodyTypes' /\ Simulated'
    BY <2>5, DamageKeepsManagers DEF BlastHit
  <2>6. CASE UNCHANGED vars
    <3>1. UNCHANGED <<online, manages, managed, seats, status, engineOn, updater>> /\ Online' = Online
      BY <2>6 DEF vars, players, bodies, Online
    <3> QED BY <3>1, SameManagers DEF VehicleIInv, BodyTypes
  <2> QED BY <2>1, <2>2, <2>3, <2>4, <2>5, <2>6, WorldRoutineKeeps, ClientKeepsManagers,
             SeatKeepsManagers DEF Next
<1> QED BY <1>1, <1>2, <1>3 DEF VehicleIInv

-----------------------------------------------------------------------------
(* Bases. *)

Piece ==
    [state : {"unplaced", "there", "removed"}, kind : {"foundation", "expansion"},
     owner : Players \cup {Nothing}, parent : Ids \cup {Nothing},
     walls : SUBSET ((Sides \cup {0}) \X Walls), secured : BOOLEAN,
     list : Ids \cup {Nothing}]

BuildTypes ==
    /\ built \in [Ids -> Piece]
    /\ expansions \in [Ids -> Seq([slot : Sides, id : Ids])]
    /\ lists \in [Ids -> SUBSET Players]
    /\ followed \subseteq Ids
    /\ changes \in 0 .. MaxChanges
    /\ \A f \in Ids : built[f].walls \subseteq Perimeter(built[f].kind)

\* What is entered in the slots of a foundation, and in no slot twice.
Entries ==
    \A f \in Ids : \A i \in DOMAIN expansions[f] :
        LET e == expansions[f][i].id IN
        /\ built[e].state # "unplaced" /\ built[e].kind = "expansion" /\ built[e].parent = f
        /\ built[e].state = "removed" => f \in disturbed
        /\ \A j \in DOMAIN expansions[f] : expansions[f][j].slot = expansions[f][i].slot => j = i

\* What is placed, and what is not yet.
Pieces ==
    \A e \in Ids :
        /\ built[e].state = "unplaced" => built[e].kind = "foundation" /\ e \notin disturbed
        /\ built[e].state = "unplaced" \/ built[e].kind = "expansion" => expansions[e] = <<>>
        /\ built[e].state # "unplaced" => built[e].list \in Ids
        /\ built[e].kind = "expansion" =>
              /\ built[e].parent \in Ids
              /\ built[built[e].parent].kind = "foundation"
              /\ built[built[e].parent].state # "unplaced"
        /\ e \in followed => built[e].kind = "expansion"

\* An expansion that is there is entered, unless it was replaced.
Listed ==
    \A e \in Ids :
        built[e].state = "there" /\ built[e].kind = "expansion" /\ built[e].parent \notin disturbed =>
            \E i \in DOMAIN expansions[built[e].parent] : expansions[built[e].parent][i].id = e

\* What an edit has reached has the array of its foundation.
OneArray ==
    \A e \in followed :
        LET f == built[e].parent IN
        built[e].state = "there" /\ built[f].state = "there" /\ f \notin disturbed =>
            built[e].list = built[f].list

BuildIInv == BuildTypes /\ Entries /\ Pieces /\ Listed /\ SecuredIsFresh /\ OneArray

-----------------------------------------------------------------------------
(* What the helpers do. *)

\* The next foundation or expansion is one that was not placed.
LEMMA NextIsUnused ==
    ASSUME Unused # {}
    PROVE  Min(Unused) \in Ids /\ built[Min(Unused)].state = "unplaced"
<1>1. Unused \in SUBSET Nat
  BY BuildAssumption DEF Unused
<1>2. Min(Unused) \in Unused
  BY <1>1, MinIn
<1> QED BY <1>2 DEF Unused

\* What is entered in a slot is an entry.
LEMMA EntryType ==
    ASSUME BuildTypes, NEW f \in Ids, NEW i \in DOMAIN expansions[f]
    PROVE  expansions[f][i].slot \in Sides /\ expansions[f][i].id \in Ids
<1> DEFINE R == [slot : Sides, id : Ids]
           s == expansions[f]
<1>1. s \in Seq(R)
  BY DEF BuildTypes
<1>2. \A x \in R : x.slot \in Sides /\ x.id \in Ids
  OBVIOUS
<1> HIDE DEF R
<1>3. s[i] \in R
  <2> HIDE DEF s
  <2>1. i \in DOMAIN s
    BY DEF s
  <2> QED BY <1>1, <2>1
<1> QED BY <1>2, <1>3

\* What is put down is there, without walls, and with a list of its own.
LEMMA PlacedPiece ==
    ASSUME NEW p \in Players, NEW kind \in {"foundation", "expansion"},
           NEW parent \in Ids \cup {Nothing}, NEW f \in Ids
    PROVE  /\ Placed(p, kind, parent, f) \in Piece
           /\ Placed(p, kind, parent, f).state = "there"
           /\ Placed(p, kind, parent, f).kind = kind
           /\ Placed(p, kind, parent, f).parent = parent
           /\ Placed(p, kind, parent, f).walls = {}
           /\ ~Placed(p, kind, parent, f).secured
           /\ Placed(p, kind, parent, f).list = f
<1>1. /\ "foundation" \in {"foundation", "expansion"}
      /\ "unplaced" \in {"unplaced", "there", "removed"}
      /\ Nothing \in Players \cup {Nothing} /\ Nothing \in Ids \cup {Nothing}
      /\ {} \in SUBSET ((Sides \cup {0}) \X Walls)
      /\ FALSE \in BOOLEAN
  OBVIOUS
<1>2. Unplaced \in Piece /\ Unplaced.walls = {} /\ ~Unplaced.secured
  BY <1>1, Zenon DEF Unplaced, Piece
<1>3. /\ "there" \in {"unplaced", "there", "removed"}
      /\ p \in Players \cup {Nothing} /\ f \in Ids \cup {Nothing}
  OBVIOUS
<1>4. Placed(p, kind, parent, f) \in Piece
  BY <1>2, <1>3, Zenon DEF Placed, Piece
<1>5. LET x == Placed(p, kind, parent, f) IN
      /\ x.state = "there" /\ x.kind = kind /\ x.parent = parent
      /\ x.walls = Unplaced.walls /\ x.secured = Unplaced.secured /\ x.list = f
  BY <1>2, Zenon DEF Placed, Piece
<1> QED BY <1>2, <1>4, <1>5

\* A new entry goes to the end, or in the place of the one with its slot.
LEMMA EnteredOnce ==
    ASSUME BuildTypes, Entries, NEW f \in Ids, NEW x \in [slot : Sides, id : Ids]
    PROVE  LET s == Entered(f, x)
               old == expansions[f]
           IN  /\ s \in Seq([slot : Sides, id : Ids])
               /\ \A i, j \in DOMAIN s : s[i].slot = s[j].slot => j = i
               /\ \A i \in DOMAIN s : s[i] = x \/ (i \in DOMAIN old /\ s[i] = old[i])
               /\ \E i \in DOMAIN s : s[i] = x
               /\ (\A i \in DOMAIN old : old[i].slot # x.slot) =>
                     \A i \in DOMAIN old : i \in DOMAIN s /\ s[i] = old[i]
<1> DEFINE old == expansions[f]
           taken == {i \in DOMAIN old : old[i].slot = x.slot}
           s == Entered(f, x)
<1>1. /\ old \in Seq([slot : Sides, id : Ids]) /\ DOMAIN old = 1 .. Len(old) /\ Len(old) \in Nat
      /\ \A i \in DOMAIN old : \A j \in DOMAIN old : old[j].slot = old[i].slot => j = i
  <2>1. old \in Seq([slot : Sides, id : Ids])
    BY DEF BuildTypes
  <2>2. \A i \in DOMAIN old : \A j \in DOMAIN old : old[j].slot = old[i].slot => j = i
    BY DEF Entries
  <2> QED BY <2>1, <2>2
<1>2. s = IF taken = {} THEN Append(old, x) ELSE [old EXCEPT ![Min(taken)] = x]
  BY DEF Entered
<1>3. taken \in SUBSET Nat
  BY <1>1
<1>4. taken # {} => Min(taken) \in taken
  <2> HIDE DEF taken
  <2> QED BY <1>3, MinIn
<1> HIDE DEF old, s
<1>5. CASE taken = {}
  <2>1. /\ s \in Seq([slot : Sides, id : Ids]) /\ DOMAIN s = 1 .. Len(old) + 1
        /\ \A i \in 1 .. Len(old) : s[i] = old[i]
        /\ s[Len(old) + 1] = x
    BY <1>1, <1>2, <1>5
  <2>2. \A i \in DOMAIN old : old[i].slot # x.slot
    BY <1>5
  <2>3. \A i, j \in DOMAIN s : s[i].slot = s[j].slot => j = i
    BY <1>1, <2>1, <2>2
  <2>4. \A i \in DOMAIN s : s[i] = x \/ (i \in DOMAIN old /\ s[i] = old[i])
    BY <1>1, <2>1
  <2>5. (\E i \in DOMAIN s : s[i] = x) /\ \A i \in DOMAIN old : i \in DOMAIN s /\ s[i] = old[i]
    BY <1>1, <2>1
  <2> QED BY <2>1, <2>3, <2>4, <2>5 DEF old, s
<1>6. CASE taken # {}
  <2> DEFINE m == Min(taken)
  <2>1. m \in DOMAIN old /\ old[m].slot = x.slot
    BY <1>4, <1>6
  <2>2. s = [old EXCEPT ![m] = x]
    BY <1>2, <1>6
  <2> HIDE DEF m
  <2>3. /\ s \in Seq([slot : Sides, id : Ids]) /\ DOMAIN s = DOMAIN old
        /\ \A i \in DOMAIN old : s[i] = IF i = m THEN x ELSE old[i]
    BY <1>1, <2>1, <2>2
  <2> QED BY <1>1, <2>1, <2>3 DEF old, s
<1> QED BY <1>5, <1>6

\* An edit reaches entries of the foundation, and all of them if none was removed.
LEMMA ReachedEntries ==
    ASSUME BuildTypes, NEW f \in Ids
    PROVE  /\ \A e \in Reached(f) : \E i \in DOMAIN expansions[f] : expansions[f][i].id = e
           /\ Dangling(f) = {} => \A i \in DOMAIN expansions[f] : expansions[f][i].id \in Reached(f)
<1>1. DOMAIN expansions[f] = 1 .. Len(expansions[f]) /\ Len(expansions[f]) \in Nat
  BY DEF BuildTypes
<1>2. Dangling(f) \in SUBSET Nat /\ Dangling(f) \subseteq 1 .. Len(expansions[f])
  BY <1>1 DEF Dangling
<1>3. CASE Dangling(f) = {}
  BY <1>1, <1>3 DEF Reached
<1>4. CASE Dangling(f) # {}
  <2>1. Min(Dangling(f)) \in 1 .. Len(expansions[f])
    BY <1>2, <1>4, MinIn
  <2>2. \A i \in 1 .. Min(Dangling(f)) - 1 : i \in DOMAIN expansions[f]
    BY <1>1, <2>1
  <2> QED BY <1>4, <2>2 DEF Reached
<1> QED BY <1>3, <1>4

\* Whether a side is closed, in terms of the pieces b and the entries x.
Closed(b, x, f, k) ==
    \/ \E i \in DOMAIN x[f] : x[f][i].slot = k /\ b[x[f][i].id].secured
    \/ {k} \X Walls \subseteq b[f].walls

FreshPiece(b, x, f) ==
    b[f].secured <=>
        IF b[f].kind = "expansion" THEN b[f].walls = Perimeter("expansion")
        ELSE \A k \in Sides : Closed(b, x, f, k)

\* SecuredIsFresh, before and after a step.
LEMMA FreshMeans ==
    /\ SecuredIsFresh <=>
         \A f \in Ids : built[f].state = "there" /\ f \notin disturbed =>
            FreshPiece(built, expansions, f)
    /\ SecuredIsFresh' <=>
         \A f \in Ids : built'[f].state = "there" /\ f \notin disturbed' =>
            FreshPiece(built', expansions', f)
  BY DEF SecuredIsFresh, There, SideClosed, FreshPiece, Closed

\* A piece that is as it was is as secured as it was.
LEMMA SameFresh ==
    ASSUME NEW b, NEW c, NEW x, NEW y, NEW f, FreshPiece(b, x, f),
           c[f].kind = b[f].kind, c[f].walls = b[f].walls, c[f].secured = b[f].secured,
           y[f] = x[f],
           \A i \in DOMAIN x[f] : c[x[f][i].id].secured = b[x[f][i].id].secured
    PROVE  FreshPiece(c, y, f)
<1>1. \A k \in Sides : Closed(c, y, f, k) <=> Closed(b, x, f, k)
  BY DEF Closed
<1> QED BY <1>1 DEF FreshPiece

\* Nothing is closed on a side that has no wall and no closed expansion.
LEMMA BareIsFresh ==
    ASSUME NEW b, NEW x, NEW f, b[f].walls = {}, ~b[f].secured,
           \A i \in DOMAIN x[f] : ~b[x[f][i].id].secured
    PROVE  FreshPiece(b, x, f)
<1>1. PICK w \in Walls, k \in Sides : TRUE
  BY BuildAssumption
<1>2. <<k, w>> \in {k} \X Walls /\ <<0, w>> \in {0} \X Walls
  OBVIOUS
<1>3. ~Closed(b, x, f, k)
  BY <1>2 DEF Closed
<1>4. Perimeter("expansion") # {}
  BY <1>2 DEF Perimeter
<1> QED BY <1>3, <1>4 DEF FreshPiece


-----------------------------------------------------------------------------
(* One lemma for each action. *)

\* A new foundation is open all round.
LEMMA PlaceFoundationStep ==
    ASSUME BuildIInv, NEW p \in Players, PlaceFoundation(p)
    PROVE  BuildIInv'
<1> DEFINE n == Min(Unused)
           x == Placed(p, "foundation", Nothing, n)
<1>0. BuildTypes /\ Entries /\ Pieces /\ Listed /\ SecuredIsFresh /\ OneArray
  BY DEF BuildIInv
<1>1. n \in Ids /\ built[n].state = "unplaced"
  BY NextIsUnused DEF PlaceFoundation
<1>2. /\ built' = [built EXCEPT ![n] = x] /\ lists' = [lists EXCEPT ![n] = {p}]
      /\ UNCHANGED <<expansions, disturbed, followed, changes>>
  BY DEF PlaceFoundation
<1>3. /\ x \in Piece
      /\ x.state = "there" /\ x.kind = "foundation" /\ x.parent = Nothing
      /\ x.walls = {} /\ ~x.secured /\ x.list = n
  <2> HIDE DEF n
  <2> DEFINE kind == "foundation"
             parent == Nothing
  <2>1. kind \in {"foundation", "expansion"} /\ parent \in Ids \cup {Nothing} /\ n \in Ids
    BY <1>1
  <2> HIDE DEF kind, parent
  <2>2. LET y == Placed(p, kind, parent, n) IN
        /\ y \in Piece
        /\ y.state = "there" /\ y.kind = kind /\ y.parent = parent
        /\ y.walls = {} /\ ~y.secured /\ y.list = n
    BY <2>1, PlacedPiece
  <2> QED BY <2>2 DEF kind, parent
<1> HIDE DEF n, x
<1>4. /\ built' \in [Ids -> Piece] /\ built'[n] = x
      /\ \A g \in Ids : g # n => built'[g] = built[g]
  BY <1>0, <1>1, <1>2, <1>3 DEF BuildTypes
<1>5. BuildTypes'
  BY <1>0, <1>1, <1>2, <1>3, <1>4 DEF BuildTypes
<1>6. ASSUME NEW f \in Ids, NEW i \in DOMAIN expansions[f]
      PROVE  expansions[f][i].id \in Ids /\ expansions[f][i].id # n
  <2>1. expansions[f][i].id \in Ids
    BY <1>0, EntryType
  <2>2. built[expansions[f][i].id].state # "unplaced"
    BY <1>0 DEF Entries
  <2> QED BY <1>1, <2>1, <2>2
<1>7. Entries'
  BY <1>0, <1>2, <1>4, <1>6 DEF Entries
<1>8. expansions[n] = <<>>
  BY <1>0, <1>1 DEF Pieces
<1>9. Pieces'
  <2>1. ASSUME NEW e \in Ids, e # n, built[e].kind = "expansion"
        PROVE  built[e].parent \in Ids /\ built[e].parent # n
    BY <1>0, <1>1, <2>1 DEF Pieces, BuildTypes
  <2>2. n \notin followed
    BY <1>0, <1>1 DEF Pieces
  <2> QED BY <1>0, <1>1, <1>2, <1>3, <1>4, <1>8, <2>1, <2>2 DEF Pieces
<1>10. Listed'
  <2> SUFFICES ASSUME NEW e \in Ids, built'[e].state = "there", built'[e].kind = "expansion",
                      built'[e].parent \notin disturbed
               PROVE  \E i \in DOMAIN expansions[built'[e].parent] :
                         expansions[built'[e].parent][i].id = e
    BY <1>2 DEF Listed
  <2>1. built'[e] = built[e]
    BY <1>3, <1>4
  <2> QED BY <1>0, <2>1 DEF Listed
<1>11. SecuredIsFresh'
  <2>1. FreshPiece(built', expansions', n)
    <3>1. built'[n].walls = {} /\ ~built'[n].secured
      BY <1>3, <1>4
    <3>2. \A i \in DOMAIN expansions'[n] : ~built'[expansions'[n][i].id].secured
      BY <1>2, <1>8
    <3> QED BY <3>1, <3>2, BareIsFresh
  <2>2. ASSUME NEW f \in Ids, f # n, built[f].state = "there", f \notin disturbed
        PROVE  FreshPiece(built', expansions', f)
    <3>1. FreshPiece(built, expansions, f)
      BY <1>0, <2>2, FreshMeans
    <3>2. \A i \in DOMAIN expansions[f] :
            built'[expansions[f][i].id].secured = built[expansions[f][i].id].secured
      BY <1>4, <1>6
    <3> QED BY <1>2, <1>4, <2>2, <3>1, <3>2, SameFresh
  <2> QED BY <1>2, <1>4, <2>1, <2>2, FreshMeans
<1>12. OneArray'
  <2>1. ASSUME NEW e \in followed
        PROVE  e # n /\ built[e].parent \in Ids /\ built[e].parent # n
    BY <1>0, <1>1, <2>1 DEF Pieces, BuildTypes
  <2> QED BY <1>0, <1>2, <1>4, <2>1 DEF OneArray
<1> QED BY <1>5, <1>7, <1>9, <1>10, <1>11, <1>12 DEF BuildIInv

\* The fields of a piece that closing it leaves alone.
Kept(x, y) ==
    y.state = x.state /\ y.kind = x.kind /\ y.parent = x.parent /\ y.walls = x.walls
    /\ y.list = x.list

\* What is entered, listed and shared depends on these fields only.
LEMMA KeptStep ==
    ASSUME BuildIInv, built' \in [Ids -> Piece],
           \A g \in Ids : built'[g].state = built[g].state /\ built'[g].kind = built[g].kind
                          /\ built'[g].parent = built[g].parent /\ built'[g].list = built[g].list,
           UNCHANGED <<expansions, disturbed, followed>>
    PROVE  Entries' /\ Pieces' /\ Listed' /\ OneArray'
<1>0. BuildTypes /\ Entries /\ Pieces /\ Listed /\ OneArray
  BY DEF BuildIInv
<1>1. Entries'
  <2> SUFFICES ASSUME NEW f \in Ids, NEW i \in DOMAIN expansions[f]
               PROVE  LET e == expansions[f][i].id IN
                      /\ built'[e].state # "unplaced" /\ built'[e].kind = "expansion"
                      /\ built'[e].parent = f
                      /\ built'[e].state = "removed" => f \in disturbed
                      /\ \A j \in DOMAIN expansions[f] :
                            expansions[f][j].slot = expansions[f][i].slot => j = i
    BY DEF Entries
  <2>1. expansions[f][i].id \in Ids
    BY <1>0, EntryType
  <2> QED BY <1>0, <2>1 DEF Entries
<1>2. Pieces'
  <2> SUFFICES ASSUME NEW e \in Ids
               PROVE  /\ built'[e].state = "unplaced" => built'[e].kind = "foundation" /\ e \notin disturbed
                      /\ built'[e].state = "unplaced" \/ built'[e].kind = "expansion" => expansions[e] = <<>>
                      /\ built'[e].state # "unplaced" => built'[e].list \in Ids
                      /\ built'[e].kind = "expansion" =>
                            /\ built'[e].parent \in Ids
                            /\ built'[built'[e].parent].kind = "foundation"
                            /\ built'[built'[e].parent].state # "unplaced"
                      /\ e \in followed => built'[e].kind = "expansion"
    BY DEF Pieces
  <2> QED BY <1>0 DEF Pieces
<1>3. Listed'
  <2> SUFFICES ASSUME NEW e \in Ids, built'[e].state = "there", built'[e].kind = "expansion",
                      built'[e].parent \notin disturbed
               PROVE  \E i \in DOMAIN expansions[built'[e].parent] :
                         expansions[built'[e].parent][i].id = e
    BY DEF Listed
  <2> QED BY <1>0 DEF Listed
<1>4. OneArray'
  <2> SUFFICES ASSUME NEW e \in followed, built'[e].state = "there",
                      built'[built'[e].parent].state = "there", built'[e].parent \notin disturbed
               PROVE  built'[e].list = built'[built'[e].parent].list
    BY DEF OneArray
  <2>1. e \in Ids /\ built[e].parent \in Ids
    BY <1>0 DEF BuildTypes, Pieces
  <2> QED BY <1>0, <2>1 DEF OneArray
<1> QED BY <1>1, <1>2, <1>3, <1>4

\* checkPerimeters of a foundation changes whether that foundation is secured.
LEMMA FoundationCheckedDoes ==
    ASSUME NEW b \in [Ids -> Piece], NEW f \in Ids
    PROVE  LET c == FoundationChecked(b, f) IN
           /\ c \in [Ids -> Piece]
           /\ \A g \in Ids : Kept(b[g], c[g]) /\ (g # f => c[g].secured = b[g].secured)
           /\ f \in There /\ Dangling(f) = {} =>
                 (c[f].secured <=> \A k \in Sides : Closed(b, expansions, f, k))
<1> DEFINE c == FoundationChecked(b, f)
           closed == \A k \in Sides : SideClosed(b, f, k)
<1>0. closed <=> \A k \in Sides : Closed(b, expansions, f, k)
  BY DEF SideClosed, Closed
<1>1. CASE f \notin There \/ Dangling(f) # {}
  BY <1>1 DEF FoundationChecked, Kept
<1>2. CASE f \in There /\ Dangling(f) = {}
  <2>1. c = [b EXCEPT ![f].secured = closed]
    BY <1>2 DEF FoundationChecked
  <2> HIDE DEF c
  <2>2. closed \in BOOLEAN
    OBVIOUS
  <2> HIDE DEF closed
  <2>3. b[f] \in Piece
    OBVIOUS
  <2>4. \A g \in Ids : c[g] = IF g = f THEN [b[f] EXCEPT !.secured = closed] ELSE b[g]
    BY <2>1
  <2>5. LET y == [b[f] EXCEPT !.secured = closed] IN
        y \in Piece /\ Kept(b[f], y) /\ y.secured = closed
    BY <2>2, <2>3, Zenon DEF Piece, Kept
  <2>6. c \in [Ids -> Piece]
    BY <2>1, <2>5
  <2>7. \A g \in Ids : Kept(b[g], c[g]) /\ (g # f => c[g].secured = b[g].secured)
    BY <2>4, <2>5 DEF Kept
  <2> QED BY <1>0, <2>4, <2>5, <2>6, <2>7 DEF c
<1> QED BY <1>1, <1>2


\* A removed expansion is only entered where something was removed.
LEMMA NoneDangling ==
    ASSUME BuildTypes, Entries, NEW f \in Ids, f \notin disturbed
    PROVE  Dangling(f) = {}
<1> SUFFICES ASSUME NEW i \in DOMAIN expansions[f]
             PROVE  expansions[f][i].id \in There
  BY DEF Dangling
<1>1. expansions[f][i].id \in Ids
  BY EntryType
<1>2. built[expansions[f][i].id].state \in {"unplaced", "there", "removed"}
  BY <1>1 DEF BuildTypes, Piece
<1>3. built[expansions[f][i].id].state # "unplaced" /\ built[expansions[f][i].id].state # "removed"
  BY DEF Entries
<1> QED BY <1>1, <1>2, <1>3 DEF There

\* Once a foundation is checked, it is as secured as it would be now, and so is
\* what was before.
LEMMA CheckedFresh ==
    ASSUME BuildIInv, NEW b \in [Ids -> Piece], NEW f \in Ids,
           built[f].kind = "foundation",
           \A g \in Ids : b[g].kind = built[g].kind,
           \A g \in Ids : built[g].state = "there" /\ g \notin disturbed /\ g # f =>
              FreshPiece(b, expansions, g)
    PROVE  \A g \in Ids : built[g].state = "there" /\ g \notin disturbed =>
              FreshPiece(FoundationChecked(b, f), expansions, g)
<1> DEFINE c == FoundationChecked(b, f)
<1>0. BuildTypes /\ Entries
  BY DEF BuildIInv
<1>1. /\ c \in [Ids -> Piece]
      /\ \A g \in Ids : Kept(b[g], c[g]) /\ (g # f => c[g].secured = b[g].secured)
      /\ f \in There /\ Dangling(f) = {} =>
            (c[f].secured <=> \A k \in Sides : Closed(b, expansions, f, k))
  BY FoundationCheckedDoes
<1> HIDE DEF c
<1>2. ASSUME NEW g \in Ids
      PROVE  \A i \in DOMAIN expansions[g] :
                c[expansions[g][i].id].secured = b[expansions[g][i].id].secured
  <2> SUFFICES ASSUME NEW i \in DOMAIN expansions[g]
               PROVE  c[expansions[g][i].id].secured = b[expansions[g][i].id].secured
    OBVIOUS
  <2>1. expansions[g][i].id \in Ids
    BY <1>0, EntryType
  <2>2. built[expansions[g][i].id].kind = "expansion"
    BY <1>0 DEF Entries
  <2> QED BY <1>1, <2>1, <2>2
<1>3. ASSUME NEW g \in Ids, built[g].state = "there", g \notin disturbed
      PROVE  FreshPiece(c, expansions, g)
  <2>1. CASE g # f
    <3>1. FreshPiece(b, expansions, g)
      BY <1>3, <2>1
    <3>2. c[g].kind = b[g].kind /\ c[g].walls = b[g].walls /\ c[g].secured = b[g].secured
      BY <1>1, <2>1 DEF Kept
    <3> QED BY <1>2, <3>1, <3>2, SameFresh
  <2>2. CASE g = f
    <3>1. Dangling(f) = {} /\ f \in There
      BY <1>0, <1>3, <2>2, NoneDangling DEF There
    <3>2. c[f].secured <=> \A k \in Sides : Closed(b, expansions, f, k)
      BY <1>1, <3>1
    <3>3. c[f].kind = "foundation" /\ c[f].walls = b[f].walls
      BY <1>1 DEF Kept
    <3>4. \A k \in Sides : Closed(c, expansions, f, k) <=> Closed(b, expansions, f, k)
      BY <1>2, <3>3 DEF Closed
    <3> QED BY <2>2, <3>2, <3>3, <3>4 DEF FreshPiece
  <2> QED BY <2>1, <2>2
<1> QED BY <1>3 DEF c

\* A wall secures what it closes, the expansion and the side of its foundation.
LEMMA PlaceWallStep ==
    ASSUME BuildIInv, NEW p \in Players, NEW f \in Ids,
           NEW place \in (Sides \cup {0}) \X Walls, PlaceWall(p, f, place)
    PROVE  BuildIInv'
<1> DEFINE b == [built EXCEPT ![f].walls = @ \cup {place}]
           d == [b EXCEPT ![f].secured = b[f].walls = Perimeter("expansion")]
           q == built[f].parent
<1>0. BuildTypes /\ Entries /\ Pieces /\ Listed /\ SecuredIsFresh /\ OneArray
  BY DEF BuildIInv
<1>1. /\ place \in Perimeter(built[f].kind) /\ built' = Checked(b, f)
      /\ UNCHANGED <<expansions, lists, disturbed, followed, changes>>
  BY DEF PlaceWall
<1>2. built \in [Ids -> Piece] /\ built[f] \in Piece
  BY <1>0 DEF BuildTypes
<1>3. LET y == [built[f] EXCEPT !.walls = @ \cup {place}] IN
      /\ y \in Piece /\ y.state = built[f].state /\ y.kind = built[f].kind
      /\ y.parent = built[f].parent /\ y.list = built[f].list
      /\ y.secured = built[f].secured /\ y.walls = built[f].walls \cup {place}
  <2>1. built[f].walls \cup {place} \in SUBSET ((Sides \cup {0}) \X Walls)
    BY <1>2 DEF Piece
  <2> DEFINE w == built[f].walls \cup {place}
  <2>2. [built[f] EXCEPT !.walls = @ \cup {place}] = [built[f] EXCEPT !.walls = w]
    BY <1>2
  <2> HIDE DEF w
  <2>3. LET y == [built[f] EXCEPT !.walls = w] IN
        /\ y \in Piece /\ y.state = built[f].state /\ y.kind = built[f].kind
        /\ y.parent = built[f].parent /\ y.list = built[f].list
        /\ y.secured = built[f].secured /\ y.walls = w
    BY <1>2, <2>1, Zenon DEF Piece, w
  <2> QED BY <2>2, <2>3 DEF w
<1>4. /\ b \in [Ids -> Piece]
      /\ \A g \in Ids : g # f => b[g] = built[g]
      /\ b[f].state = built[f].state /\ b[f].kind = built[f].kind
      /\ b[f].parent = built[f].parent /\ b[f].list = built[f].list
      /\ b[f].secured = built[f].secured /\ b[f].walls = built[f].walls \cup {place}
  <2>1. \A g \in Ids : b[g] = IF g = f THEN [built[f] EXCEPT !.walls = @ \cup {place}] ELSE built[g]
    BY <1>2
  <2>2. b \in [Ids -> Piece]
    BY <1>2, <1>3
  <2> HIDE DEF b
  <2> QED BY <1>3, <2>1, <2>2
<1> HIDE DEF b
<1>5. \A g \in Ids : b[g].walls \subseteq Perimeter(b[g].kind)
  BY <1>0, <1>1, <1>4 DEF BuildTypes
<1>6. ASSUME NEW g \in Ids
      PROVE  \A i \in DOMAIN expansions[g] : LET e == expansions[g][i].id IN
                e \in Ids /\ built[e].kind = "expansion" /\ built[e].parent = g
  BY <1>0, EntryType DEF Entries
<1>7. CASE built[f].kind = "foundation"
  <2>1. built' = FoundationChecked(b, f)
    BY <1>1, <1>4, <1>7 DEF Checked
  <2>2. built' \in [Ids -> Piece] /\ \A g \in Ids : Kept(b[g], built'[g])
    BY <1>4, <2>1, FoundationCheckedDoes
  <2>3. BuildTypes'
    BY <1>0, <1>1, <1>5, <2>2 DEF BuildTypes, Kept
  <2>4. Entries' /\ Pieces' /\ Listed' /\ OneArray'
    <3>1. \A g \in Ids : built'[g].state = built[g].state /\ built'[g].kind = built[g].kind
                         /\ built'[g].parent = built[g].parent /\ built'[g].list = built[g].list
      BY <1>4, <2>2 DEF Kept
    <3> QED BY <1>1, <2>2, <3>1, KeptStep
  <2>5. ASSUME NEW g \in Ids, built[g].state = "there", g \notin disturbed, g # f
        PROVE  FreshPiece(b, expansions, g)
    <3>1. FreshPiece(built, expansions, g)
      BY <1>0, <2>5, FreshMeans
    <3>2. \A i \in DOMAIN expansions[g] :
             b[expansions[g][i].id].secured = built[expansions[g][i].id].secured
      BY <1>4, <1>6
    <3> QED BY <1>4, <2>5, <3>1, <3>2, SameFresh
  <2>6. \A g \in Ids : b[g].kind = built[g].kind
    BY <1>4
  <2>7. \A g \in Ids : built[g].state = "there" /\ g \notin disturbed =>
           FreshPiece(built', expansions, g)
    BY <1>4, <1>7, <2>1, <2>5, <2>6, CheckedFresh
  <2>8. SecuredIsFresh'
    BY <1>1, <1>4, <2>2, <2>7, FreshMeans DEF Kept
  <2> QED BY <2>3, <2>4, <2>8 DEF BuildIInv
<1>8. CASE built[f].kind = "expansion"
  <2>1. q \in Ids /\ built[q].kind = "foundation" /\ q # f
    BY <1>0, <1>8 DEF Pieces
  <2>2. built' = FoundationChecked(d, q)
    BY <1>1, <1>4, <1>8 DEF Checked
  <2>3. /\ d \in [Ids -> Piece]
        /\ \A g \in Ids : g # f => d[g] = b[g]
        /\ Kept(b[f], d[f])
        /\ d[f].secured = (b[f].walls = Perimeter("expansion"))
    <3> DEFINE closed == b[f].walls = Perimeter("expansion")
    <3>1. closed \in BOOLEAN /\ b[f] \in Piece
      BY <1>4
    <3>2. d = [b EXCEPT ![f].secured = closed]
      OBVIOUS
    <3> HIDE DEF closed, d
    <3>3. \A g \in Ids : d[g] = IF g = f THEN [b[f] EXCEPT !.secured = closed] ELSE b[g]
      BY <1>4, <3>2
    <3>4. LET y == [b[f] EXCEPT !.secured = closed] IN
          y \in Piece /\ Kept(b[f], y) /\ y.secured = closed
      BY <3>1, Zenon DEF Piece, Kept
    <3>5. d \in [Ids -> Piece]
      BY <1>4, <3>2, <3>4
    <3> QED BY <3>3, <3>4, <3>5 DEF closed
  <2> HIDE DEF d
  <2>4. built' \in [Ids -> Piece] /\ \A g \in Ids : Kept(d[g], built'[g])
    BY <2>1, <2>2, <2>3, FoundationCheckedDoes
  <2>5. \A g \in Ids : Kept(b[g], d[g])
    BY <2>3 DEF Kept
  <2>6. BuildTypes'
    BY <1>0, <1>1, <1>5, <2>4, <2>5, ZenonT(40) DEF BuildTypes, Kept
  <2>7. Entries' /\ Pieces' /\ Listed' /\ OneArray'
    <3>1. \A g \in Ids : built'[g].state = built[g].state /\ built'[g].kind = built[g].kind
                         /\ built'[g].parent = built[g].parent /\ built'[g].list = built[g].list
      BY <1>4, <2>4, <2>5 DEF Kept
    <3> QED BY <1>1, <2>4, <3>1, KeptStep
  <2>8. ASSUME NEW g \in Ids, built[g].state = "there", g \notin disturbed, g # q
        PROVE  FreshPiece(d, expansions, g)
    <3>1. CASE g = f
      <4>1. d[f].kind = "expansion" /\ d[f].walls = b[f].walls
        BY <1>4, <1>8, <2>3 DEF Kept
      <4> QED BY <2>3, <3>1, <4>1 DEF FreshPiece
    <3>2. CASE g # f
      <4>1. FreshPiece(built, expansions, g)
        BY <1>0, <2>8, FreshMeans
      <4>2. \A i \in DOMAIN expansions[g] :
               d[expansions[g][i].id].secured = built[expansions[g][i].id].secured
        BY <1>4, <1>6, <2>3, <2>8
      <4>3. d[g] = built[g]
        BY <1>4, <2>3, <3>2
      <4> QED BY <4>1, <4>2, <4>3, SameFresh
    <3> QED BY <3>1, <3>2
  <2>9. \A g \in Ids : d[g].kind = built[g].kind
    BY <1>4, <2>5 DEF Kept
  <2>10. \A g \in Ids : built[g].state = "there" /\ g \notin disturbed =>
            FreshPiece(built', expansions, g)
    BY <2>1, <2>2, <2>3, <2>8, <2>9, CheckedFresh
  <2>11. SecuredIsFresh'
    BY <1>1, <1>4, <2>4, <2>5, <2>10, FreshMeans DEF Kept
  <2> QED BY <2>6, <2>7, <2>11 DEF BuildIInv
<1>9. built[f].kind \in {"foundation", "expansion"}
  BY <1>2 DEF Piece
<1> QED BY <1>7, <1>8, <1>9


\* A new expansion is open, and has an array of its own; where its slot was
\* taken, the foundation has lost an expansion.
LEMMA PlaceExpansionStep ==
    ASSUME BuildIInv, NEW p \in Players, NEW f \in Ids, NEW k \in Sides,
           PlaceExpansion(p, f, k)
    PROVE  BuildIInv'
<1> DEFINE n == Min(Unused)
           x == Placed(p, "expansion", f, n)
           y == [slot |-> k, id |-> n]
           s == Entered(f, y)
           old == expansions[f]
<1>0. BuildTypes /\ Entries /\ Pieces /\ Listed /\ SecuredIsFresh /\ OneArray
  BY DEF BuildIInv
<1>1. n \in Ids /\ built[n].state = "unplaced"
  BY NextIsUnused DEF PlaceExpansion
<1>2. /\ built' = [built EXCEPT ![n] = x] /\ lists' = [lists EXCEPT ![n] = {p}]
      /\ expansions' = [expansions EXCEPT ![f] = s]
      /\ UNCHANGED <<followed, changes>>
  BY DEF PlaceExpansion
<1>3. /\ disturbed \subseteq disturbed' /\ disturbed' \subseteq disturbed \cup {f}
      /\ f \notin disturbed' => \A i \in DOMAIN old : old[i].slot # k
  BY DEF PlaceExpansion
<1>4. built[f].state = "there" /\ built[f].kind = "foundation"
  BY DEF PlaceExpansion, Foundations, There
<1>5. /\ x \in Piece
      /\ x.state = "there" /\ x.kind = "expansion" /\ x.parent = f
      /\ x.walls = {} /\ ~x.secured /\ x.list = n
  <2> DEFINE kind == "expansion"
             parent == f
  <2> HIDE DEF n
  <2>1. kind \in {"foundation", "expansion"} /\ parent \in Ids \cup {Nothing} /\ n \in Ids
    BY <1>1
  <2> HIDE DEF kind, parent
  <2>2. LET z == Placed(p, kind, parent, n) IN
        /\ z \in Piece
        /\ z.state = "there" /\ z.kind = kind /\ z.parent = parent
        /\ z.walls = {} /\ ~z.secured /\ z.list = n
    BY <2>1, PlacedPiece
  <2> QED BY <2>2 DEF kind, parent
<1>6. y \in [slot : Sides, id : Ids] /\ y.slot = k /\ y.id = n
  BY <1>1
<1> HIDE DEF n, x, y
<1>7. /\ s \in Seq([slot : Sides, id : Ids])
      /\ \A i, j \in DOMAIN s : s[i].slot = s[j].slot => j = i
      /\ \A i \in DOMAIN s : s[i] = y \/ (i \in DOMAIN old /\ s[i] = old[i])
      /\ \E i \in DOMAIN s : s[i] = y
      /\ (\A i \in DOMAIN old : old[i].slot # y.slot) =>
            \A i \in DOMAIN old : i \in DOMAIN s /\ s[i] = old[i]
  BY <1>0, <1>6, EnteredOnce
<1> HIDE DEF s
<1>8. /\ built' \in [Ids -> Piece] /\ built'[n] = x
      /\ \A g \in Ids : g # n => built'[g] = built[g]
  BY <1>0, <1>1, <1>2, <1>5 DEF BuildTypes
<1>9. /\ expansions' \in [Ids -> Seq([slot : Sides, id : Ids])] /\ expansions'[f] = s
      /\ \A g \in Ids : g # f => expansions'[g] = expansions[g]
  BY <1>0, <1>2, <1>7 DEF BuildTypes
<1>10. n # f /\ expansions[n] = <<>> /\ n \notin followed
  BY <1>0, <1>1, <1>4 DEF Pieces
<1>11. BuildTypes'
  <2>1. lists' \in [Ids -> SUBSET Players]
    BY <1>0, <1>1, <1>2 DEF BuildTypes
  <2>2. \A g \in Ids : built'[g].walls \subseteq Perimeter(built'[g].kind)
    BY <1>0, <1>5, <1>8 DEF BuildTypes
  <2> QED BY <1>0, <1>2, <1>8, <1>9, <2>1, <2>2 DEF BuildTypes
<1>12. ASSUME NEW g \in Ids, NEW i \in DOMAIN expansions[g]
       PROVE  expansions[g][i].id \in Ids /\ built'[expansions[g][i].id] = built[expansions[g][i].id]
  <2>1. expansions[g][i].id \in Ids
    BY <1>0, EntryType
  <2>2. built[expansions[g][i].id].state # "unplaced"
    BY <1>0 DEF Entries
  <2> QED BY <1>1, <1>8, <2>1, <2>2
<1>13. Entries'
  <2> SUFFICES ASSUME NEW g \in Ids, NEW i \in DOMAIN expansions'[g]
               PROVE  LET e == expansions'[g][i].id IN
                      /\ built'[e].state # "unplaced" /\ built'[e].kind = "expansion"
                      /\ built'[e].parent = g
                      /\ built'[e].state = "removed" => g \in disturbed'
                      /\ \A j \in DOMAIN expansions'[g] :
                            expansions'[g][j].slot = expansions'[g][i].slot => j = i
    BY DEF Entries
  <2>1. CASE g # f
    <3>1. expansions'[g] = expansions[g]
      BY <1>9, <2>1
    <3>2. LET e == expansions[g][i].id IN
          /\ built[e].state # "unplaced" /\ built[e].kind = "expansion" /\ built[e].parent = g
          /\ built[e].state = "removed" => g \in disturbed
          /\ \A j \in DOMAIN expansions[g] :
                expansions[g][j].slot = expansions[g][i].slot => j = i
      BY <1>0, <3>1 DEF Entries
    <3>3. built'[expansions[g][i].id] = built[expansions[g][i].id]
      BY <1>12, <3>1
    <3> QED BY <1>3, <3>1, <3>2, <3>3
  <2>2. CASE g = f /\ s[i] = y
    BY <1>5, <1>6, <1>7, <1>8, <1>9, <2>2
  <2>3. CASE g = f /\ i \in DOMAIN old /\ s[i] = old[i]
    <3>1. LET e == old[i].id IN
          /\ built[e].state # "unplaced" /\ built[e].kind = "expansion" /\ built[e].parent = f
          /\ built[e].state = "removed" => f \in disturbed
      BY <1>0, <2>3 DEF Entries
    <3>2. built'[old[i].id] = built[old[i].id]
      BY <1>12, <2>3
    <3> QED BY <1>3, <1>7, <1>9, <2>3, <3>1, <3>2
  <2> QED BY <1>7, <1>9, <2>1, <2>2, <2>3
<1>14. Pieces'
  <2> SUFFICES ASSUME NEW e \in Ids
               PROVE  /\ built'[e].state = "unplaced" => built'[e].kind = "foundation" /\ e \notin disturbed'
                      /\ built'[e].state = "unplaced" \/ built'[e].kind = "expansion" => expansions'[e] = <<>>
                      /\ built'[e].state # "unplaced" => built'[e].list \in Ids
                      /\ built'[e].kind = "expansion" =>
                            /\ built'[e].parent \in Ids
                            /\ built'[built'[e].parent].kind = "foundation"
                            /\ built'[built'[e].parent].state # "unplaced"
                      /\ e \in followed' => built'[e].kind = "expansion"
    BY DEF Pieces
  <2>1. CASE e = n
    BY <1>1, <1>4, <1>5, <1>8, <1>9, <1>10, <2>1
  <2>2. CASE e # n
    <3>1. built[e].kind = "expansion" => built[e].parent \in Ids /\ built[e].parent # n /\ e # f
      BY <1>0, <1>1, <1>4 DEF Pieces
    <3>2. built[e].state = "unplaced" => e # f
      BY <1>4
    <3>3. built'[e] = built[e]
      BY <1>8, <2>2
    <3>4. built[e].kind = "expansion" => built'[built[e].parent] = built[built[e].parent]
      BY <1>8, <3>1
    <3> QED BY <1>0, <1>2, <1>3, <1>9, <3>1, <3>2, <3>3, <3>4 DEF Pieces
  <2> QED BY <2>1, <2>2
<1>15. Listed'
  <2> SUFFICES ASSUME NEW e \in Ids, built'[e].state = "there", built'[e].kind = "expansion",
                      built'[e].parent \notin disturbed'
               PROVE  \E i \in DOMAIN expansions'[built'[e].parent] :
                         expansions'[built'[e].parent][i].id = e
    BY DEF Listed
  <2>1. CASE e = n
    BY <1>5, <1>6, <1>7, <1>8, <1>9, <2>1
  <2>2. CASE e # n
    <3>1. built'[e] = built[e]
      BY <1>8, <2>2
    <3>2. PICK i \in DOMAIN expansions[built[e].parent] : expansions[built[e].parent][i].id = e
      BY <1>0, <1>3, <3>1 DEF Listed
    <3>3. built[e].parent \in Ids
      BY <1>0, <3>1 DEF Pieces
    <3>4. CASE built[e].parent # f
      BY <1>9, <3>1, <3>2, <3>3, <3>4
    <3>5. CASE built[e].parent = f
      BY <1>3, <1>6, <1>7, <1>9, <3>1, <3>2, <3>5
    <3> QED BY <3>4, <3>5
  <2> QED BY <2>1, <2>2
<1>16. SecuredIsFresh'
  <2>1. FreshPiece(built', expansions', n)
    <3>1. built'[n].walls = {} /\ ~built'[n].secured
      BY <1>5, <1>8
    <3>2. \A i \in DOMAIN expansions'[n] : ~built'[expansions'[n][i].id].secured
      BY <1>1, <1>9, <1>10
    <3> QED BY <3>1, <3>2, BareIsFresh
  <2>2. ASSUME NEW g \in Ids, g # n, g # f, built[g].state = "there", g \notin disturbed
        PROVE  FreshPiece(built', expansions', g)
    <3>1. FreshPiece(built, expansions, g)
      BY <1>0, <2>2, FreshMeans
    <3>2. \A i \in DOMAIN expansions[g] :
            built'[expansions[g][i].id].secured = built[expansions[g][i].id].secured
      BY <1>12
    <3> QED BY <1>8, <1>9, <2>2, <3>1, <3>2, SameFresh
  <2>3. ASSUME f \notin disturbed'
        PROVE  FreshPiece(built', expansions', f)
    <3>1. FreshPiece(built, expansions, f)
      BY <1>0, <1>3, <1>4, <2>3, FreshMeans
    <3>2. \A i \in DOMAIN old : i \in DOMAIN s /\ s[i] = old[i]
      BY <1>3, <1>6, <1>7, <2>3
    <3>3. built'[f] = built[f] /\ expansions'[f] = s
      BY <1>8, <1>9, <1>10
    <3>4. ~built'[y.id].secured
      BY <1>5, <1>6, <1>8
    <3>5. \A i \in DOMAIN old : built'[old[i].id] = built[old[i].id]
      BY <1>12
    <3>6. \A side \in Sides :
             Closed(built', expansions', f, side) <=> Closed(built, expansions, f, side)
      BY <1>7, <3>2, <3>3, <3>4, <3>5 DEF Closed
    <3> QED BY <3>1, <3>3, <3>6 DEF FreshPiece
  <2> QED BY <1>3, <1>8, <2>1, <2>2, <2>3, FreshMeans
<1>17. OneArray'
  <2> SUFFICES ASSUME NEW e \in followed, built'[e].state = "there",
                      built'[built'[e].parent].state = "there", built'[e].parent \notin disturbed'
               PROVE  built'[e].list = built'[built'[e].parent].list
    BY <1>2 DEF OneArray
  <2>1. e \in Ids /\ e # n /\ built[e].parent \in Ids /\ built[e].parent # n
    BY <1>0, <1>1, <1>10 DEF BuildTypes, Pieces
  <2>2. built'[e] = built[e] /\ built'[built[e].parent] = built[built[e].parent]
    BY <1>8, <2>1
  <2> QED BY <1>0, <1>3, <2>2 DEF OneArray
<1> QED BY <1>11, <1>13, <1>14, <1>15, <1>16, <1>17 DEF BuildIInv

\* What is removed leaves its foundation disturbed.
LEMMA RemoveFoundationStep ==
    ASSUME BuildIInv, NEW f \in Ids, RemoveFoundation(f)
    PROVE  BuildIInv'
<1>0. BuildTypes /\ Entries /\ Pieces /\ Listed /\ SecuredIsFresh /\ OneArray
  BY DEF BuildIInv
<1>1. /\ built' = [built EXCEPT ![f].state = "removed"]
      /\ built[f].state = "there" /\ changes < MaxChanges /\ changes' = changes + 1
      /\ UNCHANGED <<expansions, lists, followed>>
  BY DEF RemoveFoundation, There, Change
<1>2. /\ disturbed' = disturbed \cup
            (IF built[f].kind = "expansion" THEN {built[f].parent} ELSE {})
  BY DEF RemoveFoundation
<1>3. built \in [Ids -> Piece] /\ built[f] \in Piece
  BY <1>0 DEF BuildTypes
<1>4. LET y == [built[f] EXCEPT !.state = "removed"] IN
      /\ y \in Piece /\ y.state = "removed" /\ y.kind = built[f].kind
      /\ y.parent = built[f].parent /\ y.list = built[f].list
      /\ y.secured = built[f].secured /\ y.walls = built[f].walls
  <2>1. "removed" \in {"unplaced", "there", "removed"}
    OBVIOUS
  <2> QED BY <1>3, <2>1, Zenon DEF Piece
<1>5. /\ built' \in [Ids -> Piece]
      /\ \A g \in Ids : g # f => built'[g] = built[g]
      /\ built'[f].state = "removed" /\ built'[f].kind = built[f].kind
      /\ built'[f].parent = built[f].parent /\ built'[f].list = built[f].list
      /\ built'[f].secured = built[f].secured /\ built'[f].walls = built[f].walls
  <2>1. \A g \in Ids : built'[g] = IF g = f THEN [built[f] EXCEPT !.state = "removed"] ELSE built[g]
    BY <1>1, <1>3
  <2>2. built' \in [Ids -> Piece]
    BY <1>1, <1>3, <1>4
  <2> QED BY <1>4, <2>1, <2>2
<1>6. changes' \in 0 .. MaxChanges
  BY <1>0, <1>1, BuildAssumption DEF BuildTypes
<1>7. BuildTypes'
  BY <1>0, <1>1, <1>5, <1>6 DEF BuildTypes
<1>8. \A g \in Ids :
         /\ built'[g].kind = built[g].kind /\ built'[g].parent = built[g].parent
         /\ built'[g].list = built[g].list /\ built'[g].secured = built[g].secured
         /\ built'[g].walls = built[g].walls
         /\ built'[g].state = "unplaced" <=> built[g].state = "unplaced"
         /\ built'[g].state = "there" => built[g].state = "there"
         /\ g # f => built'[g].state = built[g].state
  BY <1>1, <1>5
<1>9. Entries'
  <2> SUFFICES ASSUME NEW g \in Ids, NEW i \in DOMAIN expansions[g]
               PROVE  LET e == expansions[g][i].id IN
                      /\ built'[e].state # "unplaced" /\ built'[e].kind = "expansion"
                      /\ built'[e].parent = g
                      /\ built'[e].state = "removed" => g \in disturbed'
                      /\ \A j \in DOMAIN expansions[g] :
                            expansions[g][j].slot = expansions[g][i].slot => j = i
    BY <1>1 DEF Entries
  <2>1. expansions[g][i].id \in Ids
    BY <1>0, EntryType
  <2>2. LET e == expansions[g][i].id IN
        /\ built[e].state # "unplaced" /\ built[e].kind = "expansion" /\ built[e].parent = g
        /\ built[e].state = "removed" => g \in disturbed
        /\ \A j \in DOMAIN expansions[g] : expansions[g][j].slot = expansions[g][i].slot => j = i
    BY <1>0 DEF Entries
  <2> QED BY <1>2, <1>8, <2>1, <2>2
<1>10. Pieces'
  <2> SUFFICES ASSUME NEW e \in Ids
               PROVE  /\ built'[e].state = "unplaced" => built'[e].kind = "foundation" /\ e \notin disturbed'
                      /\ built'[e].state = "unplaced" \/ built'[e].kind = "expansion" => expansions[e] = <<>>
                      /\ built'[e].state # "unplaced" => built'[e].list \in Ids
                      /\ built'[e].kind = "expansion" =>
                            /\ built'[e].parent \in Ids
                            /\ built'[built'[e].parent].kind = "foundation"
                            /\ built'[built'[e].parent].state # "unplaced"
                      /\ e \in followed => built'[e].kind = "expansion"
    BY <1>1 DEF Pieces
  <2>1. built[f].kind = "expansion" => built[built[f].parent].state # "unplaced"
    BY <1>0 DEF Pieces
  <2> QED BY <1>0, <1>2, <1>8, <2>1 DEF Pieces
<1>11. Listed'
  <2> SUFFICES ASSUME NEW e \in Ids, built'[e].state = "there", built'[e].kind = "expansion",
                      built'[e].parent \notin disturbed'
               PROVE  \E i \in DOMAIN expansions[built'[e].parent] :
                         expansions[built'[e].parent][i].id = e
    BY <1>1 DEF Listed
  <2> QED BY <1>0, <1>2, <1>8 DEF Listed
<1>12. SecuredIsFresh'
  <2>1. ASSUME NEW g \in Ids, built[g].state = "there", g \notin disturbed
        PROVE  FreshPiece(built', expansions', g)
    <3>1. FreshPiece(built, expansions, g)
      BY <1>0, <2>1, FreshMeans
    <3>2. \A i \in DOMAIN expansions[g] :
            built'[expansions[g][i].id].secured = built[expansions[g][i].id].secured
      <4> SUFFICES ASSUME NEW i \in DOMAIN expansions[g]
                   PROVE  built'[expansions[g][i].id].secured = built[expansions[g][i].id].secured
        OBVIOUS
      <4>1. expansions[g][i].id \in Ids
        BY <1>0, EntryType
      <4> QED BY <1>8, <4>1
    <3>3. /\ built'[g].kind = built[g].kind /\ built'[g].walls = built[g].walls
          /\ built'[g].secured = built[g].secured /\ expansions'[g] = expansions[g]
      BY <1>1, <1>8
    <3> QED BY <3>1, <3>2, <3>3, SameFresh
  <2> QED BY <1>2, <1>8, <2>1, FreshMeans
<1>13. OneArray'
  <2> SUFFICES ASSUME NEW e \in followed, built'[e].state = "there",
                      built'[built'[e].parent].state = "there", built'[e].parent \notin disturbed'
               PROVE  built'[e].list = built'[built'[e].parent].list
    BY <1>1 DEF OneArray
  <2>1. e \in Ids /\ built[e].parent \in Ids
    BY <1>0 DEF BuildTypes, Pieces
  <2> QED BY <1>0, <1>2, <1>8, <2>1 DEF OneArray
<1> QED BY <1>7, <1>9, <1>10, <1>11, <1>12, <1>13 DEF BuildIInv


\* An edit hands the array of the foundation on to every expansion it has.
LEMMA EditPermissionStep ==
    ASSUME BuildIInv, NEW f \in Ids, NEW u \in Players, EditPermission(f, u)
    PROVE  BuildIInv'
<1> DEFINE a == built[f].list
           R == Reached(f)
           list == IF u \in lists[a] THEN lists[a] \ {u} ELSE lists[a] \cup {u}
<1>0. BuildTypes /\ Entries /\ Pieces /\ Listed /\ SecuredIsFresh /\ OneArray
  BY DEF BuildIInv
<1>1. /\ lists' = [lists EXCEPT ![a] = list]
      /\ built' = [g \in Ids |-> IF g \in R THEN [built[g] EXCEPT !.list = a] ELSE built[g]]
      /\ followed' = followed \cup {expansions[f][i].id : i \in DOMAIN expansions[f]}
      /\ built[f].state = "there" /\ changes < MaxChanges /\ changes' = changes + 1
      /\ UNCHANGED <<expansions, disturbed>>
  BY DEF EditPermission, Share, Change, There
<1>2. a \in Ids
  BY <1>0, <1>1 DEF Pieces
<1>3. lists' \in [Ids -> SUBSET Players]
  <2>1. lists \in [Ids -> SUBSET Players] /\ lists[a] \in SUBSET Players
    BY <1>0, <1>2 DEF BuildTypes
  <2>2. list \in SUBSET Players
    BY <2>1
  <2> HIDE DEF list
  <2> QED BY <1>1, <2>1, <2>2
<1>4. ASSUME NEW g \in Ids
      PROVE  LET y == [built[g] EXCEPT !.list = a] IN
             /\ y \in Piece /\ y.state = built[g].state /\ y.kind = built[g].kind
             /\ y.parent = built[g].parent /\ y.list = a
             /\ y.secured = built[g].secured /\ y.walls = built[g].walls
  <2>1. built[g] \in Piece
    BY <1>0 DEF BuildTypes
  <2>2. a \in Ids \cup {Nothing}
    BY <1>2
  <2> HIDE DEF a
  <2> QED BY <2>1, <2>2, Zenon DEF Piece
<1> HIDE DEF a, R, list
<1>5. \A g \in Ids : built'[g] = IF g \in R THEN [built[g] EXCEPT !.list = a] ELSE built[g]
  BY <1>1
<1>6. built' \in [Ids -> Piece]
  <2>1. \A g \in Ids : (IF g \in R THEN [built[g] EXCEPT !.list = a] ELSE built[g]) \in Piece
    BY <1>0, <1>4 DEF BuildTypes
  <2> QED BY <1>1, <2>1
<1>7. \A g \in Ids :
         /\ built'[g].kind = built[g].kind /\ built'[g].parent = built[g].parent
         /\ built'[g].secured = built[g].secured /\ built'[g].walls = built[g].walls
         /\ built'[g].state = built[g].state
         /\ g \in R => built'[g].list = a
         /\ g \notin R => built'[g].list = built[g].list
  BY <1>4, <1>5
<1>8. /\ \A e \in R : \E i \in DOMAIN expansions[f] : expansions[f][i].id = e
      /\ Dangling(f) = {} => \A i \in DOMAIN expansions[f] : expansions[f][i].id \in R
  BY <1>0, ReachedEntries DEF R
<1>9. ASSUME NEW i \in DOMAIN expansions[f]
      PROVE  /\ expansions[f][i].id \in Ids
             /\ built[expansions[f][i].id].kind = "expansion"
             /\ built[expansions[f][i].id].parent = f
  BY <1>0, EntryType DEF Entries
<1>10. changes' \in 0 .. MaxChanges
  BY <1>0, <1>1, BuildAssumption DEF BuildTypes
<1>11. followed' \subseteq Ids
  BY <1>0, <1>1, <1>9 DEF BuildTypes
<1>12. BuildTypes'
  BY <1>0, <1>1, <1>3, <1>6, <1>7, <1>10, <1>11 DEF BuildTypes
<1>13. Entries'
  <2> SUFFICES ASSUME NEW g \in Ids, NEW i \in DOMAIN expansions[g]
               PROVE  LET e == expansions[g][i].id IN
                      /\ built'[e].state # "unplaced" /\ built'[e].kind = "expansion"
                      /\ built'[e].parent = g
                      /\ built'[e].state = "removed" => g \in disturbed
                      /\ \A j \in DOMAIN expansions[g] :
                            expansions[g][j].slot = expansions[g][i].slot => j = i
    BY <1>1, SMTT(30) DEF Entries
  <2>1. expansions[g][i].id \in Ids
    BY <1>0, EntryType
  <2> QED BY <1>0, <1>7, <2>1 DEF Entries
<1>14. Pieces'
  <2> SUFFICES ASSUME NEW e \in Ids
               PROVE  /\ built'[e].state = "unplaced" => built'[e].kind = "foundation" /\ e \notin disturbed
                      /\ built'[e].state = "unplaced" \/ built'[e].kind = "expansion" => expansions[e] = <<>>
                      /\ built'[e].state # "unplaced" => built'[e].list \in Ids
                      /\ built'[e].kind = "expansion" =>
                            /\ built'[e].parent \in Ids
                            /\ built'[built'[e].parent].kind = "foundation"
                            /\ built'[built'[e].parent].state # "unplaced"
                      /\ e \in followed' => built'[e].kind = "expansion"
    BY <1>1 DEF Pieces
  <2>1. e \in followed' => built[e].kind = "expansion"
    BY <1>0, <1>1, <1>9 DEF Pieces
  <2>2. built'[e].state # "unplaced" => built'[e].list \in Ids
    BY <1>0, <1>2, <1>7 DEF Pieces
  <2> QED BY <1>0, <1>7, <2>1, <2>2 DEF Pieces
<1>15. Listed'
  <2> SUFFICES ASSUME NEW e \in Ids, built'[e].state = "there", built'[e].kind = "expansion",
                      built'[e].parent \notin disturbed
               PROVE  \E i \in DOMAIN expansions[built'[e].parent] :
                         expansions[built'[e].parent][i].id = e
    BY <1>1 DEF Listed
  <2> QED BY <1>0, <1>7 DEF Listed
<1>16. SecuredIsFresh'
  <2>1. ASSUME NEW g \in Ids, built[g].state = "there", g \notin disturbed
        PROVE  FreshPiece(built', expansions', g)
    <3>1. FreshPiece(built, expansions, g)
      BY <1>0, <2>1, FreshMeans
    <3>2. \A i \in DOMAIN expansions[g] :
            built'[expansions[g][i].id].secured = built[expansions[g][i].id].secured
      <4> SUFFICES ASSUME NEW i \in DOMAIN expansions[g]
                   PROVE  built'[expansions[g][i].id].secured = built[expansions[g][i].id].secured
        OBVIOUS
      <4>1. expansions[g][i].id \in Ids
        BY <1>0, EntryType
      <4> QED BY <1>7, <4>1
    <3> QED BY <1>1, <1>7, <3>1, <3>2, SameFresh
  <2> QED BY <1>1, <1>7, <2>1, FreshMeans
<1>17. OneArray'
  <2> SUFFICES ASSUME NEW e \in followed', built'[e].state = "there",
                      built'[built'[e].parent].state = "there", built'[e].parent \notin disturbed
               PROVE  built'[e].list = built'[built'[e].parent].list
    BY <1>1 DEF OneArray
  <2> DEFINE h == built[e].parent
  <2>1. e \in Ids /\ built[e].kind = "expansion"
    BY <1>0, <1>1, <1>9, <1>11 DEF Pieces
  <2>2. h \in Ids /\ built[h].kind = "foundation"
    BY <1>0, <2>1 DEF Pieces
  <2>3. built'[e].parent = h /\ h \notin disturbed /\ built[e].state = "there" /\ built[h].state = "there"
    BY <1>7, <2>1, <2>2
  <2> HIDE DEF h
  <2>4. h \notin R
    BY <1>8, <1>9, <2>2
  <2>5. built'[h].list = built[h].list
    BY <1>7, <2>2, <2>4
  <2>6. CASE h = f
    <3>1. Dangling(f) = {}
      BY <1>0, <2>3, <2>6, NoneDangling
    <3>2. \E i \in DOMAIN expansions[f] : expansions[f][i].id = e
      BY <1>0, <2>1, <2>3, <2>6 DEF Listed, h
    <3>3. e \in R
      BY <1>8, <3>1, <3>2
    <3> QED BY <1>7, <2>1, <2>3, <2>5, <2>6, <3>3 DEF a
  <2>7. CASE h # f
    <3>1. e \notin R /\ e \in followed
      BY <1>1, <1>8, <1>9, <2>7 DEF h
    <3>2. built[e].list = built[h].list
      BY <1>0, <2>3, <3>1 DEF OneArray, h
    <3> QED BY <1>7, <2>1, <2>3, <2>5, <3>1, <3>2
  <2> QED BY <2>6, <2>7
<1> QED BY <1>12, <1>13, <1>14, <1>15, <1>16, <1>17 DEF BuildIInv

\* At first nothing is placed.
LEMMA BuildInitIInv == BuildInit => BuildIInv
<1> SUFFICES ASSUME BuildInit PROVE BuildIInv
  OBVIOUS
<1>1. built = [f \in Ids |-> Unplaced] /\ expansions = [f \in Ids |-> <<>>]
      /\ lists = [f \in Ids |-> {}] /\ disturbed = {} /\ followed = {} /\ changes = 0
  BY DEF BuildInit
<1>2. Unplaced.state = "unplaced" /\ Unplaced.kind = "foundation" /\ Unplaced.walls = {}
  BY Zenon DEF Unplaced
<1>3. Unplaced \in Piece
  <2>1. /\ "foundation" \in {"foundation", "expansion"}
        /\ "unplaced" \in {"unplaced", "there", "removed"}
        /\ Nothing \in Players \cup {Nothing} /\ Nothing \in Ids \cup {Nothing}
        /\ {} \in SUBSET ((Sides \cup {0}) \X Walls)
        /\ FALSE \in BOOLEAN
    OBVIOUS
  <2> QED BY <2>1, Zenon DEF Unplaced, Piece
<1>4. \A f \in Ids : built[f] = Unplaced /\ expansions[f] = <<>>
  BY <1>1
<1>5. BuildTypes
  <2>1. built \in [Ids -> Piece]
    BY <1>1, <1>3
  <2>2. expansions \in [Ids -> Seq([slot : Sides, id : Ids])]
    BY <1>1
  <2>3. 0 \in 0 .. MaxChanges
    BY BuildAssumption
  <2> QED BY <1>1, <1>2, <1>4, <2>1, <2>2, <2>3 DEF BuildTypes
<1>6. Entries
  BY <1>4 DEF Entries
<1>7. Pieces
  BY <1>1, <1>2, <1>4 DEF Pieces
<1>8. Listed /\ OneArray
  BY <1>1, <1>2, <1>4 DEF Listed, OneArray
<1>9. SecuredIsFresh
  BY <1>2, <1>4 DEF SecuredIsFresh, There
<1> QED BY <1>5, <1>6, <1>7, <1>8, <1>9 DEF BuildIInv

\* Every step keeps the invariant of the bases.
LEMMA BuildNextIInv ==
    BuildIInv /\ [BuildNext]_buildVars => BuildIInv'
<1> SUFFICES ASSUME BuildIInv, [BuildNext]_buildVars PROVE BuildIInv'
  OBVIOUS
<1>1. ASSUME NEW p \in Players, PlaceFoundation(p)
      PROVE  BuildIInv'
  BY <1>1, PlaceFoundationStep
<1>2. ASSUME NEW p \in Players, NEW f \in Ids, NEW k \in Sides, PlaceExpansion(p, f, k)
      PROVE  BuildIInv'
  BY <1>2, PlaceExpansionStep
<1>3. ASSUME NEW p \in Players, NEW f \in Ids, NEW place \in (Sides \cup {0}) \X Walls,
             PlaceWall(p, f, place)
      PROVE  BuildIInv'
  BY <1>3, PlaceWallStep
<1>4. ASSUME NEW f \in Ids, NEW u \in Players, EditPermission(f, u)
      PROVE  BuildIInv'
  BY <1>4, EditPermissionStep
<1>5. ASSUME NEW f \in Ids, RemoveFoundation(f)
      PROVE  BuildIInv'
  BY <1>5, RemoveFoundationStep
<1>6. CASE UNCHANGED buildVars
  <2>1. UNCHANGED <<built, expansions, lists, disturbed, followed, changes>>
    BY <1>6 DEF buildVars
  <2>2. BuildTypes'
    BY <2>1 DEF BuildIInv, BuildTypes
  <2>3. Entries' /\ Pieces' /\ Listed' /\ OneArray'
    BY <2>1, <2>2, KeptStep DEF BuildTypes
  <2>4. SecuredIsFresh'
    BY <2>1, FreshMeans DEF BuildIInv
  <2> QED BY <2>2, <2>3, <2>4 DEF BuildIInv
<1> QED BY <1>1, <1>2, <1>3, <1>4, <1>5, <1>6 DEF BuildNext

\* The type invariant, and the one list of a base, are parts of it.
LEMMA BuildImplied == BuildIInv => BuildTypeOK /\ OneListPerBase
<1> SUFFICES ASSUME BuildIInv PROVE BuildTypeOK /\ OneListPerBase
  OBVIOUS
<1>0. BuildTypes /\ Entries /\ Pieces /\ Listed /\ OneArray
  BY DEF BuildIInv
<1>1. ASSUME NEW f \in Ids
      PROVE  /\ built[f].state \in {"unplaced", "there", "removed"}
             /\ built[f].walls \subseteq Perimeter(built[f].kind)
             /\ built[f].secured \in BOOLEAN
             /\ built[f].list \in Ids \cup {Nothing}
             /\ lists[f] \subseteq Players
  <2>1. built[f] \in Piece
    BY <1>0 DEF BuildTypes
  <2>2. built[f].secured \in BOOLEAN
    BY <2>1, Zenon DEF Piece
  <2> QED BY <1>0, <2>1, <2>2 DEF BuildTypes, Piece
<1>2. ASSUME NEW f \in Ids, NEW i \in DOMAIN expansions[f]
      PROVE  LET x == expansions[f][i] IN
             /\ x.slot \in Sides /\ built[x.id].parent = f
             /\ \A j \in DOMAIN expansions[f] \ {i} : expansions[f][j].slot # x.slot
  <2>1. expansions[f][i].slot \in Sides
    BY <1>0, EntryType
  <2> QED BY <1>0, <2>1 DEF Entries
<1>3. \A e \in There : built[e].kind = "expansion" /\ built[e].parent \notin disturbed =>
          \E i \in DOMAIN expansions[built[e].parent] : expansions[built[e].parent][i].id = e
  BY <1>0 DEF Listed, There
<1>4. BuildTypeOK
  BY <1>0, <1>1, <1>2, <1>3, Zenon DEF BuildTypeOK, BuildTypes
<1>5. OneListPerBase
  BY <1>0 DEF OneListPerBase, OneArray, There
<1> QED BY <1>4, <1>5

-----------------------------------------------------------------------------
(* The theorems. *)

\* The invariant of the vehicles holds in every state.
LEMMA VehicleInvariant == Spec => []VehicleIInv
<1> QED BY VehicleInitIInv, VehicleNextIInv, PTL DEF Spec

\* Whoever has a seat is connected, has that vehicle mounted and no other seat,
\* whoever leaves, changes seats or is blown up.
THEOREM SeatsStayMounted == Spec => []SeatsAreMounted
<1>1. VehicleIInv => SeatsAreMounted
  BY Implied DEF VehicleIInv
<1> QED BY <1>1, VehicleInvariant, PTL

\* The type invariant of the vehicles: nobody is connected twice, and no
\* explosion waits for the vehicle that explodes.
THEOREM VehicleTypeCorrect == Spec => []TypeOK
<1>1. VehicleIInv => TypeOK
  BY VehicleImplied
<1> QED BY <1>1, VehicleInvariant, PTL

\* No vehicle is simulated by two clients, and its driver is the one who does
\* (vehicleManager, takeoverManagedObject), in whichever order the routine asks
\* the clients, and whoever gets in, moves over, leaves or is blown up.
THEOREM OneManagerEach == Spec => []OneManager
<1>1. VehicleIInv => OneManager
  BY VehicleImplied
<1> QED BY <1>1, VehicleInvariant, PTL

\* The invariant of the bases holds in every state.
LEMMA BuildInvariant == BuildSpec => []BuildIInv
<1> QED BY BuildInitIInv, BuildNextIInv, PTL DEF BuildSpec

\* The type invariant of the bases: an expansion stands on a foundation that
\* lists it, unless it was replaced there.
THEOREM BuildTypeCorrect == BuildSpec => []BuildTypeOK
<1>1. BuildIInv => BuildTypeOK
  BY BuildImplied
<1> QED BY <1>1, BuildInvariant, PTL

\* isSecured is what it would be if it were computed now, in whichever order
\* walls and expansions were placed (checkPerimeters, changePerimeters).
THEOREM SecuredStaysFresh == BuildSpec => []SecuredIsFresh
<1>1. BuildIInv => SecuredIsFresh
  BY DEF BuildIInv
<1> QED BY <1>1, BuildInvariant, PTL

\* After an edit a foundation and the expansions it had then hold one array of
\* permissions, whoever edits next.
THEOREM OneListStays == BuildSpec => []OneListPerBase
<1>1. BuildIInv => OneListPerBase
  BY BuildImplied
<1> QED BY <1>1, BuildInvariant, PTL

-----------------------------------------------------------------------------
(* The parts of the world together. *)

\* The inductive invariants of the three parts.
WorldIInv == VehicleIInv /\ CraftInv /\ BuildIInv

\* A step of the world is a step or a stutter of each part.
LEMMA WorldStep ==
    ASSUME [VehiclesStep \/ CraftingStep \/ ConstructionStep]_worldVars
    PROVE  [Next]_vars /\ [CraftNext]_craftVars /\ [BuildNext]_buildVars
<1>1. CASE VehiclesStep
  BY <1>1 DEF VehiclesStep
<1>2. CASE CraftingStep
  BY <1>2 DEF CraftingStep
<1>3. CASE ConstructionStep
  BY <1>3 DEF ConstructionStep
<1>4. CASE UNCHANGED worldVars
  BY <1>4 DEF worldVars
<1> QED BY <1>1, <1>2, <1>3, <1>4

\* The invariants of the parts hold together.
LEMMA WorldInvariant == WorldSpec => []WorldIInv
<1>1. WorldInit => WorldIInv
  BY VehicleInitIInv, CraftInvInit, BuildInitIInv DEF WorldInit, WorldIInv
<1>2. ASSUME WorldIInv, [VehiclesStep \/ CraftingStep \/ ConstructionStep]_worldVars
      PROVE  WorldIInv'
  BY <1>2, WorldStep, VehicleNextIInv, CraftInvNext, BuildNextIInv DEF WorldIInv
<1> QED BY <1>1, <1>2, PTL DEF WorldSpec

\* The type invariants of the three parts hold together: what one part does
\* leaves what another relies on.
THEOREM WorldTypesCorrect == WorldSpec => []TypesOK
<1>1. WorldIInv => TypesOK
  BY VehicleImplied, BuildImplied DEF WorldIInv, TypesOK, CraftInv
<1> QED BY <1>1, WorldInvariant, PTL

\* The safety of the parts is the safety of the whole; that of crafting is that
\* a plan is exact.
THEOREM WorldIsSafe ==
    WorldSpec => [](SeatsAreMounted /\ OneManager /\ PlanningExact
                      /\ SecuredIsFresh /\ OneListPerBase)
<1>1. WorldIInv => SeatsAreMounted /\ OneManager
  BY Implied, VehicleImplied DEF WorldIInv, VehicleIInv
<1>2. WorldIInv => PlanningExact
  BY ExactFromInv DEF WorldIInv, PlanningExact
<1>3. WorldIInv => SecuredIsFresh /\ OneListPerBase
  BY BuildImplied DEF WorldIInv, BuildIInv
<1> QED BY <1>1, <1>2, <1>3, WorldInvariant, PTL

\* And no step of the world makes the inventory worth more.
THEOREM WorldKeepsValue == WorldSpec => NothingFromNothing
<1>1. WorldIInv /\ [VehiclesStep \/ CraftingStep \/ ConstructionStep]_worldVars
        => [bag' # bag => Value(bag') <= Value(bag)]_bag
  BY WorldStep, NoValueAdded DEF WorldIInv
<1> QED BY <1>1, WorldInvariant, PTL DEF WorldSpec, NothingFromNothing
=============================================================================
