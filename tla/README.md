# Verification of the h1z1-server

TLA+ models of the server emulator in `src/` (Node.js, TypeScript): what its
components keep and do, TLC configurations that check small instances of them,
and proofs that TLAPS checks for every instance. Paths below are relative to
`src/src/`.

The server is a set of single-threaded processes: a **login server**, one or
more **zone servers** and the game clients. Clients speak the SOE protocol
(reliable, ordered packets over UDP) to both servers; the two servers speak a
small UDP protocol of their own (H1emu). A step of a model is therefore one
run of the event loop to completion (a handler up to its next `await`, a timer
callback, a microtask); what interleaves is handlers at their `await`s, timers,
and the datagrams of the network.

    game client  <--SOE/UDP-->  SOEServer --> LoginServer --- MongoDB
                                                  |
                                       H1emuLoginServer
                                                  | UDP (session, ping, requests)
                                       H1emuZoneServer
                                                  |
    game client  <--SOE/UDP-->  SOEServer --> GatewayServer --> ZoneServer --- MongoDB

## Inventory

| Component | State | Operations | Interacts with | What is hard | What makes it correct |
|---|---|---|---|---|---|
| **SOE input stream** (`servers/SoeServer/soeinputstream.ts`) | stored fragments by sequence number, next expected number, last acknowledged, last processed, the message under reassembly, queued microtasks | `write`, `acknowledgeInputData`, `_processData`, `processSingleData`, `processFragmentedData` | called by `SOEServer.handlePacket`; emits `ack`, `outoforder`, `appdata` | loss, repetition, reordering, regrouping; acknowledgement ahead of delivery; processing driven by microtasks; wrapped 16-bit numbers | whole messages, once, in order; nothing acknowledged is lost; nothing deliverable waits |
| **SOE session, sending half** (`soeserver.ts`, `soeoutputstream.ts`, `soeclient.ts`, `logicalPacket.ts`) | waiting, out and priority queue, resend times (`unAckData`), cache, packets sent this second, acknowledgement state | `sendAppData`, the buffering timer, `soeClientRoutine` (acks, out-of-order reports, resends, both queues), `resetPacketsSent`, handlers of `Ack`, `OutOfOrder`, `Ping` | application above, network below, input stream for what to acknowledge | a packet moves through five places; rate limit against resends; late and lost acknowledgements | a packet is cached until received, always queued or tracked, resent once at a time, received in the end |
| **SOE session table** (`soeserver.ts`) | `_clients` by address and port | creation, `SessionRequest`, `Disconnect`, `deleteClient` | gateway, zone (events) | a session replaced while the layers above know the old one; deletion from above and from below | who stays gets in; nobody is thrown out by another address |
| **UDP and health workers** (`servers/shared/workers/`) | socket | forward datagrams | SOE server | pure I/O | – |
| **Zone–login link** (`servers/H1emuServer/`) | client records with `lastPing`, session flag, retry counter, timers; `_zoneConnections` in the login server | `connect`, `SessionRequest`, `SessionReply`, `Ping`, both timers, `disconnect` | login and zone server | half-open connections, restarts, two timers out of phase, an exception in a timer | both ends agree in the end; no live connection is dropped |
| **Login server, character requests** (`servers/LoginServer/loginserver.ts`, handlers in `servers/ZoneServer2016/zoneserver.ts`) | `_pendingInternalReq` with timers, `_internalReqCount`, two databases | create, delete, login of a character; `askZone` | link, both databases, clients | handlers interleaved at `await`; late answers; one of two databases failing | the list shows what exists; replies are true; every request is replied to |
| **Login server, sessions and server list** (`loginserver.ts`, `loginclient.ts`) | the client's `serverUpdateTimer`, `servers` collection | `LoginRequest`, `Logout`, `updateServerList`, `updateServersStatus`, name validation | database, link | timers refreshed after an `await`; read–await–write | no timer for a client that left |
| **Login HTTP worker** (`LoginServer/workers/httpServer.ts`) | none | forward requests | login server | – | – |
| **Gateway** (`servers/GatewayServer/gatewayserver.ts`) | – | login, tunnel, disconnect | SOE server, zone | order of login and disconnect | every zone client has a session |
| **Zone server 2016: sessions** (`zoneserver.ts`) | `_clients`, `_characters`, ping timers | login, two queries, time-out, `deleteClient` | gateway, database | three layers with three keys; queries that answer after the client has left | a registered client is watched by its timer |
| **Zone server 2016: inventory, timed actions** | containers, loadout, items on the ground, `hudTimer` | loot, drop, equip, move, stow, eat, shred | world objects | one object in several places; an item used when the timer fires may be gone | items are neither duplicated nor lost |
| **Zone server 2016: crafting** (`classes/craftmanager.ts`) | a private copy of the inventory per request | plan, nested makings, one timer | inventory | planned on a copy, done later on the original | the plan is exact; nothing is made of nothing |
| **Zone server 2016: vehicles** (`classes/vehicle.ts`) | seats, `mountedVehicle`, `managedObjects`, engine, condition, damage timer | mount, dismount, seat change, dismissal, damage, burning, explosion | clients, explosions | two sides of a seat, two of a management; timers of destroyed vehicles | both sides agree; who burns explodes |
| **Zone server 2016: characters** (`classes/character.ts`) | resources, alive flag, healing, god mode, movement modifiers | damage, bleeding, starving, healing, death, respawn | timers | three timers against death and respawn | the living have health; the speed comes back |
| **Zone server 2016: explosives** (`classes/explosiveentity.ts`) | `_explosives`, mine timers, ignitions, blasts | place, look, ignite, explode, remove | each other, vehicles, players | several timers and blasts reach one explosive; a blast ends early when a vehicle has gone | it explodes once |
| **Zone server 2016: construction** (`classes/constructionFoundation.ts`) | foundations, expansions, walls, `isSecured`, permissions | place, edit, remove | players | a cached flag, a shared array, an expansion removed below its foundation | `isSecured` is fresh; a base has one list |
| **Zone server 2016: planting** (`classes/Planting/`) | furrows, seeds, growth timers | – (the calls are commented out) | – | – | – |
| **Zone server 2016: world objects** (`classes/worldobjectmanager.ts`) | spawned objects | spawn, despawn | inventory, vehicles | chance and positions | – |
| **Zone server 2016: commands, weather** | – | operator commands | – | – | – |
| **Zone server 2015** | an older near-copy of the 2016 server | | | | |
| **Protocols, packet schemas** (`protocols/`, `packets/`) | none | format, parse | – | – | round trips |
| **Client emulators** (`clients/`) | test clients | | SOE server | | |

`PROJECT.json` lists the same components with their status, and under
`hazards` everything that is hard to test, at its line.

## Modules

| Module | What it is |
|---|---|
| `WrappedUint16` | arithmetic of sequence numbers: `wrap`, `Mask` (`& MAX_SEQUENCE`), `FragmentIndex` (`% MAX_SEQUENCE`). `MAX_SEQUENCE` is a parameter (65535 in the program) |
| `AppStream` | a stream of messages cut into packets, what `SOEOutputStream.write` makes of the application's data |
| `OrderedDelivery` | abstract specification: acknowledge packets, hand over whole messages in order |
| `SoeInputStream` | the SOE input stream; `MCSoeInputStream` gives it small streams and, for one run, a perfect network |
| `SoeSession` | the sending half of a session with the network and the peer; `MCSoeSession` gives it small streams, `MCSoeLive` starts from a session in which one direction has finished, the other not begun |
| `H1emuLink` | the link between one zone and the login server |
| `LoginCharacters` | character requests, `askZone`, the zone's handlers, two databases; `MCLoginCharacters` gives it three requests of two users |
| `ZoneSessions` | the session table of the SOE server, the gateway's events and the zone's maps of clients and characters |
| `Survival` | the life of characters: damage, bleeding, starving, healing, death, respawn, god mode, movement modifiers |
| `Explosives` | mines and bombs that set off each other |
| `Inventory` | loadout, containers, items on the ground, timed uses |
| `Vehicles` | seats, management, engine and fuel timer, damage, burning, chains of explosions |
| `Loops` | counted loops (`Repeat`) and sums (`SumTo`), as recursive functions |
| `Crafting` | the craft manager: plan and makings |
| `Construction` | foundations, expansions, walls, `isSecured`, permissions |
| `MCZone` | `ZoneSessions`, `H1emuLink`, `Survival` and `Explosives` in one run |
| `MCWorld` | `Vehicles`, `Construction` and `Crafting` in one run |
| `ZoneProofs` | theorems about `ZoneSessions`, `H1emuLink`, `Survival` and `Explosives`, and about `MCZone` as a whole |
| `WorldProofs` | theorems about `Vehicles` and `Construction`, and about `MCWorld` as a whole |
| `NumberLemmas` | facts the proofs share: least elements, induction over a number, loops and sums, `RemoveAt` |
| other `…Proofs` | the theorems about the module of that name |

`SoeInputStream` and `SoeSession` both extend `WrappedUint16` and `AppStream`.
The parts of `MCZone` share no state, nor do those of `MCWorld`: a behaviour is
one of a single part (`part`), so that their states add up and do not
multiply. `MCZone` and `MCWorld` extend their parts, so that theorems about
a part can be cited about the whole; the parts' names are therefore distinct
(`LinkInit`, `LifeNext`, `CraftTypeOK`). Definitions named "Mutant" in a module are broken variants of the
definition after them; they are used by no specification, and each one shows
that a property of a run depends on the line it breaks (`mutants` in
`PROJECT.json`).

### SoeInputStream

`fragments`, `nextSequence`, `lastAck`, `lastProcessed`, `has_cpf`,
`cpf_totalSize` and `cpf_data` are the fields of `SOEInputStream`
(`cpf_data` is `cpf_dataWithoutHeader`, counted in packets, so that
`cpf_dataSize` and the list of processed sequences follow from it).
`microtasks` counts queued `_processData` calls, `batch` is the rest of the
datagram (a MultiPacket is handled packet by packet, synchronously),
`delivered` is the history of `appdata` events.

* `ReceiveDatagram(d)`: the event loop takes a datagram. Any sequence of sent
  packets may arrive at any time: this is loss, repetition, reordering and
  regrouping in one.
* `DropDuplicate`, `StoreOutOfOrder`, `AcceptInOrder`: the three branches of
  `write`. `AcceptInOrder` is the whole call: store, acknowledge what is
  stored behind, process.
* `RunMicrotask`: a queued `_processData`, before the next datagram.

The code's quirks are in the model: the loop bound `_fragments.size`, the
unmasked `has(lastProcessed + 1)`, the comparison `ack > _lastAck`, the head of
a message that is not deleted, `%` instead of `&` in the reassembly index.

### SoeSession

`queues` holds the three queues, the waiting timer and `unAckData`;
`sequence`, `outputAck`, `cache` the output stream; `nextAck`, `lastAck`,
`ackDue`, `outOfOrder` what the peer is to be told; `network`, `replies`,
`received`, `peerAck`, `answers`, `arrivals` the network, the peer and
histories.

* `Routine` is `soeClientRoutine`, whole and in its order: `CheckAck` and
  `CheckOutOfOrder` (if the acknowledgement is due or there are issues),
  `CheckResend` (if there are none), `CheckQueues`.
* `SendAppData`, `WaitQueueTimeout`, `ResetPacketsSent`: the application and
  two timers. `AckTimePasses`, `ResendTimePasses(p)`: a time-out is over.
  Time has no other trace, so resends may come as often as the model likes
  between two resets of the rate: an over-approximation of 0.8 s against 1 s.
* `ReceiveReply`, `ReceiveInOrder`, `ReceiveOutOfOrder`, `ReceivePing`: the
  packets of the peer. What they carry in order is an event of the input
  stream, modelled by its effect on `nextAck`.
* `Deliver`, `Lose`, `LoseReply`, `PeerAcks`, `PeerReportsOutOfOrder`:
  network and peer, modelled on `clients/soeclient.js`.

Packet 0 is special in the code (`logicalPacket.sequence` is falsy), and in
the model.

### H1emuLink

`ownEnd` (the zone's) and `loginEnd` are the two ends, `toLogin` and `toZone` the datagrams.
Time is counted in the 5 s periods of the two timers. The timers are not in
phase, so that a record of age *k* periods is between 5(*k*−1) and 5(*k*+1)
seconds old; against the limit of 12 s it may be found old from age 2 and is
from age 4. Datagrams and the database update take less than a period.
`connect()` throws when the retries are used up; the process survives
(`zoneserver.ts:5610` logs uncaught exceptions) without its ping timer.
Faults are lost datagrams, restarts of either end and a zone that stops.

### LoginCharacters

One handler call per request, cut at its `await`s: `Start…` up to the database
answers, `AskZone`, then `ReceiveReply` or `Timeout`, then `Finish…`. The zone's
handlers are `ZoneFindsCreate`/`ZoneInserts`, `ZoneAnswersExist`,
`ZoneDeletes`; `ZoneDatabaseFails` is the error path of each. Datagrams are
late, or lost: nothing makes their receivers take them. `linked` is the outcome
of `H1emuLink`, and changes freely.
Not modelled: the solo mode, failures of the login server's own database,
repeated datagrams, and the name check, which is another request.

### ZoneSessions

Three layers know a player by three keys: `table` (SOE) by address, `zone` by
session id, `characters` by character. `client` is the set of `ZoneClient2016`
objects; an object nothing refers to may be used again. A `SessionRequest`
either creates a session (`CreateSession`) or, from a known address, deletes
it and goes on with the deleted object (`ReplaceSession`), whose id the login
handler that closed over it will read later (`Renamed`). The login is
`LoginRequest`, `AdminsAnswered` (the client is registered, with its timer) and
`CharacterAnswered`; `PingTimeout` looks under the client's own id.
`Quit` stands for the three ways to say goodbye, `Vanish` for the lack of one.

### Survival and Explosives

`UpdateResources` is one callback of the 3 s timer in its order: bleeding,
limits, hunger, thirst. `Heal` is one of the healing timer, `ModifierEnds` of a
movement modifier's, `GodModeEnds` of the loading player's god mode. Health is
counted in the least damage there is, bleeding in the code's own units, in
steps of the cuts (41) and bandages (40, 120) the code makes. `factor` counts
how often the speed is multiplied at the time. A meal adds its own amounts to
each need (`Meals`); `UpdateResources` caps what was added, every 3 s.

In `Explosives`, a blast is `explosionDamage` cut at its waits: `atVehicles` are
the blasts whose vehicle loop is under way, `reached` is what the loop over the
explosives has still to come to. It waits 150 ms before each, and `Look`,
`BurnsDown`, `Shot` and `RemoveExplosive` come in between. `VehiclesDone` is the
end of the vehicle loop, with its two outcomes: the explosives are next, or
`damageVehicle` has thrown, for a vehicle that left the map in the 150 ms
(`zoneserver.ts:1403`; `Vehicles` has that throw at its source), and the blast
reaches no explosive at all. So nothing says that a blast passes over no
neighbour: the code does. Positions are the constant `Near`.

### Inventory

`heap` holds item objects, everything else references, because the code hands
the same object, or a copy with the same guid, to containers, entities and
timers. Handlers are operators from inventory to inventory, nested as the
calls are. An object nothing refers to any more is `Unused` again (`Collected`),
so that objects and guids are as many as can be in use at a time. A bag fits the
slot of its kind; the containers of worn bags are `open`. In a container `slotId`
is the position; the loadout slots that take a bag are 10 and above, and no
container of the model holds as many items, so that the two never meet
(`removeInventoryItem` would take the one for the other).

A request carries a count, a `uint32` that the handlers compare with little:
`count` is any number up to `MaxCount`, more than a stack. A request for none
or for more than there is, and five other things, are where the code is known
to lose or make items or to overfill a bag. `lapses` records which of them the
player has done, and the properties are about what happens while there is none,
or none that matters to them:

| Lapse | Request | What the code does |
|---|---|---|
| `miscount` | a count of none | a move or a drop removes nothing and places an item of none (`zonepackethandlers.ts:2029`, `zoneserver.ts:4500`); a worn bag is stowed, or dropped, as none |
| | a drop of more than there is | all of it is removed (`zoneserver.ts:4413`), nothing dropped (4503): lost |
| | a worn bag stowed with a count above one | one bag becomes a stack of so many (`zonepackethandlers.ts:2123`); equipping one of them leaves its guid worn and in a container |
| `split` | a drop of half a stack or more | half of it drops the very object that stays; more than half drops nothing |
| `overfill` | a move between bags of one loadout | the space is not checked (`zonepackethandlers.ts:2057`) |
| `full bag` | a worn bag with something in it is stowed, or any worn bag into itself | the container goes with what is in it (`zonepackethandlers.ts:2119`) |
| `own slot` | a worn bag moved to the slot it is worn in | removed as the bag worn there, then not found (`zonepackethandlers.ts:2148`): lost, with what is in it |
| `busy` | anything with the item a timer runs on, or that fills the worn bag it runs on | the timer uses an item that is gone, or a copy (`zoneserver.ts:5155`) |

`TypeOK` and `WithinBulk` hold for every count (what `TypeOK` says of items of
none is but for `miscount`); `OnePlace` leaves out `split` and `miscount`,
`Conserved` all but `overfill`; `inventory_full_bag` is about `full bag`.

### Vehicles

`mounted` and `manages` belong to the client, `seats` and `managed` to the
vehicle. `DamageVehicle` is `damageVehicle` with the explosion it may cause up
to the first wait of its loop; `blasts` are the loops that wait. Both work on
the object, which may have left the map. `WorldRoutine` runs `vehicleManager`
for every client, in the order of the list (`Rounds`), with any set of vehicles
in range of each.

### Crafting

The private copy is never written from outside, so that all `craftItem` will do
is known when the request comes: `Plan` computes it by the code's own
recursion, `Make` does one making when the timer fires. Other timed actions
take the timer away (`TimerTaken`), items go while something is made
(`ItemGoes`).

A run of the manager is a record (`Runs`) of the copy, the makings planned so
far, `craftLoopCount` and whether `craftItem` has failed; a failed run stays as
it is, as the code returns at once. `CraftItem[n]` is `craftItem` when at most
*n* calls of it can still be nested. Every call is counted, so that more than
`MaxLoops` (500 in the code, `maxCraftLoopCount`) never are, and `CraftItem[MaxLoops]` is the whole of
it. `Component` is one round of its loop over the components: enough of it
in the copy, or none to be made, or `MakeMissing` and then taken.

Items are numbered so that a thing comes after what it is made of. The 92
recipes of `data/2016/sampleData/recipes.json` have no cycle and no amount
below one, so that there is such a numbering; with a cycle `craftItem` would
end only at its limit.

`PlanningExact` compares the code with a definition that has neither order nor
copy: an item can be made if some number of makings of each item leaves none in
debt (`Feasible`). It leaves out plans that meet the limit of the calls, which
fail although there may be a way.

### Construction

`PlaceWall` recomputes `isSecured` as `checkPerimeters` does, of a foundation
from its expansions, and of an expansion into its foundation. `list` says whose
array of permissions a foundation holds, because an edit shares it by
reference. `RemoveFoundation` leaves what belongs to the removed one.

## Runs

| Run | Checks | Shows |
|---|---|---|
| `soe_input` | `TypeOK`, `DeliveredInOrder`, `AckedNotLost`, `NoStall`, `ImplementsOrderedDelivery`, `AllDelivered` | seven packets (single, 2 fragments, 3 fragments, single) in datagrams of one or two packets, over any network: delivered whole, once, in order, as `OrderedDelivery` says; all of it, with a sender that goes on |
| `soe_input_wrap_stall` | `NotExpectingProcessed` | **violated**, see findings |
| `session_safety` | `TypeOK`, `CachedUntilReceived`, `MissedIsOnItsWay`, `NoDoubleResend` | a single and a fragmented message, a packet and a ping of the peer, lossy network, lossy acknowledgements, two datagrams a second: nothing missed is forgotten, resends do not multiply |
| `session_live` | `EventuallyReceived`, `RetransmissionStops`, `EventuallyAnswered` | every packet arrives under a rate of one datagram a second, and resending ends; what the peer sends is answered, out of order and with pings that push the priority queue past its warning level |
| `session_stale_ack` | `CachedUntilReceived` | **violated** when acknowledgements overtake each other |
| `zone` | `TypesOK`, `Watched`, `ThrownOutByOwnAddress`, `StayersGetIn`; `KeptWithoutFaults`, `LinkAgreesInTheEnd`; `AliveOrDown`, `SpeedIsRestored`, `BleedersDie`; `ExplodesOnce` | sessions, link, characters, explosives |
| `zone_timeout` | `TimeoutEndsOwnSession` | **violated** |
| `characters` | `TypeOK`, `ListAgrees`, `RepliesTruthful`, `EveryRequestReplied` | three concurrent requests of two users: the databases agree as far as promised, replies are true, none is missing |
| `inventory` | `TypeOK`, `Conserved`, `OnePlace`, `WithinBulk` | four requests in any order, with any count, around a running timer: but for the lapses named above nothing is lost, made, doubled or overfilled |
| `inventory_full_bag` | `OnlyEmptyBagsClose` | **violated** |
| `world` | `TypesOK`, `SeatsAreMounted`, `OneManager`, `CriticalExplodes`; `PlanningExact`, `NothingFromNothing`; `SecuredIsFresh`, `OneListPerBase` | vehicles, crafting, construction |
| `crafting_plan_holds` | `PlanHolds` | **violated** |

### Bounds

* Sequence numbers: `MAX_SEQUENCE` 7 or 8 with shorter streams, where nothing
  wraps, and 3 where the wrap is the question. Nothing in the code depends on
  the width but the wrap itself; the proofs are for every width.
* Streams: up to seven packets, with two fragmented messages next to each
  other, so that a reassembly follows a reassembly, and a single on each side.
  `MaxBatch` 2: a microtask queued by the first packet of a datagram runs after
  the second.
* `PacketRate` 1 or 2 with more datagrams than that to send, so that the limit
  is reached; `MaxMulti` 2, so that the buffer fills; `MaxReplies` 1 or 2
  (two for reordering); `InboundLen` 3 and `MaxArrivals` 2 in `session_live`,
  one more than the warning level of the priority queue.
* Link: `MaxRetry` 4 with `MaxLinkFaults` 3 (10 in the code): as many faults as
  leave one attempt; a right to connect that may be revoked.
* Three character requests: one can create, one delete, one log in, all at once.
* `ZoneSessions`: one player, two addresses, two visits and one fault; five ids
  and objects, as many as can be in use at a time (none is ever missing:
  otherwise a visit would have to wait). The player meets itself: its earlier
  clients are the others of the code. The proofs are for any number.
* `Survival`: one character with two points of health, so that one blow may
  wound or kill; two modifiers and two pending ends, so that one overtakes
  the other; needs and the amounts of a meal up to 1 (`MaxNeed`), bleeding from
  a bandage too many (`MinBleeding`) up to the worst; one pending end of god
  mode. Explosives: a row of three, so that a blast comes back, two
  ignitions of one.
* `Inventory`: two bags to wear and a third object of the first kind, stacks of
  four, counts up to five (none, and one more than there can be), eight objects
  at a time and four requests: pick up, move, start a use, take away what it
  uses.
* `Vehicles`: two of two seats, two clients with one visit each, condition 3 of
  which 2 burns: both low bands are passed, and one blow may skip them.
  `Crafting`: five of the code's recipes' kind: a chain of three, one of two
  components, and one that needs two of a made component; two requests for up
  to two items, from up to two logs, a plank and a stick. `MaxLoops` 5: a bow of
  logs takes five calls, so that one fits exactly and the limit is met by
  others. `Construction`: three
  foundations and expansions on two sides of one wall each, two edits or
  removals.

`CHECK_DEADLOCK FALSE` where the system really stops: a perfect network that
has delivered its stream, a world whose visits, requests, items or changes are
used up by their bounds.

### Fairness

* Input stream: `WF` of the handler and its microtasks (the event loop goes
  on); `SF` of the arrival of each packet (the sender repeats it: that is what
  `SoeSession` is about).
* Session: `WF` of the routine (`setTimeout` re-arms it at the end of each run)
  and of the timers; `SF` of the delivery of a packet that is sent again and
  again; the peer acknowledges, and what it sends is delivered in
  `session_live`. An acknowledgement is sent only when it changes, so that
  after the loss of the last one nothing stops the resends: that assumption
  is needed.
* Link: the timers fire, handlers run, time passes; faults are not fair, and
  their number is bounded.
* Characters: the login server's handlers go on and time-outs expire. Nothing
  is assumed of the zone or of the network.
* Zone: queries are answered, ping timers run out, and a player who stays goes
  on with its login and opens a new session when the old one is dead; nobody
  is made to visit, leave or lose anything. The 3 s timer of a character is
  refreshed in its own callback. A burning vehicle's timer fires.

## Proofs

Each theorem is about every value of the constants that its assumptions allow.

| Module | Theorem | Says | Under |
|---|---|---|---|
| `SoeInputStreamProofs` | `TypeCorrect`, `InOrderDelivery`, `NoAcknowledgedLoss`, `NothingDeliverableWaits`, `RefinesOrderedDelivery` | `TypeOK`, `DeliveredInOrder`, `AckedNotLost`, `NoStall`, `ImplementsOrderedDelivery` | `NoWrap`: the stream is shorter than the sequence space (`soe_input_wrap_stall` shows that it is needed) |
| `SoeSessionProofs` | `Typed`, `ResentOnce`, `Cached`, `NothingForgotten` | `TypeOK`, `NoDoubleResend`, `CachedUntilReceived`, `MissedIsOnItsWay` | the last two: acknowledgements may be lost, but none overtakes another (`session_stale_ack` shows that this is needed) |
| `LoginCharactersProofs` | `TypeCorrect`, `ListsAgree`, `RepliesAreTruthful` | `TypeOK`, `ListAgrees`, `RepliesTruthful` | – |
| `ZoneProofs` | `TypeCorrect`, `RegisteredAreWatched`, `OnlyOwnAddressThrowsOut` | `TypeOK`, `Watched`, `ThrownOutByOwnAddress` | `Bounds`: the bounds are numbers |
| | `LinkTypeCorrect`, `LinkIsKept` | `LinkTypeOK`, `KeptWithoutFaults` | `LinkAssumption` |
| | `LifeTypeCorrect`, `LivingHaveHealth`, `SpeedAlwaysRestored` | `LifeTypeOK`, `AliveOrDown`, `SpeedIsRestored` | `LifeAssumption`, and snares are among the effects |
| | `BlastTypeCorrect`, `OneExplosion` | `BlastTypeOK`, `ExplodesOnce` | `BlastAssumption`: the bound is a number |
| | `ZoneTypesCorrect`, `ZoneIsSafe`, `ZoneStepsAreSafe` | `TypesOK`; `Watched`, `AliveOrDown`, `SpeedIsRestored`, `ExplodesOnce`; `ThrownOutByOwnAddress`, `KeptWithoutFaults`, of `ZoneSpec` | all of the above (`ZoneAssumption` with `PartsAssumption`) |
| `InventoryProofs` | `TypeCorrect`, `NoBagOverfull`, `EachInOnePlace`, `NothingLostOrMade` | `TypeOK`, `WithinBulk`, `OnePlace`, `Conserved` | `InventoryAssumption`: there is a slot, a full stack fits into a bag, and a shredded bag makes no more than a stack of cloth |
| `CraftingProofs` | `PlanIsExactFor`, `PlansAreExact` | the plan of one item against `Feasible`, for an inventory; `PlanIsExact` | `CraftAssumption`: components come before what is made of them, amounts are positive |
| | `CraftTypes`, `ValueNeverGrows` | `CraftTypeOK`, `NothingFromNothing` | `CraftAssumption` |
| `WorldProofs` | `VehicleTypeCorrect`, `SeatsStayMounted`, `OneManagerEach` | `TypeOK`, `SeatsAreMounted`, `OneManager` | `SeatsAndCondition` |
| | `BuildTypeCorrect`, `SecuredStaysFresh`, `OneListStays` | `BuildTypeOK`, `SecuredIsFresh`, `OneListPerBase` | `BuildAssumption` |
| | `WorldTypesCorrect`, `WorldIsSafe`, `WorldKeepsValue` | `TypesOK`; `SeatsAreMounted`, `OneManager`, `PlanningExact`, `SecuredIsFresh`, `OneListPerBase`; `NothingFromNothing`, of `WorldSpec` | all of the parts |

The assumptions named in the modules (`MaxSequenceAssumption`,
`StreamAssumption`, `MaxBatchAssumption`, `SessionAssumption`,
`HandlersAssumption`, `NoneIsNone`, `SeatsAndCondition`, `BuildAssumption`,
`InventoryAssumption`, `CraftAssumption`) are
evaluated by TLC in the runs, and so are `LinkAssumption`, `LifeAssumption` and
`BlastAssumption`, which are definitions of their modules and `PartsAssumption`
of `MCZone`.

**Input stream.** None of the properties is inductive. `IInv` adds what they
rest on: each packet is stored under its own number (`StoredOK`); all that is
acknowledged and not processed is stored, and the packet after the last
acknowledged one is not, or the acknowledgement would have run over it
(`BufferedOK`); a reassembly starts right behind the processed packets and its
copy is a proper, acknowledged prefix of that message (`ReassemblyOK`); what is
processed ends where a message ends (`HistoryOK`); and if the next message is
acknowledged as a whole, a microtask is queued. That last part is what makes
`NoStall` inductive: a run of `_processData` that leaves a complete message
behind has queued another one. The step splits into the actions;
`ProcessPreserves` handles `_processData` for both of its callers, from
`SinglePreserves` and `FragmentsPreserve`, and `AcknowledgeAdvances` the loop
of the acknowledgement. The refinement maps `acked` to `lastAck` and `next` to
`lastProcessed + 1`; a step that neither acknowledges nor delivers stutters.

**Session, sending half.** `StateInv` holds whatever the network does. Its core
is `QueueInv`, a fact about a client's queues alone: a packet is in at most one
place, which is the waiting queue, alone in a datagram of the out or the
priority queue, or tracked (`OnePlace`), and nowhere twice (`NotTwice`); no
packet is beyond the last one written (`Bounded`). A packet in a MultiPacket
counts as tracked, as `sendClientWaitQueue` has it. That is what makes
`NoDoubleResend` inductive: what becomes due leaves the tracked packets when it
enters the priority queue, and is tracked again when it leaves it. Each helper
has a lemma that it keeps `QueueInv` and forgets no packet but 0 (`Flushes`,
`SendLogicalAdds`, `SendAllAdds`, by induction on the packets of a message,
`CheckAckKeeps`, `ReportKeeps`, `SendPriorityKeeps`, `SendOutKeeps`), and the
routine is their composition (`RoutineClient`); `CheckResendKeeps` forgets only
what is no longer cached. `DeliveryInv` adds what holds when acknowledgements
keep their order: those in flight rise from the last one taken to the last one
sent (`AcksInv`), so that one that arrives passes nothing the peer misses
(`AckPasses`, by the remainders of `Mask`); all that is not behind the last one
taken is cached (`CacheInv`); all that is missed is somewhere (`WayInv`). The
induction over the packets of a message is over a number, from the least
counterexample (`UpTo`).

**Character requests.** `IInv` says of every datagram, late or not, what it is
worth: a request that is waited for asks what its handler wants
(`RequestsOK`), a positive reply that is waited for is true (`RepliesOK`), a
handler acts only on what the zone has done (`CallsOK`), and what is listed was
reported (`HistoryOK`). Request numbers are never reused because there are no
more of them than handlers past `askZone`, a fact about cardinalities.

**Zone sessions.** To `Watched` belongs that a registered client has had its
first query answered, so that a login that is still under way never takes the
timer of a registered one. `ThrownOutByOwnAddress` rests on `Owned`: two players
share neither address nor session id, and whatever was made for a player's
session, by whoever holds it now, was made for its address. A session that is
replaced keeps that, although its client goes on under another id.

**Zone–login link.** A connection is kept because a record is never old enough
to be given up: while nothing has failed (`Undisturbed`), either the first
request, its treatment or the reply is the one thing under way (`Connecting`),
or both records are at most a period old and what makes them young again in
this period is under way (`Connected`), against the 12 s limit that needs two.

**The zone and the world as a whole.** A step of one part is a stutter of the
others (`ZoneStep`, `WorldStep`), so that the conjunction of the parts'
invariants (`ZoneIInv`, `WorldIInv`) is inductive and their properties hold of
`ZoneSpec` and `WorldSpec` too.

**Vehicles.** `EachSeatMounted` is `SeatsAreMounted` seat by seat; a seat is
left on both sides at once (`Leaves`), and an explosion that empties a vehicle
takes the vehicle off the map in the same step (`VehicleGone`). For `OneManager`
(`Simulated`), a vehicle a client manages knows it, and its driver manages it;
`WorldRoutine` keeps that for each client whose turn it is, so it holds after
all turns, by the least turn after which it would not (`LeastNumber`).

**Survival and explosives.** The invariants are the properties with their
types; the work is in the helpers (`HurtProper`, `StarvedProper`,
`ClearedProper`, `ExplodeStep`), which every action goes through.

**Crafting, the plan.** The loops of `craftItem` are `Repeat`, and a fact about
what one leaves behind is a set of states for each of its rounds
(`LoopInvariant`). The recursion is one over the number *n* of calls that can
still be nested (`CraftItemIs` shows that its definition has a solution). What
each stretch of a plan does is one relation, `Progress(n, s, t, taken, low)`:
from run `s` to run `t`,

* if it succeeds, some number of makings explains the copy, with `taken` off it
  besides (`Accounts`). At the end this is a witness of `Feasible`: what the
  code says it can make can be made.
* if there is a way to get what is wanted out of the copy (`CanGet`), at least
  `low` of it, then it succeeds or meets the limit, and there is still a way to
  get the rest out of the copy it leaves. This is the converse: whatever order
  the code makes things in, it never spends what it will need. It holds because
  a component that is short has to be made by every other way too: of makings
  that leave no item in debt, at least the missing ones are of that component
  (`NetOfBoth`), and the same makings without those are a way to get the rest
  (`NetOfMore`; both are used in `CallIs`).

Stretches add up (`InARow`), so that the loop over rounds (`Missing`, with
`ToMakeIs` for what each round has left of the stack), the loop over components
(`ComponentsAre`), one call (`CallIs`) and all calls (`CraftItemCrafts`) follow
in turn. That a call for an item touches no item numbered above it is what lets
the loop take its components one after the other.

**Crafting, the inventory.** `CraftInv` adds to the types that a request still
to come has nothing to do. The worth of an item is a recursion over the
numbering of the items (`WorthIs`); the value of an inventory is a sum, changed
by what comes and goes (`ValueChanges`). A making takes its components one
after the other: after *k* of them the value has dropped by what *k* of them
are worth, or one was short and it has dropped by something (`TakenIs`); only
in the first case one item comes back, worth no more.

**Construction.** `isSecured` is computed from the slots, so that its freshness
needs to know what is in them: only expansions of that foundation, each slot
once, and nothing removed unless the foundation is `disturbed` (`Entries`,
`Pieces`), and all that is there (`Listed`). `CheckedFresh` is `checkPerimeters`
for both of its callers. One list per base is proved in the stronger form in
which the code has it: what an edit has reached holds the very array of its
foundation (`OneArray`), so that a later edit of either is one of both.

**Inventory.** Every request is a composition of a few operations
(`RemoveInventoryItem`, `LootContainerItem`, `EquipItem`, ...), so the proofs
are about these, from any inventory, and the actions only put them together.
There are three layers.

* `Sound(l, v)`: what an operation finds and leaves after the lapses `l`. `TypeOK`
  alone is not inductive: that an open container belongs to a worn bag needs
  that a worn object was made for its slot (`Fitted`), and that a removal finds
  what it is asked for needs that a container keeps its items by guid (`Keyed`),
  that containers and loadout hold copies of their own (`Apart`) and that
  nothing refers to an object that is not there (`Named`). Until a request
  miscounts, every item in use has a count and a bag is one (`Fair`); `Said` is
  that a request names a count the item has. `Step(l, v, w, taken)` says that an
  operation keeps `Sound` and takes so many new objects; steps add up
  (`StepsCompose`). `IInv` adds what a timer runs on (`Timed`): an object it
  holds a reference to stays what it was even after it is used up.
* `Within`: the bulk of a container is a sum over the objects (`SumOf`; what
  `SumChange` and `SumAtMost` say of it is `NumberLemmas`' induction over a
  number). No operation lets a container gain (`Shrinks`) except
  `AddContainerItem` and `AddToStack`, by what `HasSpace` has allowed for.
* `Unique` and `Amount`: an operation on an item is one of a few moves, which
  say where the item is and how many there are afterwards, and that nothing else
  has moved (`Departs`, `Arrives`, `Falls`, `Counts`). `Leaves` and `Enters`
  put them together; `LeavesThen` and `EntersThen` say what they do to the place
  and the amount of every item. A request takes an item and puts one like it
  (`Swapped`); `Orderly` says of each which lapses it may be and what it keeps
  if it is none of them. A use takes one and makes others (`UseTidy`, `Turns`).
  `Placed` is `OnePlace` in the form that is inductive. `Conserved` also needs
  that the timer's item is still carried when the timer fires (`Booked`): the
  code does not look whether the removal found it, and the lapse `busy` is what
  could have taken it away. `Careful` is the premise of `Conserved`. Where an
  item is in one place, `Total`, which counts an item for each place it is in,
  is `Amount` (`TotalIs`), which counts it once.

Only model-checked: liveness, which is out of the prover's reach
(`AllDelivered`, `EventuallyReceived`, `RetransmissionStops`,
`EventuallyAnswered`, `StayersGetIn`, `LinkAgreesInTheEnd`, `BleedersDie`,
`EveryRequestReplied`, `CriticalExplodes`). Every safety property that a
passing run checks is a theorem.

## Findings

Each is a run that TLC finds violated, with its counterexample.

1. `soe_input_wrap_stall` — `soeinputstream.ts:181` compares wrapped numbers
   with `>`: after 65535 the stream acknowledges nothing, expects a packet it
   has processed, and keeps the ones that follow as out of order for good.
2. `session_stale_ack` — `soeoutputstream.ts:85` moves `_lastAck` forward until
   it meets the acknowledged number: for an older one that is round the whole
   space, and the cache of packets the peer misses is emptied.
3. `zone_timeout` — the ping time-out of a client whose session was replaced
   deletes the session its peer has opened since (`soeserver.ts:476`,
   `zoneserver.ts:5543` and 1138).
4. `inventory_full_bag` — a worn bag moved into a container takes its own
   container, and what is in it, away (`zonepackethandlers.ts:2119`); the
   sibling handlers refuse it.
5. `crafting_plan_holds` — a nested making of several takes the components of
   all and puts one in the inventory (`craftmanager.ts:201`).

### What the code does otherwise

Seen while modelling, reached by the models, and no property of a run: the
repository says nothing that it contradicts, or too little.

* `soeinputstream.ts:71` indexes with `% MAX_SEQUENCE`: a fragment with number
  65535 is looked for under 0, and its message is never delivered.
* `soeinputstream.ts:98` deletes all fragments of a message but the first.
* Packet 0 is never tracked (`soeserver.ts:118`, 134, 226: `sequence` is
  falsy), so that it is not resent when lost.
* After its last attempt `connect()` sends a request and throws
  (`h1emuZoneServer.ts:93`); the answer to that request opens a session on a
  zone whose ping timer is dead.
* A refused request of a connected zone leaves its entry in `_zoneConnections`
  (`loginserver.ts:255`).
* A client that leaves while its character is loaded is put back into
  `_characters` by the completion (`zoneserver.ts:720`); one that is registered
  under a replaced session's id (`zoneserver.ts:271`) is watched by a timer that
  looks under another.
* Who mounts a full vehicle has it mounted without a seat (`zoneserver.ts:3355`);
  the passengers of a dismissed one keep it mounted; after a manager
  disconnects nobody is given the vehicle until somebody drives it; a vehicle
  that has left the map may explode again.
* The dead heal (`character.ts:99`); the timer of a loading player's god mode
  ends god mode given since (`zoneserver.ts:2109`).
* A removed expansion stays in its slot: the next door throws, a permission
  edit stops half way (`zoneserver.ts:3105`).
* Items are duplicated and lost by the requests that `Inventory` calls lapses
  (the table above).
* A blast ends before it reaches an explosive when a vehicle left the map in
  its waits (`zoneserver.ts:1403`).

## Not modelled

* Planting: its calls are inside a comment (`zonepackethandlers.ts:1534-1992`),
  so that no furrow is ever made.
* Weapons and reloading, other characters' and vehicles' containers, the damage
  of constructions, locks of doors, stamina, virus and comfort.
* `LoginRequest`, `Logout` and the server list of the login server: they send
  what the database holds and keep one timer.
* Encryption and packet layout (no state but a key stream, which is in step
  exactly if delivery is in order), the workers and the HTTP server (I/O),
  operator commands, weather, spawning (chance and positions), client emulators
  but for the acknowledging of `soeclient.js`.
* The server of 2015, an older near-copy, and the packet schemas and data
  tables. Together with the operator commands these are by far most of the
  repository's lines, so that the lines the map covers are a small share of it.

## Plan

What the project would grow by, most important first: `SoeSession` and
`SoeInputStream` end to end against `OrderedDelivery`; the firing and reloading
of weapons; the sessions and the server list of the login server. Theorems stay
in a module of their own for each component, and modules with proofs use no
recursive operators. Runs of finished components are joined where they share no
state.
