------------------------------ MODULE Survival ------------------------------
(***************************************************************************)
(* The life of the characters on the 2016 zone server                      *)
(* (classes/character.ts, zoneserver.ts): damage from the others and from  *)
(* the world, bleeding, hunger and thirst, healing, death and respawn, the *)
(* god mode a loading client has for 15 seconds, and the modifiers of a    *)
(* character's speed.                                                      *)
(*                                                                         *)
(* Everything that lasts is a Node timer: the updater of the resources     *)
(* (every 3 s), the healing (every second), the end of god mode, the end   *)
(* of a modifier.  They fire in any order among the packets.               *)
(*                                                                         *)
(* Health is counted in hundreds, the damage of one bleeding tick; what is *)
(* below that is ignored by playerDamage.  Bleeding keeps its scale.       *)
(* Stamina, virus and comfort hurt nobody and are left out.                *)
(***************************************************************************)
EXTENDS Integers, Functions

CONSTANTS
    Fighters,   \* clients, each with its character
    Effects,    \* "snared", "swizzle": kinds of movement modifiers
    Whole,      \* health of a healthy character (100)
    Plenty,     \* hunger and hydration when sated
    Meals,      \* what one item adds to hunger and to hydration
    MaxNeed,    \* bound: needs above which a character neither eats nor drinks
    SnareDamage, \* (20)
    HealCount,  \* ticks a bandage adds to the healing (9, 29 or 99)
    MaxHealing, \* bound: bandages are used while healingMaxTicks is below,
    MinBleeding, \* and bleeding is no less than this
    Cuttable,   \* bound: values of bleeding at which there are more cuts
    MaxGod,     \* bound: pending ends of god mode
    MaxModified \* bound: pending ends of a client's modifiers

VARIABLES
    phase,      \* client |-> "connecting", "ready", "playing", "gone"
    character,  \* client |-> isAlive, knockedOut and the resources
    healing,    \* client |-> healingInterval is armed, healingTicks, healingMaxTicks
    god,        \* client |-> godMode, tempGodMode, its pending timers
    speed,      \* client |-> modifier |-> in "timeouts", pending timers, times multiplied
    ticking     \* client |-> resourcesUpdater is armed

lifeVars == <<phase, character, healing, god, speed, ticking>>

Needs == {"hunger", "hydration"}

Sound == [isAlive |-> TRUE, knockedOut |-> FALSE, health |-> Whole, bleeding |-> -40,
          needs |-> [n \in Needs |-> Plenty]]

LifeInit ==
    /\ phase = [c \in Fighters |-> "connecting"]
    /\ character = [c \in Fighters |-> Sound]
    /\ healing = [c \in Fighters |-> [armed |-> FALSE, ticks |-> 0, max |-> 0]]
    /\ god = [c \in Fighters |-> [mode |-> FALSE, temp |-> FALSE, timers |-> 0]]
    /\ speed = [c \in Fighters |-> [e \in Effects |-> [active |-> FALSE, timers |-> 0, factor |-> 0]]]
    /\ ticking = [c \in Fighters |-> FALSE]

There(c) == phase[c] # "gone"
Playing(c) == phase[c] \in {"ready", "playing"}
Least(a, b) == IF a < b THEN a ELSE b
Most(a, b) == IF a < b THEN b ELSE a

-----------------------------------------------------------------------------
(* playerDamage and killCharacter *)

\* Mutant: a blow that leaves nothing does not kill.
HurtToTheEnd(ch, n) == [ch EXCEPT !.health = Most(0, @ - n)]

Hurt(ch, n) ==
    IF ~ch.isAlive THEN ch
    ELSE IF ch.health > n THEN [ch EXCEPT !.health = @ - n]
    ELSE [ch EXCEPT !.health = 0, !.isAlive = FALSE, !.knockedOut = TRUE]

HurtUnlessGod(c, ch, n) == IF god[c].mode THEN ch ELSE Hurt(ch, n)

\* Mutant: the modifiers are forgotten, and the client keeps its speed.
ClearedSilently(modified) == [e \in Effects |-> [modified[e] EXCEPT !.active = FALSE]]

\* clearMovementModifiers runs what the timers would do; the timers stay
Cleared(modified) ==
    [e \in Effects |->
        IF modified[e].active THEN [modified[e] EXCEPT !.active = FALSE, !.factor = @ - 1]
        ELSE modified[e]]

\* the character becomes ch, and loses its modifiers if that kills it
Becomes(c, ch) ==
    /\ character' = [character EXCEPT ![c] = ch]
    /\ speed' = IF character[c].isAlive /\ ~ch.isAlive
                THEN [speed EXCEPT ![c] = Cleared(@)] ELSE speed

\* A fall, a bullet, an explosion or a punji stick; the last three may cause
\* bleeding.
Damage(c, n, bleeding) ==
    LET ch == character[c]
        cut == IF god[c].mode \/ ~ch.isAlive THEN ch
               ELSE [ch EXCEPT !.bleeding = @ + bleeding] IN
    /\ There(c)
    /\ bleeding > 0 => ch.bleeding \in Cuttable
    /\ Becomes(c, HurtUnlessGod(c, cut, n))
    /\ UNCHANGED <<phase, healing, god, ticking>>

\* /respawn and the suicide command, from a dead character too
Kill(c) ==
    /\ Playing(c)
    /\ character' = [character EXCEPT ![c].isAlive = FALSE,
                                      ![c].knockedOut = @ \/ character[c].isAlive]
    /\ speed' = [speed EXCEPT ![c] = Cleared(@)]
    /\ UNCHANGED <<phase, healing, god, ticking>>

\* nothing asks whether the character is dead
Respawn(c) ==
    /\ Playing(c)
    /\ character' = [character EXCEPT ![c] = Sound]
    /\ healing' = [healing EXCEPT ![c] = [@ EXCEPT !.ticks = 0, !.max = 0]]
    /\ ticking' = [ticking EXCEPT ![c] = TRUE]
    /\ UNCHANGED <<phase, god, speed>>

-----------------------------------------------------------------------------
(* The timers of a character. *)

\* Mutant: Math.floor
BleedingTickFloor(ch) == ch.bleeding \div 40

\* Math.ceil(bleeding / 40)
BleedingTick(ch) == (ch.bleeding + 39) \div 40

\* one of hunger and hydration goes down, from no more than Plenty, and a
\* character that has none is hurt
Starved(c, ch, need) ==
    IF ch.needs[need] > 0 THEN [ch EXCEPT !.needs[need] = Least(Plenty, @ - 1)]
    ELSE HurtUnlessGod(c, ch, 1)

UpdateResources(c) ==
    LET ch == character[c]
        bled == IF ch.bleeding > 0 THEN HurtUnlessGod(c, ch, BleedingTick(ch)) ELSE ch
        limited == [bled EXCEPT !.bleeding = Most(-40, Least(80, @))]
        after == Starved(c, Starved(c, limited, "hunger"), "hydration") IN
    /\ ticking[c]
    /\ Becomes(c, after)
    /\ UNCHANGED <<phase, healing, god, ticking>>

\* every second, until there were as many ticks as bandages allow
Healed(h) ==
    IF h.ticks < h.max THEN [h EXCEPT !.ticks = h.ticks + 1]
    ELSE [armed |-> FALSE, ticks |-> 0, max |-> 0]

\* the dead heal too
Heal(c) ==
    /\ healing[c].armed
    /\ IF There(c)
       THEN /\ character' = [character EXCEPT ![c].health = Least(Whole, @ + 1)]
            /\ healing' = [healing EXCEPT ![c] = Healed(@)]
       ELSE healing' = [healing EXCEPT ![c].armed = FALSE] /\ UNCHANGED character
    /\ UNCHANGED <<phase, god, speed, ticking>>

Bandaged(h) == [h EXCEPT !.max = h.max + HealCount, !.armed = TRUE]

\* A bandage (40) or a med kit (120), when its hud timer ends: death does not
\* stop it, and nothing asks whether there is bleeding to stop.
UseMedical(c, stops) ==
    /\ Playing(c)
    /\ healing[c].max < MaxHealing /\ character[c].bleeding >= MinBleeding
    /\ character' = [character EXCEPT ![c].bleeding = @ - stops]
    /\ healing' = [healing EXCEPT ![c] = Bandaged(@)]
    /\ UNCHANGED <<phase, god, speed, ticking>>

\* eatItemPass, drinkItemPass: each need by its own amount; the updater limits
\* what is too much
Eat(c, meal) ==
    /\ Playing(c)
    /\ \A n \in Needs : character[c].needs[n] <= MaxNeed
    /\ character' = [character EXCEPT ![c].needs = [n \in Needs |-> @[n] + meal[n]]]
    /\ UNCHANGED <<phase, healing, god, speed, ticking>>

-----------------------------------------------------------------------------
(* Movement modifiers. *)
PendingEnds(c) == FoldFunctionOnSet(LAMBDA m, n : m.timers + n, 0, speed[c], Effects)

Modified(m) ==
    [active |-> TRUE, timers |-> m.timers + 1,
     factor |-> IF m.active THEN m.factor ELSE m.factor + 1]

\* swizzle
Sniff(c, e) ==
    /\ Playing(c) /\ e # "snared"
    /\ PendingEnds(c) < MaxModified
    /\ speed' = [speed EXCEPT ![c][e] = Modified(@)]
    /\ UNCHANGED <<phase, character, healing, god, ticking>>

\* A snare hurts and cuts whoever steps on it, dead or god; it is the one who
\* placed it that is slowed.
Snare(victim, placer) ==
    LET ch == HurtUnlessGod(victim, character[victim], SnareDamage) IN
    /\ There(victim) /\ character[victim].bleeding \in Cuttable
    /\ PendingEnds(placer) < MaxModified
    /\ character' = [character EXCEPT ![victim] = [ch EXCEPT !.bleeding = @ + 41]]
    /\ LET killed == IF character[victim].isAlive /\ ~ch.isAlive
                     THEN [speed EXCEPT ![victim] = Cleared(@)] ELSE speed
       IN  speed' = [killed EXCEPT ![placer]["snared"] = Modified(@)]
    /\ UNCHANGED <<phase, healing, god, ticking>>

\* A timer that was overtaken by a death or by another modifier of its kind ends
\* the one that is there, or nothing.
ModifierEnds(c, e) ==
    /\ speed[c][e].timers > 0
    /\ speed' = [speed EXCEPT ![c][e] =
          [active |-> FALSE, timers |-> @.timers - 1,
           factor |-> IF @.active THEN @.factor - 1 ELSE @.factor]]
    /\ UNCHANGED <<phase, character, healing, god, ticking>>

-----------------------------------------------------------------------------
(* Loading and god mode. *)
ClientIsReady(c) ==
    /\ phase[c] = "connecting"
    /\ phase' = [phase EXCEPT ![c] = "ready"]
    /\ god' = [god EXCEPT ![c].mode = TRUE]
    /\ ticking' = [ticking EXCEPT ![c] = TRUE]
    /\ UNCHANGED <<character, healing, speed>>

TempGodMode(g) ==
    IF g.mode THEN g ELSE [g EXCEPT !.mode = TRUE, !.temp = TRUE, !.timers = @ + 1]

\* after the first loading, and after each teleport or respawn
LoadingFinished(c) ==
    /\ Playing(c) /\ god[c].timers < MaxGod
    /\ phase' = [phase EXCEPT ![c] = "playing"]
    /\ god' = [god EXCEPT ![c] =
          IF phase[c] = "ready" THEN [TempGodMode(@) EXCEPT !.mode = FALSE]
          ELSE TempGodMode(@)]
    /\ UNCHANGED <<character, healing, speed, ticking>>

GodModeEnds(c) ==
    /\ god[c].timers > 0
    /\ god' = [god EXCEPT ![c] =
          [mode |-> FALSE, temp |-> FALSE, timers |-> @.timers - 1]]
    /\ UNCHANGED <<phase, character, healing, speed, ticking>>

\* a position or weapon packet ends a temporary god mode
MoveOrShoot(c) ==
    /\ Playing(c) /\ god[c].temp
    /\ god' = [god EXCEPT ![c].mode = FALSE, ![c].temp = FALSE]
    /\ UNCHANGED <<phase, character, healing, speed, ticking>>

AdminGod(c) ==
    /\ Playing(c)
    /\ god' = [god EXCEPT ![c].mode = ~@]
    /\ UNCHANGED <<phase, character, healing, speed, ticking>>

ClientDeleted(c) ==
    /\ There(c)
    /\ phase' = [phase EXCEPT ![c] = "gone"]
    /\ ticking' = [ticking EXCEPT ![c] = FALSE]
    /\ UNCHANGED <<character, healing, god, speed>>

LifeNext ==
    \E c \in Fighters :
        \/ \E n \in 1 .. Whole, b \in {0, 41} : Damage(c, n, b)
        \/ Kill(c) \/ Respawn(c)
        \/ UpdateResources(c) \/ Heal(c)
        \/ \E stops \in {40, 120} : UseMedical(c, stops)
        \/ \E meal \in Meals : Eat(c, meal)
        \/ \E e \in Effects : Sniff(c, e) \/ ModifierEnds(c, e)
        \/ \E placer \in Fighters : Snare(c, placer)
        \/ ClientIsReady(c) \/ LoadingFinished(c) \/ GodModeEnds(c)
        \/ MoveOrShoot(c) \/ AdminGod(c) \/ ClientDeleted(c)

\* The timer of the resources is refreshed in its callback, and fires again.
LifeFairness == \A c \in Fighters : WF_lifeVars(UpdateResources(c))

LifeSpec == LifeInit /\ [][LifeNext]_lifeVars /\ LifeFairness

-----------------------------------------------------------------------------
\* What is assumed of the constants: numbers, and one blow can kill.
LifeAssumption ==
    /\ Whole \in Nat \ {0} /\ {Plenty, SnareDamage, HealCount, MaxGod} \subseteq Nat
    /\ Meals \subseteq [Needs -> Nat]
    /\ Cuttable \subseteq Int

CharacterType ==
    [isAlive : BOOLEAN, knockedOut : BOOLEAN, health : 0 .. Whole,
     bleeding : Int, needs : [Needs -> Nat]]

\* The type invariant.
LifeTypeOK ==
    /\ phase \in [Fighters -> {"connecting", "ready", "playing", "gone"}]
    /\ character \in [Fighters -> CharacterType]
    /\ healing \in [Fighters -> [armed : BOOLEAN, ticks : Nat, max : Nat]]
    /\ \A c \in Fighters : healing[c].ticks <= healing[c].max
    /\ god \in [Fighters -> [mode : BOOLEAN, temp : BOOLEAN, timers : 0 .. MaxGod]]
    /\ speed \in [Fighters -> [Effects -> [active : BOOLEAN, timers : Nat, factor : Int]]]
    /\ ticking \in [Fighters -> BOOLEAN]

\* A living character has health left and is not shown as knocked out, and a
\* dead one is, whatever hurt it, healed it or woke it in between.
AliveOrDown ==
    \A c \in Fighters :
        /\ character[c].isAlive => character[c].health > 0
        /\ character[c].isAlive <=> ~character[c].knockedOut

\* The speed of a client is multiplied once for each modifier it has, and not
\* for the others, although deaths and new modifiers overtake the timers; and
\* each modifier has a timer that will end it.
SpeedIsRestored ==
    \A c \in Fighters, e \in Effects :
        LET m == speed[c][e] IN
        /\ m.factor = IF m.active THEN 1 ELSE 0
        /\ m.active => m.timers > 0

\* A bleeding character that nobody treats dies of it: it stops bleeding, dies,
\* is treated, is in god mode, or leaves.
BleedsToDeath ==
    \A c \in Fighters :
        phase[c] = "playing" /\ character[c].bleeding > 0 ~>
            \/ character[c].bleeding <= 0 \/ ~character[c].isAlive
            \/ healing[c].armed \/ god[c].mode \/ ~There(c)
=============================================================================
