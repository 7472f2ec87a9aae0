------------------------------- MODULE MCZone -------------------------------
(***************************************************************************)
(* The players of a zone server: their sessions (ZoneSessions) and the     *)
(* life of their characters (Survival, Explosives), and its link to the    *)
(* login server (H1emuLink).  These share no state: "part" is chosen at    *)
(* the start, and the other parts stay as they are.                        *)
(***************************************************************************)
EXTENDS ZoneSessions, H1emuLink, Survival, Explosives

VARIABLE part

zoneVars == <<part, vars, linkVars, lifeVars, blastVars>>

\* food, drink, and berries; before a cut, and after one; a row of three
\* explosives
SomeMeals == {[hunger |-> 1, hydration |-> 0], [hunger |-> 0, hydration |-> 1],
              [hunger |-> 1, hydration |-> 1]}
NoCut == -40
CutLevels == {NoCut, 1}
Row == 1 .. 3
InRow == [e \in Row |-> (e - 1 .. e + 1) \cap Row]

ASSUME PartsAssumption == LinkAssumption /\ BlastAssumption /\ LifeAssumption

ZoneInit ==
    /\ part \in {"sessions", "link", "life", "blast"}
    /\ Init
    /\ LinkInit
    /\ LifeInit
    /\ BlastInit

SessionsStep ==
    part = "sessions" /\ UNCHANGED <<part, linkVars, lifeVars, blastVars>> /\ Next
Linked(A) == part = "link" /\ UNCHANGED <<part, vars, lifeVars, blastVars>> /\ A
LinkStep == Linked(LinkNext)
LifeStep == part = "life" /\ UNCHANGED <<part, vars, linkVars, blastVars>> /\ LifeNext
BlastStep == part = "blast" /\ UNCHANGED <<part, vars, linkVars, lifeVars>> /\ BlastNext

ZoneSpec ==
    /\ ZoneInit
    /\ [][SessionsStep \/ LinkStep \/ LifeStep \/ BlastStep]_zoneVars
    /\ Fairness
    /\ WF_zoneVars(Linked(LinkProgress))
    /\ LifeFairness

\* The type invariants of the four parts: besides types, what the objects of a
\* part rely on, such as that a mine that is there keeps looking, and a zone
\* connection is watched unless the zone was refused.
TypesOK == TypeOK /\ LinkTypeOK /\ LifeTypeOK /\ BlastTypeOK
\* The link: when the faults are over the two ends agree in the end.
LinkAgreesInTheEnd == part = "link" => AgreeInTheEnd
\* Survival: bleeding that nobody treats ends in death.
BleedersDie == part = "life" => BleedsToDeath
=============================================================================
