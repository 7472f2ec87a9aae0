---------------------------- MODULE Construction ----------------------------
(***************************************************************************)
(* Bases on the 2016 zone server (placement in zoneserver.ts,              *)
(* classes/constructionFoundation.ts): foundations, the expansions in      *)
(* their slots, the walls and doors on their perimeters, whether a base is *)
(* closed all round (isSecured), and who may build there.                  *)
(*                                                                         *)
(* isSecured is computed when a wall is placed and kept; a foundation asks *)
(* its expansions, and an expansion tells its foundation.  The permissions *)
(* are an array that an edit hands on to the expansions by reference, so   *)
(* that afterwards they are one list: "list" says whose array a foundation *)
(* holds.  Of the four rights, "build" is kept here: the others are edited *)
(* in the same way ("visit" is only read when a player walks in, the other *)
(* two never).                                                             *)
(*                                                                         *)
(* A wall is placed within reach of its foundation, so that build rights   *)
(* there are needed; a free foundation is placed away from the others.     *)
(***************************************************************************)
EXTENDS Naturals, SequencesExt, FiniteSetsExt

CONSTANTS
    Players,
    Ids,        \* foundations and expansions, numbered as they are placed
    Sides,      \* of a foundation; a slot for an expansion on each (4)
    Walls,      \* that close a side (3), or an expansion (5)
    MaxChanges, \* bound: edits and removals
    Nothing

ASSUME BuildAssumption ==
    /\ Ids \subseteq Nat /\ Nothing \notin Ids
    /\ Sides # {} /\ Walls # {}
    /\ MaxChanges \in Nat

VARIABLES
    built,      \* _constructionFoundations
    expansions, \* foundation |-> its expansions, in the order of their slots' first use
    lists,      \* the arrays of permissions: players with the right to build
    disturbed,  \* history: foundations with an expansion removed or replaced
    followed,   \* history: expansions a foundation had when it was edited
    changes     \* history: edits and removals so far

buildVars == <<built, expansions, lists, disturbed, followed, changes>>

Perimeter(kind) == (IF kind = "foundation" THEN Sides ELSE {0}) \X Walls

Unplaced == [state |-> "unplaced", kind |-> "foundation", owner |-> Nothing,
             parent |-> Nothing, walls |-> {}, secured |-> FALSE, list |-> Nothing]

BuildInit ==
    /\ built = [f \in Ids |-> Unplaced]
    /\ expansions = [f \in Ids |-> <<>>]
    /\ lists = [f \in Ids |-> {}]
    /\ disturbed = {}
    /\ followed = {}
    /\ changes = 0

There == {f \in Ids : built[f].state = "there"}
Foundations == {f \in There : built[f].kind = "foundation"}

MayBuild(p, f) == p \in lists[built[f].list]

-----------------------------------------------------------------------------
(* checkPerimeters *)

\* the expansions that were removed: looking one up makes checkPerimeters and
\* an edit throw
Dangling(f) == {i \in DOMAIN expansions[f] : expansions[f][i].id \notin There}

SideClosed(b, f, k) ==
    \/ \E i \in DOMAIN expansions[f] :
          expansions[f][i].slot = k /\ b[expansions[f][i].id].secured
    \/ {k} \X Walls \subseteq b[f].walls

FoundationChecked(b, f) ==
    IF f \notin There \/ Dangling(f) # {} THEN b
    ELSE [b EXCEPT ![f].secured = \A k \in Sides : SideClosed(b, f, k)]

\* Mutant: an expansion keeps to itself that it is closed.
CheckedAlone(b, f) ==
    IF b[f].kind = "foundation" THEN FoundationChecked(b, f)
    ELSE [b EXCEPT ![f].secured = b[f].walls = Perimeter("expansion")]

Checked(b, f) ==
    IF b[f].kind = "foundation" THEN FoundationChecked(b, f)
    ELSE FoundationChecked([b EXCEPT ![f].secured = b[f].walls = Perimeter("expansion")],
                           b[f].parent)

-----------------------------------------------------------------------------
(* placement: what a player puts down.                                     *)
Placed(p, kind, parent, f) ==
    [Unplaced EXCEPT !.state = "there", !.kind = kind, !.owner = p,
                     !.parent = parent, !.list = f]

Unused == {f \in Ids : built[f].state = "unplaced"}

PlaceFoundation(p) ==
    /\ Unused # {}
    /\ built' = [built EXCEPT ![Min(Unused)] = Placed(p, "foundation", Nothing, Min(Unused))]
    /\ lists' = [lists EXCEPT ![Min(Unused)] = {p}]
    /\ UNCHANGED <<expansions, disturbed, followed, changes>>

\* Mutant: a slot that is taken is entered again.
EnteredTwice(f, entry) == Append(expansions[f], entry)

Entered(f, entry) ==
    LET taken == {i \in DOMAIN expansions[f] : expansions[f][i].slot = entry.slot}
    IN  IF taken = {} THEN Append(expansions[f], entry)
        ELSE [expansions[f] EXCEPT ![Min(taken)] = entry]

\* An expansion starts with a list of its own, with only its owner in it.  The
\* slot may be taken (two players place at a time): then it is overwritten.
\* isSecured is not computed again.
PlaceExpansion(p, f, k) ==
    LET e == Min(Unused) IN
    /\ Unused # {} /\ f \in Foundations /\ MayBuild(p, f)
    /\ built' = [built EXCEPT ![e] = Placed(p, "expansion", f, e)]
    /\ lists' = [lists EXCEPT ![e] = {p}]
    /\ expansions' = [expansions EXCEPT ![f] = Entered(f, [slot |-> k, id |-> e])]
    /\ disturbed' = disturbed \cup
          {g \in {f} : \E i \in DOMAIN expansions[f] : expansions[f][i].slot = k}
    /\ UNCHANGED <<followed, changes>>

\* a wall or a door: changePerimeters
PlaceWall(p, f, place) ==
    /\ f \in There /\ MayBuild(p, f)
    /\ place \in Perimeter(built[f].kind)
    /\ built' = Checked([built EXCEPT ![f].walls = @ \cup {place}], f)
    /\ UNCHANGED <<expansions, lists, disturbed, followed, changes>>

-----------------------------------------------------------------------------
(* Permissions. *)

\* The expansions the edit gets to: all, or those before a removed one.
Reached(f) ==
    LET upto == IF Dangling(f) = {} THEN Len(expansions[f]) ELSE Min(Dangling(f)) - 1
    IN  {expansions[f][i].id : i \in 1 .. upto}

\* Mutant: the expansions get a copy of the list.
ShareCopies(f, list) ==
    /\ lists' = [g \in Ids |->
          IF g = built[f].list \/ g \in {built[e].list : e \in Reached(f)} THEN list
          ELSE lists[g]]
    /\ UNCHANGED built

\* the edited list, and whose it is from now on
Share(f, list) ==
    /\ lists' = [lists EXCEPT ![built[f].list] = list]
    /\ built' = [g \in Ids |->
          IF g \in Reached(f) THEN [built[g] EXCEPT !.list = built[f].list] ELSE built[g]]

Change == changes < MaxChanges /\ changes' = changes + 1

\* EditPermission and AddPermission do the same: the owner turns the right to
\* build of a player on or off
EditPermission(f, q) ==
    LET list == lists[built[f].list] IN
    /\ f \in There /\ Change
    /\ Share(f, IF q \in list THEN list \ {q} ELSE list \cup {q})
    /\ followed' = followed \cup {expansions[f][i].id : i \in DOMAIN expansions[f]}
    /\ UNCHANGED <<expansions, disturbed>>

\* An administrator's remover takes a foundation or an expansion, and nothing
\* that belongs to it.
RemoveFoundation(f) ==
    /\ f \in There /\ Change
    /\ built' = [built EXCEPT ![f].state = "removed"]
    /\ disturbed' = disturbed \cup (IF built[f].kind = "expansion" THEN {built[f].parent} ELSE {})
    /\ UNCHANGED <<expansions, lists, followed>>

BuildNext ==
    \/ \E p \in Players :
          \/ PlaceFoundation(p)
          \/ \E f \in Ids, k \in Sides : PlaceExpansion(p, f, k)
          \/ \E f \in Ids, place \in (Sides \cup {0}) \X Walls : PlaceWall(p, f, place)
    \/ \E f \in Ids, q \in Players : EditPermission(f, q)
    \/ \E f \in Ids : RemoveFoundation(f)

BuildSpec == BuildInit /\ [][BuildNext]_buildVars

-----------------------------------------------------------------------------
\* The type invariant.  An expansion stands on a foundation that lists it,
\* unless it was replaced there.
BuildTypeOK ==
    /\ \A f \in Ids :
          /\ built[f].state \in {"unplaced", "there", "removed"}
          /\ built[f].walls \subseteq Perimeter(built[f].kind)
          /\ built[f].secured \in BOOLEAN
          /\ built[f].list \in Ids \cup {Nothing}
          /\ lists[f] \subseteq Players
          /\ \A i \in DOMAIN expansions[f] :
                LET x == expansions[f][i] IN
                /\ x.slot \in Sides /\ built[x.id].parent = f
                /\ \A j \in DOMAIN expansions[f] \ {i} : expansions[f][j].slot # x.slot
    /\ changes \in 0 .. MaxChanges
    /\ \A e \in There : built[e].kind = "expansion" /\ built[e].parent \notin disturbed =>
          \E i \in DOMAIN expansions[built[e].parent] : expansions[built[e].parent][i].id = e

\* isSecured, which is kept since the last wall was placed, is what it would be
\* if it were computed now: the wall that closes an expansion closes the side
\* of the foundation too, in whichever order the walls of the two are placed.
\* (A foundation that lost an expansion stays as secured as it was.)
SecuredIsFresh ==
    \A f \in There \ disturbed :
        built[f].secured <=>
            IF built[f].kind = "expansion" THEN built[f].walls = Perimeter("expansion")
            ELSE \A k \in Sides : SideClosed(built, f, k)

\* After an edit a foundation and the expansions it had then have one list, and
\* keep it, whoever of their owners edits next.
OneListPerBase ==
    \A e \in followed \cap There :
        LET f == built[e].parent IN
        f \in There \ disturbed => lists[built[e].list] = lists[built[f].list]
=============================================================================
