---------------------------- MODULE ZoneSessions ----------------------------
(***************************************************************************)
(* How a player enters and leaves the zone server of 2016: the SOE session *)
(* table (soeserver.ts), the gateway that turns a LoginRequest, a Logout   *)
(* or a Disconnect into events (gatewayserver.ts), and the zone's own maps *)
(* of clients by session id and of characters by character id              *)
(* (zoneserver.ts).  Three layers know a player by three different keys:   *)
(* the table by address, the zone by session id, the world by character.   *)
(* The maps are changed by datagrams, by the completions of two database   *)
(* queries and by the ping timer, in any order.                            *)
(*                                                                         *)
(* A zone client object is a slot of "client"; its fields are those of     *)
(* ZoneClient2016 that decide what happens to it.  "soe" is the session id *)
(* of the SOEClient object the login handler closed over: it is read after *)
(* the query, and a SessionRequest from the same address overwrites it.    *)
(***************************************************************************)
EXTENDS Naturals, FiniteSets

CONSTANTS
    Players,      \* each plays one character, so a player names its character
    Addresses,    \* address:port pairs a player may appear from
    Sessions,     \* session ids, drawn by the peer
    Clients,      \* zone client objects
    MaxVisits,    \* bound: visits to the server, over all players
    MaxFaults,    \* bound: lost replies and duplicated SessionRequests
    None

ASSUME NoneIsNone == None \notin Sessions \cup Clients

VARIABLES
    player,      \* player[p]: what the peer is doing, from where, under which id
    table,       \* soeServer._clients: address |-> session id of its SOEClient
    replies,     \* addresses whose SOEClient still holds a SessionReply to send
    zone,        \* zoneServer._clients: session id |-> zone client
    characters,  \* zoneServer._characters: character |-> zone client it belongs to
    client,      \* the zone client objects
    visits, faults

vars == <<player, table, replies, zone, characters, client, visits, faults>>

PlayerType == [state: {"away", "asking", "connected", "joining", "playing"},
               addr: Addresses \cup {None}, sid: Sessions \cup {None}]

ClientType == [phase: {"unused", "admins", "character", "done"},
               sid: Sessions \cup {None}, soe: Sessions \cup {None},
               addr: Addresses \cup {None}, character: Players \cup {None},
               ping: BOOLEAN, loading: BOOLEAN]

Away == [state |-> "away", addr |-> None, sid |-> None]

Unused == [phase |-> "unused", sid |-> None, soe |-> None, addr |-> None,
           character |-> None, ping |-> FALSE, loading |-> TRUE]

Init ==
    /\ player = [p \in Players |-> Away]
    /\ table = [a \in Addresses |-> None]
    /\ replies = {}
    /\ zone = [s \in Sessions |-> None]
    /\ characters = [p \in Players |-> None]
    /\ client = [o \in Clients |-> Unused]
    /\ visits = 0
    /\ faults = 0

(***************************************************************************)
(* An object nothing refers to any more may be reused by the model, and a  *)
(* session id nobody remembers may be drawn again.                         *)
(***************************************************************************)
Free(o) ==
    \/ client[o].phase = "unused"
    \/ /\ client[o].phase = "done"
       /\ ~client[o].ping
       /\ \A s \in Sessions : zone[s] # o
       /\ \A p \in Players : characters[p] # o

Fresh(s) ==
    /\ zone[s] = None
    /\ \A a \in Addresses : table[a] # s
    /\ \A p \in Players : player[p].sid # s
    /\ \A o \in Clients : ~Free(o) => client[o].sid # s /\ client[o].soe # s

\* Ids and objects are only ever compared, so which unused one is taken does
\* not matter.
NextSession == CHOOSE s \in Sessions : Fresh(s)
NextClient == CHOOSE o \in Clients : Free(o)

(***************************************************************************)
(* The SOE session table.                                                  *)
(*                                                                         *)
(* A SessionRequest from an unknown address creates a session, whose       *)
(* SessionReply the sending routine will send.  From a known one it        *)
(* deletes the session and then treats the request on the deleted object:  *)
(* the object's session id is overwritten, and its reply is queued where   *)
(* no routine looks.                                                       *)
(***************************************************************************)
Renamed(c, a, s) ==
    IF c.phase = "admins" /\ c.addr = a /\ c.soe = table[a]
    THEN [c EXCEPT !.soe = s] ELSE c

CreateSession(a, s) ==
    /\ table[a] = None
    /\ table' = [table EXCEPT ![a] = s]
    /\ replies' = replies \cup {a}
    /\ UNCHANGED client

\* Mutant: a request from a known address is ignored.
KnownIgnored(a, s) ==
    /\ table[a] # None
    /\ s \in Sessions
    /\ UNCHANGED <<table, replies, client>>

ReplaceSession(a, s) ==
    /\ table[a] # None
    /\ table' = [table EXCEPT ![a] = None]
    /\ replies' = replies \ {a}
    /\ client' = [o \in Clients |-> Renamed(client[o], a, s)]

OnSessionRequest(a, s) == CreateSession(a, s) \/ ReplaceSession(a, s)

(***************************************************************************)
(* deleteClient of the zone server.  The object removes what stands under  *)
(* its own keys, whoever put it there; its ping timer goes on.             *)
(***************************************************************************)
\* Mutant: the client stays registered under its session id.
DeleteKeepsZone(o) ==
    /\ characters' = [characters EXCEPT ![client[o].character] = None]
    /\ zone' = zone
    /\ table' = [table EXCEPT ![client[o].addr] = None]
    /\ replies' = replies \ {client[o].addr}

\* Mutant: the session to close is looked up through the character.
DeleteByCharacter(o) ==
    /\ characters' = [characters EXCEPT ![client[o].character] = None]
    /\ zone' = [zone EXCEPT ![client[o].sid] = None]
    /\ table' = [a \in Addresses |->
                   IF \E other \in Clients : /\ characters[client[o].character] = other
                                            /\ client[other].addr = a
                   THEN None ELSE table[a]]
    /\ replies' = {a \in replies : table'[a] # None}

DeleteClient(o) ==
    /\ characters' = [characters EXCEPT ![client[o].character] = None]
    /\ zone' = [zone EXCEPT ![client[o].sid] = None]
    /\ table' = [table EXCEPT ![client[o].addr] = None]
    /\ replies' = replies \ {client[o].addr}

(***************************************************************************)
(* The peers.                                                              *)
(***************************************************************************)
Taken(a, p) == \E q \in Players \ {p} : player[q].addr = a

Visit(p, a) ==
    /\ player[p].state = "away"
    /\ visits < MaxVisits
    /\ ~Taken(a, p)
    /\ \E s \in Sessions : Fresh(s)
    /\ player' = [player EXCEPT ![p] =
                    [state |-> "asking", addr |-> a, sid |-> NextSession]]
    /\ visits' = visits + 1
    /\ OnSessionRequest(a, NextSession)
    /\ UNCHANGED <<zone, characters, faults>>

\* A peer repeats its request only when no reply is on its way: it waits for
\* seconds, the sending routine runs every few milliseconds.
Retry(p) ==
    /\ player[p].state = "asking"
    /\ player[p].addr \notin replies
    /\ OnSessionRequest(player[p].addr, player[p].sid)
    /\ UNCHANGED <<player, zone, characters, visits, faults>>

Answer(p) ==
    /\ player[p].state = "asking"
    /\ player[p].addr \in replies
    /\ replies' = replies \ {player[p].addr}
    /\ player' = [player EXCEPT ![p].state = "connected"]
    /\ UNCHANGED <<table, zone, characters, client, visits, faults>>

LoseReply(a) ==
    /\ a \in replies
    /\ faults < MaxFaults
    /\ faults' = faults + 1
    /\ replies' = replies \ {a}
    /\ UNCHANGED <<player, table, zone, characters, client, visits>>

Served(p) ==
    /\ player[p].state # "away"
    /\ table[player[p].addr] = player[p].sid

\* The network delivers a second copy of the request after it was answered.
DuplicateRequest(p) ==
    /\ player[p].state \in {"connected", "joining", "playing"}
    /\ Served(p)
    /\ faults < MaxFaults
    /\ faults' = faults + 1
    /\ OnSessionRequest(player[p].addr, player[p].sid)
    /\ UNCHANGED <<player, zone, characters, visits>>

Known(p) ==
    \/ zone[player[p].sid] # None
    \/ \E o \in Clients : client[o].phase = "admins" /\ client[o].soe = player[p].sid

\* The peer hears nothing more on its session and opens another one.
GiveUp(p) ==
    /\ \/ player[p].state \in {"connected", "joining", "playing"} /\ ~Served(p)
       \/ player[p].state \in {"joining", "playing"} /\ ~Known(p)
    /\ \E s \in Sessions : Fresh(s)
    /\ player' = [player EXCEPT ![p].state = "asking", ![p].sid = NextSession]
    /\ OnSessionRequest(player[p].addr, NextSession)
    /\ UNCHANGED <<zone, characters, visits, faults>>

\* The peer is gone without a word: a crash, or a Disconnect that is lost.
Vanish(p) ==
    /\ player[p].state # "away"
    /\ player' = [player EXCEPT ![p] = Away]
    /\ replies' = replies \ {player[p].addr}
    /\ UNCHANGED <<table, zone, characters, client, visits, faults>>

\* Disconnect of the SOE layer, Logout of the gateway and ClientLogout of the
\* zone all delete the client registered under the session id, if there is one.
Quit(p) ==
    /\ player[p].state \in {"connected", "joining", "playing"}
    /\ Served(p)
    /\ player' = [player EXCEPT ![p] = Away]
    /\ LET o == zone[player[p].sid] IN
       \/ /\ o = None
          /\ UNCHANGED <<table, replies, zone, characters, client>>
       \/ /\ o # None
          /\ DeleteClient(o)
          /\ client' = [client EXCEPT ![o].loading = TRUE]
    /\ UNCHANGED <<visits, faults>>

(***************************************************************************)
(* The gateway's login and the zone's two queries.                         *)
(***************************************************************************)
LoginRequest(p) ==
    /\ player[p].state = "connected"
    /\ Served(p)
    /\ \E o \in Clients : Free(o)
    /\ client' = [client EXCEPT ![NextClient] =
         [phase |-> "admins", sid |-> player[p].sid, soe |-> player[p].sid,
          addr |-> player[p].addr, character |-> p, ping |-> FALSE, loading |-> TRUE]]
    /\ player' = [player EXCEPT ![p].state = "joining"]
    /\ UNCHANGED <<table, replies, zone, characters, visits, faults>>

\* The admins query is answered: the client is registered, whether or not its
\* peer is still there, and the character query is sent.
AdminsAnswered(o) ==
    /\ client[o].phase = "admins"
    /\ zone' = [zone EXCEPT ![client[o].soe] = o]
    /\ characters' = [characters EXCEPT ![client[o].character] = o]
    /\ client' = [client EXCEPT ![o].phase = "character", ![o].ping = TRUE]
    /\ UNCHANGED <<player, table, replies, visits, faults>>

\* The character query is answered: the character is shown to the others.
CharacterAnswered(o) ==
    /\ client[o].phase = "character"
    /\ characters' = [characters EXCEPT ![client[o].character] = o]
    /\ client' = [client EXCEPT ![o].phase = "done"]
    /\ UNCHANGED <<player, table, replies, zone, visits, faults>>

\* ClientFinishedLoading, sent by the peer once it was shown its character.
FinishLoading(p) ==
    /\ player[p].state = "joining"
    /\ Served(p)
    /\ LET o == zone[player[p].sid] IN
       /\ o # None
       /\ client[o].phase = "done"
       /\ client' = [client EXCEPT ![o].loading = FALSE, ![o].ping = TRUE]
    /\ player' = [player EXCEPT ![p].state = "playing"]
    /\ UNCHANGED <<table, replies, zone, characters, visits, faults>>

\* Any other packet restarts the ping timer, which matters when it had run out.
Data(p) ==
    /\ player[p].state = "playing"
    /\ Served(p)
    /\ LET o == zone[player[p].sid] IN
       /\ o # None
       /\ ~client[o].ping
       /\ client' = [client EXCEPT ![o].ping = TRUE]
    /\ UNCHANGED <<player, table, replies, zone, characters, visits, faults>>

\* Nobody sends to this object: what reaches the zone restarts another timer.
Silent(o) == ~\E p \in Players : Served(p) /\ zone[player[p].sid] = o

\* The ping timer runs out after two minutes without a packet: by then the
\* character query, sent when it was started, has long been answered.
PingTimeout(o) ==
    /\ client[o].ping
    /\ client[o].phase = "done"
    /\ Silent(o)
    /\ \/ /\ zone[client[o].sid] # None
          /\ DeleteClient(o)
          /\ client' = [client EXCEPT ![o].ping = FALSE, ![o].loading = TRUE]
       \/ /\ zone[client[o].sid] = None
          /\ client' = [client EXCEPT ![o].ping = FALSE]
          /\ UNCHANGED <<table, replies, zone, characters>>
    /\ UNCHANGED <<player, visits, faults>>

Peer(p) ==
    \/ \E a \in Addresses : Visit(p, a)
    \/ DuplicateRequest(p)
    \/ Vanish(p)
    \/ Quit(p)

Server(o) == AdminsAnswered(o) \/ CharacterAnswered(o) \/ PingTimeout(o)

Progress(p) ==
    \/ Retry(p)
    \/ Answer(p)
    \/ GiveUp(p)
    \/ LoginRequest(p)
    \/ FinishLoading(p)
    \/ Data(p)

Next ==
    \/ \E p \in Players : Peer(p) \/ Progress(p)
    \/ \E o \in Clients : Server(o)
    \/ \E a \in Addresses : LoseReply(a)

Spec == Init /\ [][Next]_vars

(***************************************************************************)
(* Queries are answered, timers run out, and a peer that is not gone goes  *)
(* on with its login and opens a new session when the old one is dead.     *)
(* Nobody is made to visit, to leave or to lose a packet.                  *)
(***************************************************************************)
Fairness ==
    /\ \A o \in Clients : WF_vars(Server(o))
    /\ \A p \in Players : WF_vars(Progress(p))

FairSpec == Spec /\ Fairness

\* The type invariant.  Every map holds keys and objects of its own layer,
\* although each handler finds them through the keys of another.
TypeOK ==
    /\ player \in [Players -> PlayerType]
    /\ table \in [Addresses -> Sessions \cup {None}]
    /\ replies \subseteq Addresses
    /\ zone \in [Sessions -> Clients \cup {None}]
    /\ characters \in [Players -> Clients \cup {None}]
    /\ client \in [Clients -> ClientType]
    /\ visits \in 0..MaxVisits
    /\ faults \in 0..MaxFaults

\* A client registered under its own session id has a running ping timer, so
\* that none is kept for a peer that is gone.
Watched ==
    \A s \in Sessions : \A o \in Clients :
        zone[s] = o /\ client[o].sid = s => client[o].ping

In(p) ==
    /\ player[p].state = "playing"
    /\ Served(p)
    /\ zone[player[p].sid] # None

\* A client whose own session is over stands at the address of this player.
Predecessor(p, o) ==
    /\ client[o].ping
    /\ client[o].addr = player[p].addr
    /\ Silent(o)

\* A player in the game is thrown out only by a duplicated SessionRequest or by
\* the timer of an earlier client of its own address.
ThrownOutByOwnAddress ==
    [][\A p \in Players :
          In(p) /\ player'[p] = player[p] /\ ~In(p)'
              => \/ faults' # faults
                 \/ \E o \in Clients : Predecessor(p, o) /\ ~client'[o].ping]_vars

\* The ping timeout of a client ends its own session, not the one the peer has
\* opened since.
TimeoutEndsOwnSession ==
    [][\A o \in Clients, a \in Addresses :
          client[o].ping /\ ~client'[o].ping /\ table'[a] # table[a]
              => table[a] = client[o].sid]_vars

\* A player who does not leave ends up in the game, unless earlier clients of
\* its address keep timing out.
StayersGetIn ==
    \A p \in Players :
        \/ []<>(\E o \in Clients : Predecessor(p, o))
        \/ <>[](player[p].state = "away" \/ In(p))
=============================================================================
