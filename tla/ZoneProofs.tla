------------------------------ MODULE ZoneProofs ------------------------------
(***************************************************************************)
(* Proofs about the parts of the zone server and about the server they are *)
(* parts of: the sessions, for any number of players, addresses, sessions  *)
(* and client objects; the link to the login server, the lives of the      *)
(* players and the explosives, for every bound, whatever order the timers  *)
(* and packets come in, and any arrangement of explosives.                 *)
(***************************************************************************)
EXTENDS MCZone, TLAPS

-----------------------------------------------------------------------------
(* The sessions. *)

\* A registered client has had its first query answered.
Registered ==
    \A s \in Sessions : \A o \in Clients :
        zone[s] = o => client[o].phase \in {"character", "done"}

\* A player who is there has an address and a session id.
Placed ==
    \A p \in Players : player[p].state # "away" =>
        player[p].addr \in Addresses /\ player[p].sid \in Sessions

\* The bounds are numbers.
Bounds == MaxVisits \in Nat /\ MaxFaults \in Nat

IInv == TypeOK /\ Placed /\ Registered /\ Watched

-----------------------------------------------------------------------------
\* The session id and the object that are drawn are unused ones.
LEMMA Drawn ==
    /\ (\E s \in Sessions : Fresh(s)) => NextSession \in Sessions /\ Fresh(NextSession)
    /\ (\E o \in Clients : Free(o)) => NextClient \in Clients /\ Free(NextClient)
  BY DEF NextSession, NextClient

\* A renamed object keeps everything but the id its handler will read.
LEMMA RenamedType ==
    ASSUME NEW c \in ClientType, NEW a \in Addresses, NEW s \in Sessions
    PROVE  /\ Renamed(c, a, s) \in ClientType
           /\ Renamed(c, a, s).phase = c.phase
           /\ Renamed(c, a, s).sid = c.sid
           /\ Renamed(c, a, s).ping = c.ping
  BY DEF Renamed, ClientType

\* A SessionRequest touches the table, and of the objects only these ids.
LEMMA SessionRequestKeeps ==
    ASSUME TypeOK, NEW a \in Addresses, NEW s \in Sessions, OnSessionRequest(a, s)
    PROVE  /\ table' \in [Addresses -> Sessions \cup {None}]
           /\ replies' \subseteq Addresses
           /\ client' \in [Clients -> ClientType]
           /\ \A o \in Clients : /\ client'[o].phase = client[o].phase
                                 /\ client'[o].sid = client[o].sid
                                 /\ client'[o].ping = client[o].ping
<1>1. CASE CreateSession(a, s)
  BY <1>1 DEF CreateSession, TypeOK
<1>2. CASE ReplaceSession(a, s)
  <2>1. client' = [o \in Clients |-> Renamed(client[o], a, s)]
    BY <1>2 DEF ReplaceSession
  <2>2. \A o \in Clients : client[o] \in ClientType
    BY DEF TypeOK
  <2>3. \A o \in Clients : /\ client'[o] \in ClientType
                           /\ client'[o].phase = client[o].phase
                           /\ client'[o].sid = client[o].sid
                           /\ client'[o].ping = client[o].ping
    BY <2>1, <2>2, RenamedType
  <2> QED BY <1>2, <2>1, <2>3 DEF ReplaceSession, TypeOK
<1> QED BY <1>1, <1>2 DEF OnSessionRequest

\* The changes the handlers make to an object keep its type.
LEMMA UpdatedType ==
    ASSUME TypeOK, NEW o \in Clients,
           NEW c, client' = [client EXCEPT ![o] = c],
           \/ c = [client[o] EXCEPT !.loading = TRUE]
           \/ c = [client[o] EXCEPT !.ping = FALSE]
           \/ c = [client[o] EXCEPT !.ping = TRUE]
           \/ c = [client[o] EXCEPT !.ping = FALSE, !.loading = TRUE]
           \/ c = [client[o] EXCEPT !.loading = FALSE, !.ping = TRUE]
           \/ c = [client[o] EXCEPT !.phase = "character", !.ping = TRUE]
    PROVE  client' \in [Clients -> ClientType]
<1>1. client[o] \in ClientType
  BY DEF TypeOK
<1>2. /\ [client[o] EXCEPT !.loading = TRUE] \in ClientType
      /\ [client[o] EXCEPT !.ping = FALSE] \in ClientType
      /\ [client[o] EXCEPT !.ping = TRUE] \in ClientType
  BY <1>1, Zenon DEF ClientType
<1>3. [client[o] EXCEPT !.ping = FALSE, !.loading = TRUE] \in ClientType
  BY <1>1, Zenon DEF ClientType
<1>4. [client[o] EXCEPT !.loading = FALSE, !.ping = TRUE] \in ClientType
  BY <1>1, Zenon DEF ClientType
<1>5. [client[o] EXCEPT !.phase = "character", !.ping = TRUE] \in ClientType
  BY <1>1, Zenon DEF ClientType
<1>6. c \in ClientType
  BY <1>2, <1>3, <1>4, <1>5
<1> QED BY <1>6 DEF TypeOK

\* Deleting a client empties the places its object names.
LEMMA DeleteKeeps ==
    ASSUME TypeOK, NEW o \in Clients, DeleteClient(o)
    PROVE  /\ table' \in [Addresses -> Sessions \cup {None}]
           /\ replies' \subseteq Addresses
           /\ zone' \in [Sessions -> Clients \cup {None}]
           /\ characters' \in [Players -> Clients \cup {None}]
           /\ \A s \in Sessions :
                zone'[s] = IF s = client[o].sid THEN None ELSE zone[s]
  BY DEF DeleteClient, TypeOK

\* What does not touch the maps and keeps the ids, the phases and the timers of
\* the objects keeps the invariant.
LEMMA SameRegistration ==
    ASSUME IInv, TypeOK', Placed', zone' = zone,
           \A o \in Clients : /\ client'[o].phase = client[o].phase
                              /\ client'[o].sid = client[o].sid
                              /\ client[o].ping => client'[o].ping
    PROVE  IInv'
  BY DEF IInv, Registered, Watched

-----------------------------------------------------------------------------
\* At first nobody is registered.
LEMMA InitIInv == ASSUME Bounds PROVE Init => IInv
  BY NoneIsNone DEF Bounds, Init, IInv, TypeOK, Placed, Registered, Watched, Away, Unused, PlayerType, ClientType

\* The peers and the table.
LEMMA PeerStep ==
    ASSUME Bounds, IInv, NEW p \in Players, Peer(p)
    PROVE  IInv'
<1> USE DEF Bounds, PlayerType
<1>1. ASSUME NEW a \in Addresses, Visit(p, a) PROVE IInv'
  <2>1. NextSession \in Sessions
    BY <1>1, Drawn DEF Visit
  <2>2. TypeOK' /\ Placed'
    BY <1>1, <2>1, SessionRequestKeeps DEF Visit, IInv, TypeOK, Placed
  <2> QED BY <1>1, <2>1, <2>2, SessionRequestKeeps, SameRegistration DEF Visit, IInv
<1>2. CASE DuplicateRequest(p)
  <2>1. player[p].addr \in Addresses /\ player[p].sid \in Sessions
    BY <1>2 DEF DuplicateRequest, Served, IInv, Placed
  <2>2. TypeOK' /\ Placed'
    BY <1>2, <2>1, SessionRequestKeeps DEF DuplicateRequest, IInv, TypeOK, Placed
  <2> QED BY <1>2, <2>1, <2>2, SessionRequestKeeps, SameRegistration DEF DuplicateRequest, IInv
<1>3. CASE Vanish(p)
  <2>1. TypeOK' /\ Placed'
    BY <1>3 DEF Vanish, IInv, TypeOK, Placed, Away
  <2> QED BY <1>3, <2>1, SameRegistration DEF Vanish
<1>4. CASE Quit(p)
  <2> DEFINE o == zone[player[p].sid]
  <2>0. player' = [player EXCEPT ![p] = Away] /\ UNCHANGED <<visits, faults>>
    BY <1>4 DEF Quit
  <2>1. Placed'
    BY <2>0 DEF IInv, TypeOK, Placed, Away
  <2>2. CASE o = None
    <3>1. UNCHANGED <<table, replies, zone, characters, client>>
      BY <1>4, <2>2 DEF Quit
    <3>2. TypeOK'
      BY <2>0, <3>1 DEF IInv, TypeOK, Away
    <3> QED BY <2>1, <3>1, <3>2, SameRegistration
  <2>3. CASE o # None
    <3>1. o \in Clients
      BY <1>4, <2>3 DEF Quit, Placed, IInv, TypeOK
    <3>2. DeleteClient(o) /\ client' = [client EXCEPT ![o].loading = TRUE]
      BY <1>4, <2>3 DEF Quit
    <3> HIDE DEF o
    <3>3. client' \in [Clients -> ClientType]
      BY <3>1, <3>2, UpdatedType DEF IInv
    <3>4. TypeOK'
      BY <2>0, <3>1, <3>2, <3>3, DeleteKeeps DEF IInv, TypeOK, Away
    <3>5. Registered' /\ Watched'
      BY <3>1, <3>2, DeleteKeeps, NoneIsNone DEF IInv, TypeOK, ClientType, Registered, Watched
    <3> QED BY <2>1, <3>4, <3>5 DEF IInv
  <2> QED BY <2>2, <2>3
<1> QED BY <1>1, <1>2, <1>3, <1>4 DEF Peer

\* A peer goes on.
LEMMA ProgressStep ==
    ASSUME Bounds, IInv, NEW p \in Players, Progress(p)
    PROVE  IInv'
<1> USE DEF Bounds, PlayerType
<1>0. player[p].state # "away" => player[p].addr \in Addresses /\ player[p].sid \in Sessions
  BY DEF IInv, Placed
<1>1. CASE Retry(p)
  <2>1. TypeOK' /\ Placed'
    BY <1>0, <1>1, SessionRequestKeeps DEF Retry, IInv, TypeOK, Placed
  <2> QED BY <1>0, <1>1, <2>1, SessionRequestKeeps, SameRegistration DEF Retry, IInv
<1>2. CASE Answer(p)
  <2>1. TypeOK' /\ Placed'
    BY <1>2 DEF Answer, IInv, TypeOK, Placed
  <2> QED BY <1>2, <2>1, SameRegistration DEF Answer
<1>3. CASE GiveUp(p)
  <2>1. NextSession \in Sessions
    BY <1>3, Drawn DEF GiveUp
  <2>2. player' \in [Players -> PlayerType]
    <3>1. player[p] \in PlayerType
      BY DEF IInv, TypeOK
    <3>2. [player[p] EXCEPT !.state = "asking", !.sid = NextSession] \in PlayerType
      BY <2>1, <3>1
    <3> QED BY <1>3, <3>2 DEF GiveUp, IInv, TypeOK
  <2>3. TypeOK'
    BY <1>0, <1>3, <2>1, <2>2, SessionRequestKeeps DEF GiveUp, IInv, TypeOK
  <2>4. Placed'
    BY <1>0, <1>3, <2>1 DEF GiveUp, IInv, TypeOK, Placed
  <2> QED BY <1>0, <1>3, <2>1, <2>3, <2>4, SessionRequestKeeps, SameRegistration DEF GiveUp, IInv
<1>4. CASE LoginRequest(p)
  <2> DEFINE o == NextClient
  <2>1. o \in Clients /\ Free(o)
    BY <1>4, Drawn DEF LoginRequest
  <2>2. \A s \in Sessions : zone[s] # o
    BY <2>1 DEF Free, IInv, Registered
  <2>3. UNCHANGED <<table, replies, zone, characters, visits, faults>>
    BY <1>4 DEF LoginRequest
  <2> HIDE DEF o
  <2>4. /\ player' = [player EXCEPT ![p].state = "joining"]
        /\ client' = [client EXCEPT ![o] =
              [phase |-> "admins", sid |-> player[p].sid, soe |-> player[p].sid,
               addr |-> player[p].addr, character |-> p, ping |-> FALSE, loading |-> TRUE]]
    BY <1>4 DEF LoginRequest, o
  <2>5. TypeOK' /\ Placed'
    <3>1. player[p].state = "connected"
      BY <1>4 DEF LoginRequest
    <3>2. client' \in [Clients -> ClientType]
      BY <1>0, <2>1, <2>4, <3>1 DEF IInv, TypeOK, ClientType
    <3>3. player' \in [Players -> PlayerType]
      BY <2>4 DEF IInv, TypeOK
    <3> QED BY <1>0, <2>3, <2>4, <3>1, <3>2, <3>3 DEF IInv, TypeOK, Placed
  <2>6. Registered' /\ Watched'
    BY <2>1, <2>2, <2>3, <2>4 DEF IInv, TypeOK, Registered, Watched
  <2> QED BY <2>5, <2>6 DEF IInv
<1>5. CASE FinishLoading(p)
  <2> DEFINE o == zone[player[p].sid]
  <2>1. o \in Clients
    BY <1>0, <1>5 DEF FinishLoading, IInv, TypeOK
  <2>2. /\ client' = [client EXCEPT ![o].loading = FALSE, ![o].ping = TRUE]
        /\ player' = [player EXCEPT ![p].state = "playing"]
        /\ player[p].state = "joining"
        /\ UNCHANGED <<table, replies, zone, characters, visits, faults>>
    BY <1>5 DEF FinishLoading
  <2> HIDE DEF o
  <2>3. client' \in [Clients -> ClientType]
    <3> DEFINE c == [client[o] EXCEPT !.loading = FALSE, !.ping = TRUE]
    <3>1. client' = [client EXCEPT ![o] = c]
      BY <2>1, <2>2
    <3>2. c = [client[o] EXCEPT !.loading = FALSE, !.ping = TRUE]
      OBVIOUS
    <3> HIDE DEF c
    <3> QED BY <2>1, <3>1, <3>2, UpdatedType DEF IInv
  <2>4. player' \in [Players -> PlayerType] /\ Placed'
    BY <2>2 DEF IInv, TypeOK, Placed
  <2>5. TypeOK'
    BY <2>2, <2>3, <2>4 DEF IInv, TypeOK
  <2> QED BY <2>1, <2>2, <2>4, <2>5, SameRegistration DEF IInv, TypeOK, ClientType
<1>6. CASE Data(p)
  <2> DEFINE o == zone[player[p].sid]
  <2>1. o \in Clients
    BY <1>0, <1>6 DEF Data, IInv, TypeOK
  <2>2. /\ client' = [client EXCEPT ![o].ping = TRUE]
        /\ UNCHANGED <<player, table, replies, zone, characters, visits, faults>>
    BY <1>6 DEF Data
  <2> HIDE DEF o
  <2>3. TypeOK' /\ Placed'
    BY <2>1, <2>2, ZenonT(40) DEF IInv, TypeOK, Placed, ClientType
  <2> QED BY <2>1, <2>2, <2>3, SameRegistration DEF IInv, TypeOK, ClientType
<1> QED BY <1>1, <1>2, <1>3, <1>4, <1>5, <1>6 DEF Progress

\* The queries and the timer of an object.
LEMMA ServerStep ==
    ASSUME Bounds, IInv, NEW o \in Clients, Server(o)
    PROVE  IInv'
<1>1. CASE AdminsAnswered(o)
  <2>0. client' \in [Clients -> ClientType]
    <3> DEFINE c == [client[o] EXCEPT !.phase = "character", !.ping = TRUE]
    <3>1. client' = [client EXCEPT ![o] = c]
      BY <1>1 DEF AdminsAnswered
    <3>2. c = [client[o] EXCEPT !.phase = "character", !.ping = TRUE]
      OBVIOUS
    <3> HIDE DEF c
    <3> QED BY <3>1, <3>2, UpdatedType DEF IInv
  <2>1. TypeOK' /\ Placed'
    BY <1>1, <2>0 DEF AdminsAnswered, IInv, TypeOK, Placed
  <2>2. Registered' /\ Watched'
    BY <1>1 DEF AdminsAnswered, IInv, TypeOK, ClientType, Registered, Watched
  <2> QED BY <2>1, <2>2 DEF IInv
<1>2. CASE CharacterAnswered(o)
  <2>1. TypeOK' /\ Placed'
    BY <1>2, ZenonT(40) DEF CharacterAnswered, IInv, TypeOK, Placed, ClientType
  <2>2. Registered' /\ Watched'
    BY <1>2 DEF CharacterAnswered, IInv, TypeOK, ClientType, Registered, Watched
  <2> QED BY <2>1, <2>2 DEF IInv
<1>3. CASE PingTimeout(o)
  <2>1. UNCHANGED <<player, visits, faults>> /\ client[o].phase = "done"
    BY <1>3 DEF PingTimeout
  <2>2. Placed'
    BY <2>1 DEF IInv, Placed
  <2>3. CASE /\ DeleteClient(o)
             /\ client' = [client EXCEPT ![o].ping = FALSE, ![o].loading = TRUE]
    <3>0. client' \in [Clients -> ClientType]
      BY <2>3, UpdatedType, ZenonT(40) DEF IInv
    <3>1. TypeOK'
      BY <2>1, <2>3, <3>0, DeleteKeeps DEF IInv, TypeOK
    <3>a. \A s \in Sessions : zone'[s] = IF s = client[o].sid THEN None ELSE zone[s]
      BY <2>3, DeleteKeeps DEF IInv
    <3>b. \A other \in Clients :
            /\ client'[other].phase = client[other].phase
            /\ client'[other].sid = client[other].sid
            /\ other # o => client'[other].ping = client[other].ping
      BY <2>3 DEF IInv, TypeOK, ClientType
    <3>2. Registered' /\ Watched'
      BY <3>a, <3>b, NoneIsNone DEF IInv, Registered, Watched
    <3> QED BY <2>2, <3>1, <3>2 DEF IInv
  <2>4. CASE /\ zone[client[o].sid] = None
             /\ client' = [client EXCEPT ![o].ping = FALSE]
             /\ UNCHANGED <<table, replies, zone, characters>>
    <3>0. client' \in [Clients -> ClientType]
      BY <2>4, UpdatedType DEF IInv
    <3>1. TypeOK'
      BY <2>1, <2>4, <3>0 DEF IInv, TypeOK
    <3>2. Registered' /\ Watched'
      BY <2>4, NoneIsNone DEF IInv, TypeOK, ClientType, Registered, Watched
    <3> QED BY <2>2, <3>1, <3>2 DEF IInv
  <2> QED BY <1>3, <2>3, <2>4 DEF PingTimeout
<1> QED BY <1>1, <1>2, <1>3 DEF Server

\* Every step keeps the invariant.
LEMMA NextIInv == ASSUME Bounds PROVE IInv /\ [Next]_vars => IInv'
<1> SUFFICES ASSUME IInv, [Next]_vars PROVE IInv'
  OBVIOUS
<1>1. ASSUME NEW a \in Addresses, LoseReply(a) PROVE IInv'
  <2>1. TypeOK' /\ Placed'
    BY <1>1 DEF LoseReply, IInv, TypeOK, Placed, Bounds
  <2> QED BY <1>1, <2>1, SameRegistration DEF LoseReply
<1>2. CASE UNCHANGED vars
  BY <1>2 DEF vars, IInv, TypeOK, Placed, Registered, Watched
<1> QED BY <1>1, <1>2, PeerStep, ProgressStep, ServerStep DEF Next

-----------------------------------------------------------------------------
(* Whose session is whose. *)

Present(p) == player[p].state # "away"

\* No two players share an address or a session id.
OwnAddress ==
    \A p, q \in Players : p # q /\ Present(p) /\ Present(q) =>
        player[p].addr # player[q].addr /\ player[p].sid # player[q].sid

\* What was made for a player's session, by whoever holds it now, was made for
\* its address.
OwnClients ==
    \A p \in Players, o \in Clients : Present(p) =>
        /\ ~Free(o) /\ player[p].sid \in {client[o].sid, client[o].soe}
              => client[o].addr = player[p].addr
        /\ zone[player[p].sid] = o => client[o].addr = player[p].addr

Owned == OwnAddress /\ OwnClients

\* Nobody gets a session or an address, and no object changes hands.
LEMMA NobodyNew ==
    ASSUME Owned,
           \A p \in Players : Present(p)' =>
              Present(p) /\ player'[p].addr = player[p].addr /\ player'[p].sid = player[p].sid,
           \A o \in Clients : /\ Free(o) => Free(o)'
                              /\ client'[o].addr = client[o].addr
                              /\ client'[o].sid = client[o].sid
                              /\ client'[o].soe = client[o].soe,
           \A p \in Players : Present(p) =>
              zone'[player[p].sid] \in {zone[player[p].sid], None}
    PROVE  Owned'
<1>1. OwnAddress'
  BY DEF Owned, OwnAddress
<1>2. ASSUME NEW p \in Players, NEW o \in Clients, Present(p)'
      PROVE  /\ ~Free(o)' /\ player'[p].sid \in {client'[o].sid, client'[o].soe}
                   => client'[o].addr = player'[p].addr
             /\ zone'[player'[p].sid] = o => client'[o].addr = player'[p].addr
  BY <1>2, NoneIsNone DEF Owned, OwnClients
<1> QED BY <1>1, <1>2 DEF Owned, OwnClients

\* A SessionRequest with a new session id, or with the one the player has.
LEMMA RequestKeepsOwned ==
    ASSUME IInv, Owned, NEW q \in Players, NEW a \in Addresses, NEW s \in Sessions,
           OnSessionRequest(a, s), UNCHANGED <<zone, characters>>,
           Present(q)', player'[q].addr = a, player'[q].sid = s,
           \A p \in Players \ {q} : player'[p] = player[p],
           \A p \in Players \ {q} : Present(p) => player[p].addr # a,
           Fresh(s) \/ (Present(q) /\ player'[q] = player[q])
    PROVE  Owned'
<1>1. ASSUME NEW p \in Players \ {q}, Present(p)
      PROVE  player[p].sid # s /\ player[p].addr # a
  BY <1>1 DEF Fresh, Owned, OwnAddress
<1>2. OwnAddress'
  BY <1>1 DEF Owned, OwnAddress, Present
<1>3. ASSUME NEW o \in Clients
      PROVE  /\ client'[o].phase = client[o].phase /\ client'[o].ping = client[o].ping
             /\ client'[o].sid = client[o].sid /\ client'[o].addr = client[o].addr
             /\ \/ client'[o].soe = client[o].soe
                \/ client'[o].soe = s /\ client[o].addr = a
  <2>1. client[o] \in ClientType
    BY DEF IInv, TypeOK, ClientType
  <2>2. CASE CreateSession(a, s)
    BY <2>2 DEF CreateSession
  <2>3. CASE ReplaceSession(a, s)
    <3>1. client'[o] = Renamed(client[o], a, s)
      BY <2>3 DEF ReplaceSession
    <3>2. CASE client[o].phase = "admins" /\ client[o].addr = a /\ client[o].soe = table[a]
      <4>1. client'[o] = [client[o] EXCEPT !.soe = s]
        BY <3>1, <3>2 DEF Renamed
      <4>2. /\ client'[o].phase = client[o].phase /\ client'[o].ping = client[o].ping
            /\ client'[o].sid = client[o].sid /\ client'[o].addr = client[o].addr
            /\ client'[o].soe = s
        BY <2>1, <4>1 DEF ClientType
      <4> QED BY <3>2, <4>2
    <3>3. CASE ~(client[o].phase = "admins" /\ client[o].addr = a /\ client[o].soe = table[a])
      BY <3>1, <3>3 DEF Renamed
    <3> QED BY <3>2, <3>3
  <2> QED BY <2>2, <2>3 DEF OnSessionRequest
<1>4. \A o \in Clients : Free(o)' <=> Free(o)
  BY <1>3 DEF Free
<1>5. ASSUME NEW p \in Players, NEW o \in Clients, Present(p)'
      PROVE  /\ ~Free(o)' /\ player'[p].sid \in {client'[o].sid, client'[o].soe}
                   => client'[o].addr = player'[p].addr
             /\ zone'[player'[p].sid] = o => client'[o].addr = player'[p].addr
  <2>1. CASE p # q
    <3>1. Present(p) /\ player'[p] = player[p] /\ player[p].sid # s
      BY <1>1, <1>5, <2>1 DEF Present
    <3> QED BY <1>3, <1>4, <3>1 DEF Owned, OwnClients
  <2>2. CASE p = q /\ Fresh(s)
    BY <1>3, <1>4, <2>2, NoneIsNone DEF Fresh
  <2>3. CASE p = q /\ Present(q) /\ player'[q] = player[q]
    BY <1>3, <1>4, <2>3 DEF Owned, OwnClients
  <2> QED BY <2>1, <2>2, <2>3
<1> QED BY <1>2, <1>5 DEF Owned, OwnClients

\* The peers keep it.
LEMMA PeerKeepsOwned ==
    ASSUME IInv, Owned, NEW p \in Players, Peer(p)
    PROVE  Owned'
<1>0. /\ player \in [Players -> PlayerType]
      /\ client \in [Clients -> ClientType]
      /\ Present(p) => player[p].addr \in Addresses /\ player[p].sid \in Sessions
  BY DEF IInv, TypeOK, Placed, Present
<1>1. ASSUME NEW a \in Addresses, Visit(p, a) PROVE Owned'
  <2>1. NextSession \in Sessions /\ Fresh(NextSession)
    BY <1>1, Drawn DEF Visit
  <2>2. /\ player'[p].state = "asking" /\ player'[p].addr = a /\ player'[p].sid = NextSession
        /\ \A r \in Players \ {p} : player'[r] = player[r]
    BY <1>0, <1>1 DEF Visit
  <2>3. \A r \in Players \ {p} : player[r].addr # a
    BY <1>1 DEF Visit, Taken
  <2>4. OnSessionRequest(a, NextSession) /\ UNCHANGED <<zone, characters>>
    BY <1>1 DEF Visit
  <2>5. Present(p)'
    BY <2>2 DEF Present
  <2> QED BY <2>1, <2>2, <2>3, <2>4, <2>5, RequestKeepsOwned
<1>2. CASE DuplicateRequest(p)
  <2>1. Present(p) /\ player[p].addr \in Addresses /\ player[p].sid \in Sessions
    BY <1>0, <1>2 DEF DuplicateRequest, Served, Present
  <2>2. /\ OnSessionRequest(player[p].addr, player[p].sid)
        /\ UNCHANGED <<player, zone, characters>>
    BY <1>2 DEF DuplicateRequest
  <2>3. \A r \in Players \ {p} : Present(r) => player[r].addr # player[p].addr
    BY <2>1 DEF Owned, OwnAddress
  <2>4. /\ Present(p)' /\ player'[p] = player[p]
        /\ player'[p].addr = player[p].addr /\ player'[p].sid = player[p].sid
        /\ \A r \in Players \ {p} : player'[r] = player[r]
    BY <2>1, <2>2 DEF Present
  <2> DEFINE a == player[p].addr
             s == player[p].sid
  <2>5. /\ a \in Addresses /\ s \in Sessions /\ OnSessionRequest(a, s)
        /\ player'[p].addr = a /\ player'[p].sid = s
        /\ \A r \in Players \ {p} : Present(r) => player[r].addr # a
    BY <2>1, <2>2, <2>3, <2>4
  <2> HIDE DEF a, s
  <2> QED BY <2>1, <2>2, <2>4, <2>5, RequestKeepsOwned
<1>3. CASE Vanish(p)
  <2>1. /\ ~Present(p)' /\ UNCHANGED <<zone, characters, client>>
        /\ \A r \in Players \ {p} : player'[r] = player[r]
    BY <1>0, <1>3 DEF Vanish, Present, Away
  <2>2. \A r \in Players : Present(r)' => r # p
    BY <2>1
  <2>3. \A r \in Players : Present(r)' =>
          Present(r) /\ player'[r].addr = player[r].addr /\ player'[r].sid = player[r].sid
    BY <2>1, <2>2 DEF Present
  <2>4. \A o \in Clients : Free(o) => Free(o)'
    BY <2>1 DEF Free
  <2> QED BY <2>1, <2>3, <2>4, NobodyNew
<1>4. CASE Quit(p)
  <2>1. /\ ~Present(p)'
        /\ \A r \in Players \ {p} : player'[r] = player[r]
    BY <1>0, <1>4 DEF Quit, Present, Away
  <2>2. \A r \in Players : Present(r)' => r # p
    BY <2>1
  <2>3. \A r \in Players : Present(r)' =>
          Present(r) /\ player'[r].addr = player[r].addr /\ player'[r].sid = player[r].sid
    BY <2>1, <2>2 DEF Present
  <2>4. \A s \in Sessions : zone'[s] \in {zone[s], None}
    BY <1>4 DEF Quit, DeleteClient, IInv, TypeOK
  <2>5. \A r \in Players : characters'[r] \in {characters[r], None}
    BY <1>4 DEF Quit, DeleteClient, IInv, TypeOK
  <2>6. \A o \in Clients :
          /\ client'[o].addr = client[o].addr /\ client'[o].sid = client[o].sid
          /\ client'[o].soe = client[o].soe
          /\ client'[o].phase = client[o].phase /\ client'[o].ping = client[o].ping
    <3>1. CASE UNCHANGED client
      BY <3>1
    <3>2. CASE \E x \in Clients : client' = [client EXCEPT ![x].loading = TRUE]
      BY <1>0, <3>2 DEF ClientType
    <3>3. Present(p) /\ zone[player[p].sid] \in Clients \cup {None}
      BY <1>0, <1>4 DEF Quit, Served, Present, IInv, TypeOK
    <3> QED BY <1>4, <3>1, <3>2, <3>3 DEF Quit
  <2>7. \A o \in Clients : Free(o) => Free(o)'
    BY <2>4, <2>5, <2>6, NoneIsNone DEF Free
  <2>8. \A r \in Players : Present(r) => zone'[player[r].sid] \in {zone[player[r].sid], None}
    BY <2>4 DEF IInv, Placed, Present
  <2> QED BY <2>3, <2>6, <2>7, <2>8, NobodyNew
<1> QED BY <1>1, <1>2, <1>3, <1>4 DEF Peer

\* And what they do when the server answers.
LEMMA ProgressKeepsOwned ==
    ASSUME IInv, Owned, NEW p \in Players, Progress(p)
    PROVE  Owned'
<1>0. /\ player \in [Players -> PlayerType]
      /\ client \in [Clients -> ClientType]
      /\ zone \in [Sessions -> Clients \cup {None}]
      /\ Present(p) => player[p].addr \in Addresses /\ player[p].sid \in Sessions
      /\ \A r \in Players : Present(r) => player[r].sid \in Sessions
  BY DEF IInv, TypeOK, Placed, Present
<1>1. CASE Retry(p)
  <2>1. Present(p) /\ player[p].addr \in Addresses /\ player[p].sid \in Sessions
    BY <1>0, <1>1 DEF Retry, Present
  <2>2. /\ OnSessionRequest(player[p].addr, player[p].sid)
        /\ UNCHANGED <<player, zone, characters>>
    BY <1>1 DEF Retry
  <2>3. \A r \in Players \ {p} : Present(r) => player[r].addr # player[p].addr
    BY <2>1 DEF Owned, OwnAddress
  <2>4. /\ Present(p)' /\ player'[p] = player[p]
        /\ player'[p].addr = player[p].addr /\ player'[p].sid = player[p].sid
        /\ \A r \in Players \ {p} : player'[r] = player[r]
    BY <2>1, <2>2 DEF Present
  <2> DEFINE a == player[p].addr
             s == player[p].sid
  <2>5. /\ a \in Addresses /\ s \in Sessions /\ OnSessionRequest(a, s)
        /\ player'[p].addr = a /\ player'[p].sid = s
        /\ \A r \in Players \ {p} : Present(r) => player[r].addr # a
    BY <2>1, <2>2, <2>3, <2>4
  <2> HIDE DEF a, s
  <2> QED BY <2>1, <2>2, <2>4, <2>5, RequestKeepsOwned
<1>2. CASE Answer(p)
  <2>1. /\ Present(p) /\ UNCHANGED <<zone, characters, client>>
        /\ player'[p].addr = player[p].addr /\ player'[p].sid = player[p].sid
        /\ \A r \in Players \ {p} : player'[r] = player[r]
    BY <1>0, <1>2 DEF Answer, Present, PlayerType
  <2>2. \A r \in Players : Present(r)' =>
          Present(r) /\ player'[r].addr = player[r].addr /\ player'[r].sid = player[r].sid
    BY <2>1 DEF Present
  <2>3. \A o \in Clients : Free(o) => Free(o)'
    BY <2>1 DEF Free
  <2> QED BY <2>1, <2>2, <2>3, NobodyNew
<1>3. CASE GiveUp(p)
  <2>1. Present(p) /\ player[p].addr \in Addresses
    BY <1>0, <1>3 DEF GiveUp, Present
  <2>2. NextSession \in Sessions /\ Fresh(NextSession)
    BY <1>3, Drawn DEF GiveUp
  <2>3. /\ player'[p].state = "asking" /\ player'[p].addr = player[p].addr
        /\ player'[p].sid = NextSession
        /\ \A r \in Players \ {p} : player'[r] = player[r]
    BY <1>0, <1>3 DEF GiveUp, PlayerType
  <2>4. \A r \in Players \ {p} : Present(r) => player[r].addr # player[p].addr
    BY <2>1 DEF Owned, OwnAddress
  <2>5. OnSessionRequest(player[p].addr, NextSession) /\ UNCHANGED <<zone, characters>>
    BY <1>3 DEF GiveUp
  <2>6. Present(p)'
    BY <2>3 DEF Present
  <2> DEFINE a == player[p].addr
             s == NextSession
  <2>7. /\ a \in Addresses /\ s \in Sessions /\ OnSessionRequest(a, s) /\ Fresh(s)
        /\ player'[p].addr = a /\ player'[p].sid = s
        /\ \A r \in Players \ {p} : Present(r) => player[r].addr # a
    BY <2>1, <2>2, <2>3, <2>4, <2>5
  <2> HIDE DEF a, s
  <2> QED BY <2>3, <2>5, <2>6, <2>7, RequestKeepsOwned
<1>4. CASE LoginRequest(p)
  <2> DEFINE n == NextClient
             made == [phase |-> "admins", sid |-> player[p].sid, soe |-> player[p].sid,
                      addr |-> player[p].addr, character |-> p, ping |-> FALSE,
                      loading |-> TRUE]
  <2>1. n \in Clients /\ Free(n)
    BY <1>4, Drawn DEF LoginRequest
  <2>2. made.sid = player[p].sid /\ made.soe = player[p].sid /\ made.addr = player[p].addr
    OBVIOUS
  <2>3. client' = [client EXCEPT ![n] = made] /\ UNCHANGED <<zone, characters>>
    BY <1>4 DEF LoginRequest
  <2>4. /\ Present(p)
        /\ player'[p].addr = player[p].addr /\ player'[p].sid = player[p].sid
        /\ \A r \in Players \ {p} : player'[r] = player[r]
    BY <1>0, <1>4 DEF LoginRequest, Present, PlayerType
  <2> HIDE DEF n, made
  <2>5. \A r \in Players : Present(r)' =>
          Present(r) /\ player'[r].addr = player[r].addr /\ player'[r].sid = player[r].sid
    BY <2>4 DEF Present
  <2>6. OwnAddress'
    BY <2>5 DEF Owned, OwnAddress
  <2>7. \A o \in Clients \ {n} : client'[o] = client[o] /\ (Free(o)' <=> Free(o))
    BY <1>0, <2>3 DEF Free
  <2>8. ASSUME NEW r \in Players, NEW o \in Clients, Present(r)'
        PROVE  /\ ~Free(o)' /\ player'[r].sid \in {client'[o].sid, client'[o].soe}
                     => client'[o].addr = player'[r].addr
               /\ zone'[player'[r].sid] = o => client'[o].addr = player'[r].addr
    <3>1. CASE o # n
      BY <2>3, <2>5, <2>7, <2>8, <3>1 DEF Owned, OwnClients
    <3>2. CASE o = n
      <4>1. client'[o] = made
        BY <1>0, <2>1, <2>3, <3>2
      <4>2. player[r].sid = player[p].sid => r = p
        BY <2>4, <2>5, <2>8 DEF Owned, OwnAddress
      <4>3. zone[player[r].sid] # o
        BY <1>0, <2>1, <2>5, <2>8, <3>2 DEF Free, IInv, Registered
      <4> QED BY <2>2, <2>3, <2>5, <2>8, <4>1, <4>2, <4>3
    <3> QED BY <3>1, <3>2
  <2> QED BY <2>6, <2>8 DEF Owned, OwnClients
<1>5. CASE FinishLoading(p) \/ Data(p)
  <2>1. Present(p) /\ UNCHANGED <<zone, characters>>
    BY <1>5 DEF FinishLoading, Data, Served, Present
  <2>2. PICK x \in Clients :
          /\ zone[player[p].sid] = x
          /\ \/ client' = [client EXCEPT ![x].loading = FALSE, ![x].ping = TRUE]
             \/ client' = [client EXCEPT ![x].ping = TRUE]
    BY <1>0, <1>5, <2>1 DEF FinishLoading, Data
  <2>3. \A r \in Players : Present(r)' =>
          Present(r) /\ player'[r].addr = player[r].addr /\ player'[r].sid = player[r].sid
    <3>1. CASE FinishLoading(p)
      <4>1. /\ player'[p].addr = player[p].addr /\ player'[p].sid = player[p].sid
            /\ \A r \in Players \ {p} : player'[r] = player[r]
        BY <1>0, <3>1 DEF FinishLoading, PlayerType
      <4> QED BY <2>1, <4>1 DEF Present
    <3>2. CASE Data(p)
      BY <3>2 DEF Data, Present
    <3> QED BY <1>5, <3>1, <3>2
  <2>4. \A o \in Clients :
          /\ client'[o].addr = client[o].addr /\ client'[o].sid = client[o].sid
          /\ client'[o].soe = client[o].soe /\ client'[o].phase = client[o].phase
          /\ o # x => client'[o].ping = client[o].ping
    <3>1. CASE client' = [client EXCEPT ![x].loading = FALSE, ![x].ping = TRUE]
      BY <1>0, <3>1 DEF ClientType
    <3>2. CASE client' = [client EXCEPT ![x].ping = TRUE]
      BY <1>0, <3>2 DEF ClientType
    <3> QED BY <2>2, <3>1, <3>2
  <2>5. ~Free(x)
    BY <1>0, <2>1, <2>2 DEF Free, IInv, Registered
  <2>6. \A o \in Clients : Free(o) => Free(o)'
    BY <2>1, <2>4, <2>5 DEF Free
  <2> QED BY <2>1, <2>3, <2>4, <2>6, NobodyNew
<1> QED BY <1>1, <1>2, <1>3, <1>4, <1>5 DEF Progress

\* And the answers to the server's queries, and its timer.
LEMMA ServerKeepsOwned ==
    ASSUME IInv, Owned, NEW x \in Clients, Server(x)
    PROVE  Owned'
<1>0. /\ player \in [Players -> PlayerType]
      /\ client \in [Clients -> ClientType]
      /\ zone \in [Sessions -> Clients \cup {None}]
      /\ characters \in [Players -> Clients \cup {None}]
      /\ \A r \in Players : Present(r) => player[r].sid \in Sessions
  BY DEF IInv, TypeOK, Placed, Present
<1>1. CASE AdminsAnswered(x)
  <2>1. /\ UNCHANGED player /\ ~Free(x)
        /\ zone' = [zone EXCEPT ![client[x].soe] = x]
        /\ characters' = [characters EXCEPT ![client[x].character] = x]
        /\ client' = [client EXCEPT ![x].phase = "character", ![x].ping = TRUE]
    BY <1>1 DEF AdminsAnswered, Free
  <2>2. \A o \in Clients :
          /\ client'[o].addr = client[o].addr /\ client'[o].sid = client[o].sid
          /\ client'[o].soe = client[o].soe
          /\ o # x => client'[o] = client[o]
    BY <1>0, <2>1 DEF ClientType
  <2>3. \A o \in Clients : Free(o) => Free(o)'
    BY <1>0, <2>1, <2>2 DEF Free
  <2>4. OwnAddress'
    BY <2>1 DEF Owned, OwnAddress, Present
  <2>5. ASSUME NEW r \in Players, NEW o \in Clients, Present(r)'
        PROVE  /\ ~Free(o)' /\ player'[r].sid \in {client'[o].sid, client'[o].soe}
                     => client'[o].addr = player'[r].addr
               /\ zone'[player'[r].sid] = o => client'[o].addr = player'[r].addr
    <3>1. Present(r) /\ player'[r] = player[r]
      BY <2>1, <2>5 DEF Present
    <3>2. zone'[player[r].sid] = o =>
            zone[player[r].sid] = o \/ (o = x /\ player[r].sid = client[x].soe)
      BY <1>0, <2>1, <3>1
    <3> QED BY <2>1, <2>2, <2>3, <3>1, <3>2 DEF Owned, OwnClients
  <2> QED BY <2>4, <2>5 DEF Owned, OwnClients
<1>2. CASE CharacterAnswered(x)
  <2>1. /\ UNCHANGED <<player, zone>> /\ client[x].phase = "character"
        /\ characters' = [characters EXCEPT ![client[x].character] = x]
        /\ client' = [client EXCEPT ![x].phase = "done"]
    BY <1>2 DEF CharacterAnswered
  <2>2. \A o \in Clients :
          /\ client'[o].addr = client[o].addr /\ client'[o].sid = client[o].sid
          /\ client'[o].soe = client[o].soe
          /\ o # x => client'[o] = client[o]
    BY <1>0, <2>1 DEF ClientType
  <2>3. \A o \in Clients : Free(o) => Free(o)'
    BY <1>0, <2>1, <2>2 DEF Free
  <2>4. \A r \in Players : Present(r)' =>
          Present(r) /\ player'[r].addr = player[r].addr /\ player'[r].sid = player[r].sid
    BY <2>1 DEF Present
  <2> QED BY <2>1, <2>2, <2>3, <2>4, NobodyNew
<1>3. CASE PingTimeout(x)
  <2>1. UNCHANGED player /\ client[x].phase = "done"
        /\ \/ client' = [client EXCEPT ![x].ping = FALSE, ![x].loading = TRUE]
           \/ client' = [client EXCEPT ![x].ping = FALSE]
    BY <1>3 DEF PingTimeout
  <2>2. \A s \in Sessions : zone'[s] \in {zone[s], None}
    BY <1>3 DEF PingTimeout, DeleteClient, IInv, TypeOK
  <2>3. \A r \in Players : characters'[r] \in {characters[r], None}
    BY <1>3 DEF PingTimeout, DeleteClient, IInv, TypeOK
  <2>4. \A o \in Clients :
          /\ client'[o].addr = client[o].addr /\ client'[o].sid = client[o].sid
          /\ client'[o].soe = client[o].soe /\ client'[o].phase = client[o].phase
          /\ client'[o].ping => client[o].ping
    <3>1. CASE client' = [client EXCEPT ![x].ping = FALSE, ![x].loading = TRUE]
      BY <1>0, <3>1 DEF ClientType
    <3>2. CASE client' = [client EXCEPT ![x].ping = FALSE]
      BY <1>0, <3>2 DEF ClientType
    <3> QED BY <2>1, <3>1, <3>2
  <2>5. \A o \in Clients : Free(o) => Free(o)'
    BY <2>2, <2>3, <2>4, NoneIsNone DEF Free
  <2>6. \A r \in Players : Present(r)' =>
          Present(r) /\ player'[r].addr = player[r].addr /\ player'[r].sid = player[r].sid
    BY <2>1 DEF Present
  <2>7. \A r \in Players : Present(r) => zone'[player[r].sid] \in {zone[player[r].sid], None}
    BY <1>0, <2>2
  <2> QED BY <2>4, <2>5, <2>6, <2>7, NobodyNew
<1> QED BY <1>1, <1>2, <1>3 DEF Server

\* At first nobody is there, and every step keeps it.
LEMMA OwnedKept ==
    /\ Init => Owned
    /\ IInv /\ Owned /\ [Next]_vars => Owned'
<1>1. Init => Owned
  BY DEF Init, Owned, OwnAddress, OwnClients, Present, Away
<1>2. ASSUME IInv, Owned, [Next]_vars PROVE Owned'
  <2>1. CASE UNCHANGED vars
    BY <1>2, <2>1 DEF vars, Owned, OwnAddress, OwnClients, Present, Free
  <2>2. ASSUME NEW a \in Addresses, LoseReply(a) PROVE Owned'
    BY <1>2, <2>2 DEF LoseReply, Owned, OwnAddress, OwnClients, Present, Free
  <2> QED BY <1>2, <2>1, <2>2, PeerKeepsOwned, ProgressKeepsOwned, ServerKeepsOwned DEF Next
<1> QED BY <1>1, <1>2

\* Deleting a client that was not made for a player's address leaves the player
\* in the game.
LEMMA DeleteElsewhere ==
    ASSUME IInv, Owned, NEW p \in Players, In(p), player'[p] = player[p],
           NEW o \in Clients, ~Free(o), client[o].addr # player[p].addr,
           DeleteClient(o)
    PROVE  In(p)'
<1>1. Present(p) /\ player[p].sid \in Sessions /\ player[p].addr \in Addresses
  BY DEF In, Present, IInv, Placed
<1>2. client[o].sid # player[p].sid
  BY <1>1 DEF Owned, OwnClients
<1> QED BY <1>1, <1>2 DEF DeleteClient, In, Served, IInv, TypeOK

\* A SessionRequest from another address leaves a player in the game.
LEMMA RequestElsewhere ==
    ASSUME IInv, NEW p \in Players, In(p), player'[p] = player[p],
           NEW a \in Addresses, NEW s \in Sessions, a # player[p].addr,
           OnSessionRequest(a, s), UNCHANGED zone
    PROVE  In(p)'
<1>1. player[p].addr \in Addresses /\ table \in [Addresses -> Sessions \cup {None}]
  BY DEF In, IInv, TypeOK, Placed
<1>2. table'[player[p].addr] = table[player[p].addr]
  <2>1. CASE CreateSession(a, s)
    BY <1>1, <2>1 DEF CreateSession
  <2>2. CASE ReplaceSession(a, s)
    BY <1>1, <2>2 DEF ReplaceSession
  <2> QED BY <2>1, <2>2 DEF OnSessionRequest
<1> QED BY <1>2 DEF In, Served

\* What throws a player out of the game.
LEMMA StepThrowsOut ==
    ASSUME IInv, Owned, [Next]_vars,
           NEW p \in Players, In(p), player'[p] = player[p], ~In(p)'
    PROVE  \/ faults' # faults
           \/ \E o \in Clients : Predecessor(p, o) /\ ~client'[o].ping
<1>0. /\ Present(p) /\ player[p].state = "playing"
      /\ player[p].sid \in Sessions /\ player[p].addr \in Addresses
      /\ player \in [Players -> PlayerType] /\ client \in [Clients -> ClientType]
      /\ zone \in [Sessions -> Clients \cup {None}] /\ faults \in Nat
  BY DEF In, Present, IInv, Placed, TypeOK
<1>1. UNCHANGED <<table, zone>> => FALSE
  BY DEF In, Served
<1>2. ASSUME NEW q \in Players, Peer(q)
      PROVE  faults' # faults
  <2>1. ASSUME NEW a \in Addresses, Visit(q, a) PROVE FALSE
    <3>1. q # p
      BY <1>0, <2>1 DEF Visit
    <3>2. a # player[p].addr /\ NextSession \in Sessions
      BY <2>1, <3>1, Drawn DEF Visit, Taken
    <3> QED BY <2>1, <3>2, RequestElsewhere DEF Visit
  <2>2. CASE DuplicateRequest(q)
    BY <1>0, <2>2 DEF DuplicateRequest
  <2>3. CASE Vanish(q)
    BY <1>1, <2>3 DEF Vanish
  <2>4. CASE Quit(q)
    <3>1. Present(q) /\ q # p
      BY <1>0, <2>4 DEF Quit, Served, Present, Away
    <3>2. PICK o \in Clients : zone[player[q].sid] = o /\ DeleteClient(o)
      BY <1>0, <1>1, <2>4, <3>1 DEF Quit, IInv, Placed, Present
    <3>3. client[o].addr # player[p].addr
      BY <1>0, <3>1, <3>2 DEF Owned, OwnClients, OwnAddress
    <3>4. ~Free(o)
      BY <1>0, <3>1, <3>2 DEF Free, IInv, Registered, Placed, Present
    <3> QED BY <3>2, <3>3, <3>4, DeleteElsewhere
  <2> QED BY <1>2, <2>1, <2>2, <2>3, <2>4 DEF Peer
<1>3. ASSUME NEW q \in Players, Progress(q)
      PROVE  FALSE
  <2>1. CASE Retry(q)
    <3>1. q # p /\ Present(q) /\ player[q].addr \in Addresses /\ player[q].sid \in Sessions
      BY <1>0, <2>1 DEF Retry, Present, IInv, Placed
    <3>2. player[q].addr # player[p].addr
      BY <1>0, <3>1 DEF Owned, OwnAddress
    <3> QED BY <2>1, <3>1, <3>2, RequestElsewhere DEF Retry
  <2>2. CASE GiveUp(q)
    <3>1. q # p
      BY <1>0, <2>2 DEF GiveUp, PlayerType
    <3>2. Present(q) /\ player[q].addr \in Addresses /\ NextSession \in Sessions
      BY <1>0, <2>2, Drawn DEF GiveUp, Present, IInv, Placed
    <3>3. player[q].addr # player[p].addr
      BY <1>0, <3>1, <3>2 DEF Owned, OwnAddress
    <3> QED BY <2>2, <3>2, <3>3, RequestElsewhere DEF GiveUp
  <2>3. CASE Answer(q) \/ LoginRequest(q) \/ FinishLoading(q) \/ Data(q)
    BY <1>1, <2>3 DEF Answer, LoginRequest, FinishLoading, Data
  <2> QED BY <1>3, <2>1, <2>2, <2>3 DEF Progress
<1>4. ASSUME NEW o \in Clients, Server(o)
      PROVE  Predecessor(p, o) /\ ~client'[o].ping
  <2>1. CASE AdminsAnswered(o)
    BY <1>0, <2>1, NoneIsNone DEF AdminsAnswered, In, Served, IInv, TypeOK
  <2>2. CASE CharacterAnswered(o)
    BY <1>1, <2>2 DEF CharacterAnswered
  <2>3. CASE PingTimeout(o)
    <3>1. client[o].ping /\ Silent(o) /\ DeleteClient(o)
      BY <1>1, <2>3 DEF PingTimeout
    <3>2. ~client'[o].ping
      BY <1>0, <2>3 DEF PingTimeout, ClientType
    <3>3. ~Free(o)
      BY <2>3, <3>1 DEF Free, PingTimeout
    <3>4. client[o].addr = player[p].addr
      BY <3>1, <3>3, DeleteElsewhere
    <3> QED BY <3>1, <3>2, <3>4 DEF Predecessor
  <2> QED BY <1>4, <2>1, <2>2, <2>3 DEF Server
<1>5. ASSUME NEW a \in Addresses, LoseReply(a) PROVE FALSE
  BY <1>1, <1>5 DEF LoseReply
<1>6. CASE UNCHANGED vars
  BY <1>1, <1>6 DEF vars
<1> QED BY <1>2, <1>3, <1>4, <1>5, <1>6 DEF Next

-----------------------------------------------------------------------------
\* IInv holds in every state.
LEMMA Invariant == ASSUME Bounds PROVE Spec => []IInv
<1> QED BY InitIInv, NextIInv, PTL DEF Spec

\* Every map keeps the keys and objects of its own layer.
THEOREM TypeCorrect == ASSUME Bounds PROVE Spec => []TypeOK
<1>1. IInv => TypeOK
  BY DEF IInv
<1> QED BY Invariant, <1>1, PTL

\* No client stays registered without a timer that will look for it.
THEOREM RegisteredAreWatched == ASSUME Bounds PROVE Spec => []Watched
<1>1. IInv => Watched
  BY DEF IInv
<1> QED BY Invariant, <1>1, PTL
\* A player in the game is thrown out only by a duplicated SessionRequest or by
\* the ping timer of an earlier client of its own address: no other player's
\* Disconnect, login, retry or timeout ends its session.
THEOREM OnlyOwnAddressThrowsOut == ASSUME Bounds PROVE Spec => ThrownOutByOwnAddress
<1> DEFINE T == \A p \in Players :
                  In(p) /\ player'[p] = player[p] /\ ~In(p)'
                    => \/ faults' # faults
                       \/ \E o \in Clients : Predecessor(p, o) /\ ~client'[o].ping
<1>1. ASSUME IInv, Owned, [Next]_vars PROVE [T]_vars
  BY <1>1, StepThrowsOut
<1> QED BY <1>1, InitIInv, NextIInv, OwnedKept, PTL DEF Spec, ThrownOutByOwnAddress

-----------------------------------------------------------------------------
(* The link to the login server. *)

\* The first request, its treatment, or the reply to it is under way, and no
\* timer has fired yet.
Connecting ==
  /\ ~ownEnd.session /\ ~ownEnd.due /\ ~loginEnd.due
  /\ ownEnd.lastPing = 0 /\ loginEnd.lastPing = 0
  /\ \/ /\ toLogin = {"SessionRequest"} /\ toZone = {}
        /\ ~loginEnd.updating
     \/ /\ toLogin = {} /\ toZone = {}
        /\ loginEnd.known /\ loginEnd.conn /\ loginEnd.updating
     \/ /\ toLogin = {} /\ toZone = {"SessionReply"}
        /\ loginEnd.known /\ loginEnd.conn /\ ~loginEnd.updating

\* Both ends keep a record of the other no older than a period, and what will
\* make it young again in this one is under way.
Connected ==
  /\ ownEnd.session /\ loginEnd.known /\ loginEnd.conn /\ ~loginEnd.updating
  /\ "SessionRequest" \notin toLogin
  /\ ownEnd.lastPing <= 1 /\ loginEnd.lastPing <= 1
  /\ ownEnd.due \/ "Ping" \in toLogin \/ loginEnd.lastPing = 0
  /\ ownEnd.due \/ "Ping" \in toLogin \/ "Ping" \in toZone \/ ownEnd.lastPing = 0

Undisturbed ==
  accepted /\ linkFaults = 0 =>
    ownEnd.up /\ ownEnd.timer /\ (Connecting \/ Connected)

LinkIInv == LinkTypeOK /\ Undisturbed

\* A zone that starts has sent its request and has no session.
LEMMA StartedZoneType ==
  ASSUME LinkAssumption
  PROVE  /\ StartedZone \in ZoneType
         /\ StartedZone.up /\ StartedZone.timer
         /\ ~StartedZone.session /\ ~StartedZone.due /\ StartedZone.lastPing = 0
<1> DEFINE new == [up |-> TRUE, session |-> FALSE, lastPing |-> 0, retries |-> 0,
                   been |-> FALSE, timer |-> TRUE, due |-> FALSE]
<1>1. 0 \in 0..OldestAge /\ 0 \in 0..(MaxRetry + 1) /\ 1 \in 0..(MaxRetry + 1)
  BY DEF OldestAge, LinkAssumption
<1>2. new \in ZoneType
  BY <1>1, Zenon DEF ZoneType
<1>3. new.retries = 0 /\ 0 <= MaxRetry /\ 0 + 1 = 1
  BY DEF LinkAssumption
<1>4. new.up = TRUE /\ new.session = FALSE /\ new.lastPing = 0 /\ new.due = FALSE
  OBVIOUS
<1>5. StartedZone = [Connect(new) EXCEPT !.timer = TRUE]
  BY DEF StartedZone
<1> HIDE DEF new
<1>6. Connect(new) = [new EXCEPT !.retries = 1]
  BY <1>3 DEF Connect
<1>7. [new EXCEPT !.retries = 1] \in ZoneType
  BY <1>1, <1>2, Zenon DEF ZoneType
<1>8. StartedZone \in ZoneType
  BY <1>5, <1>6, <1>7, Zenon DEF ZoneType
<1>9. /\ StartedZone.up = new.up /\ StartedZone.timer = TRUE /\ StartedZone.due = new.due
      /\ StartedZone.session = new.session /\ StartedZone.lastPing = new.lastPing
  BY <1>2, <1>5, <1>6, <1>7 DEF ZoneType
<1> QED BY <1>4, <1>8, <1>9

\* At first the request is on its way.
LEMMA LinkInitIInv ==
  ASSUME LinkAssumption, LinkInit
  PROVE  LinkIInv
<1>1. 0 \in 0..OldestAge /\ 0 \in 0..MaxLinkFaults
  BY DEF OldestAge, LinkAssumption
<1>2. loginEnd \in LoginType
  BY <1>1, Zenon DEF LinkInit, LoginType
<1>3. LinkTypeOK
  BY <1>1, <1>2, StartedZoneType DEF LinkInit, LinkTypeOK
<1>4. Connecting /\ ownEnd.up /\ ownEnd.timer
  BY StartedZoneType DEF LinkInit, Connecting
<1> QED BY <1>3, <1>4 DEF LinkIInv, Undisturbed

\* What an invariant of the link says of the fields of its two records.
LEMMA LinkFields ==
  ASSUME LinkTypeOK
  PROVE  /\ ownEnd.up \in BOOLEAN /\ ownEnd.session \in BOOLEAN /\ ownEnd.been \in BOOLEAN
         /\ ownEnd.timer \in BOOLEAN /\ ownEnd.due \in BOOLEAN
         /\ ownEnd.lastPing \in 0..OldestAge /\ ownEnd.retries \in 0..(MaxRetry + 1)
         /\ loginEnd.known \in BOOLEAN /\ loginEnd.conn \in BOOLEAN
         /\ loginEnd.updating \in BOOLEAN /\ loginEnd.due \in BOOLEAN
         /\ loginEnd.lastPing \in 0..OldestAge
  BY DEF LinkTypeOK, ZoneType, LoginType

\* The zone's handlers.
LEMMA ZoneKeeps ==
  ASSUME LinkAssumption, LinkIInv, Zone
  PROVE  LinkIInv'
<1> USE DEF LinkIInv
<1>0. /\ ownEnd \in ZoneType /\ LinkTypeOK /\ Undisturbed
      /\ 0 \in 0..OldestAge
  BY DEF LinkTypeOK, OldestAge
<1>1. CASE PingTimerWithSession
  <2>1. /\ [ownEnd EXCEPT !.due = FALSE] \in ZoneType
        /\ [ownEnd EXCEPT !.due = FALSE, !.session = FALSE] \in ZoneType
    BY <1>0, Zenon DEF ZoneType
  <2>2. LinkTypeOK'
    BY <1>0, <1>1, <2>1 DEF PingTimerWithSession, LinkTypeOK, ZoneType
  <2>3. Undisturbed'
    <3> SUFFICES ASSUME accepted, linkFaults = 0
                 PROVE  ownEnd'.up /\ ownEnd'.timer /\ Connected'
      BY <1>1 DEF PingTimerWithSession, Undisturbed
    <3>1. Connected /\ ownEnd.up /\ ownEnd.timer
      BY <1>0, <1>1 DEF Undisturbed, Connecting, PingTimerWithSession
    <3>2. ownEnd' = [ownEnd EXCEPT !.due = FALSE]
      BY <1>0, <1>1, <3>1, LinkFields DEF PingTimerWithSession, Connected, MayBeOld
    <3>3. /\ ownEnd'.up = ownEnd.up /\ ownEnd'.timer = ownEnd.timer
          /\ ownEnd'.session = ownEnd.session /\ ownEnd'.lastPing = ownEnd.lastPing
      BY <1>0, <3>2 DEF ZoneType
    <3> QED BY <1>1, <3>1, <3>3 DEF PingTimerWithSession, Connected
  <2> QED BY <2>2, <2>3
<1>2. CASE PingTimerWithoutSession
  <2> DEFINE r == IF ownEnd.retries <= MaxRetry THEN ownEnd.retries + 1 ELSE ownEnd.retries
             late == [[ownEnd EXCEPT !.due = FALSE] EXCEPT !.retries = r]
  <2>1. r \in 0..(MaxRetry + 1)
    BY <1>0, LinkFields DEF LinkAssumption
  <2>2. Connect([ownEnd EXCEPT !.due = FALSE]) = late
    BY <1>0 DEF Connect, ZoneType
  <2>3. ownEnd' = [late EXCEPT !.timer = ~Throws(late)]
    BY <1>2, <2>2 DEF PingTimerWithoutSession
  <2>4. Throws(late) \in BOOLEAN
    BY DEF Throws
  <2>5. late \in ZoneType
    <3> HIDE DEF r
    <3> QED BY <1>0, <2>1, Zenon DEF ZoneType
  <2>6. late.due = FALSE /\ late.session = ownEnd.session /\ late.been = ownEnd.been
    <3> HIDE DEF r
    <3> QED BY <1>0 DEF ZoneType
  <2>7. ownEnd' \in ZoneType
    <3> DEFINE b == ~Throws(late)
    <3>1. b \in BOOLEAN
      OBVIOUS
    <3> HIDE DEF b, late
    <3>2. [late EXCEPT !.timer = b] \in ZoneType
      BY <2>5, <3>1, Zenon DEF ZoneType
    <3> QED BY <2>3, <3>2 DEF b
  <2>8. /\ ownEnd'.due = FALSE /\ ownEnd'.session = ownEnd.session
        /\ ownEnd'.been = ownEnd.been
    <3> HIDE DEF late
    <3> QED BY <2>3, <2>5, <2>6 DEF ZoneType
  <2>9. LinkTypeOK'
    BY <1>0, <1>2, <2>7, <2>8 DEF PingTimerWithoutSession, LinkTypeOK
  <2>10. Undisturbed'
    BY <1>0, <1>2 DEF PingTimerWithoutSession, Undisturbed, Connecting, Connected
  <2> QED BY <2>9, <2>10
<1>3. CASE ZoneReceivesSessionReply
  <2>1. [ownEnd EXCEPT !.session = TRUE, !.been = TRUE, !.lastPing = 0] \in ZoneType
    BY <1>0, Zenon DEF ZoneType
  <2>2. LinkTypeOK'
    BY <1>0, <1>3, <2>1 DEF ZoneReceivesSessionReply, LinkTypeOK, ZoneType
  <2>3. Undisturbed'
    <3> SUFFICES ASSUME accepted, linkFaults = 0
                 PROVE  ownEnd'.up /\ ownEnd'.timer /\ Connected'
      BY <1>3 DEF ZoneReceivesSessionReply, Undisturbed
    <3>1. CASE Connected
      <4>1. ownEnd' = ownEnd
        BY <1>3, <3>1 DEF ZoneReceivesSessionReply, Connected
      <4> QED BY <1>0, <1>3, <3>1, <4>1
              DEF ZoneReceivesSessionReply, Connected, Undisturbed
    <3>2. CASE Connecting
      <4>1. /\ ownEnd'.up = ownEnd.up /\ ownEnd'.timer = ownEnd.timer
            /\ ownEnd'.session = TRUE /\ ownEnd'.lastPing = 0
        BY <1>0, <1>3, <3>2 DEF ZoneReceivesSessionReply, Connecting, ZoneType
      <4> QED BY <1>0, <1>3, <3>2, <4>1
              DEF ZoneReceivesSessionReply, Connecting, Connected, Undisturbed
    <3> QED BY <1>0, <3>1, <3>2 DEF Undisturbed
  <2> QED BY <2>2, <2>3
<1>4. CASE ZoneReceivesPing
  <2>1. [ownEnd EXCEPT !.lastPing = 0] \in ZoneType
    BY <1>0, Zenon DEF ZoneType
  <2>2. LinkTypeOK'
    BY <1>0, <1>4, <2>1 DEF ZoneReceivesPing, LinkTypeOK, ZoneType
  <2>3. /\ ownEnd'.up = ownEnd.up /\ ownEnd'.timer = ownEnd.timer
        /\ ownEnd'.session = ownEnd.session /\ ownEnd'.due = ownEnd.due
        /\ ownEnd.session => ownEnd'.lastPing = 0
    BY <1>0, <1>4 DEF ZoneReceivesPing, ZoneType
  <2>4. Undisturbed'
    BY <1>0, <1>4, <2>3 DEF ZoneReceivesPing, Undisturbed, Connecting, Connected
  <2> QED BY <2>2, <2>4
<1> QED BY <1>1, <1>2, <1>3, <1>4 DEF Zone

\* The login server's handlers.
LEMMA LoginKeeps ==
  ASSUME LinkAssumption, LinkIInv, Login
  PROVE  LinkIInv'
<1> USE DEF LinkIInv
<1>0. /\ loginEnd \in LoginType /\ LinkTypeOK /\ Undisturbed
      /\ 0 \in 0..OldestAge
  BY DEF LinkTypeOK, OldestAge
<1>1. CASE LoginReceivesSessionRequest
  <2> DEFINE age == IF loginEnd.known THEN loginEnd.lastPing ELSE 0
             entered == [loginEnd EXCEPT !.known = TRUE, !.conn = TRUE, !.updating = TRUE,
                                         !.lastPing = age]
  <2>1. age \in 0..OldestAge
    BY <1>0, LinkFields
  <2>2. loginEnd' = IF accepted THEN entered ELSE [loginEnd EXCEPT !.known = FALSE]
    BY <1>0, <1>1 DEF LoginReceivesSessionRequest, LoginType
  <2>3. entered \in LoginType /\ [loginEnd EXCEPT !.known = FALSE] \in LoginType
    <3> HIDE DEF age
    <3> QED BY <1>0, <2>1, Zenon DEF LoginType
  <2>4. /\ entered.known = TRUE /\ entered.conn = TRUE /\ entered.updating = TRUE
        /\ entered.lastPing = age /\ entered.due = loginEnd.due
    <3> HIDE DEF age
    <3> QED BY <1>0, Zenon DEF LoginType
  <2> HIDE DEF entered
  <2>5. LinkTypeOK'
    BY <1>0, <1>1, <2>2, <2>3, <2>4 DEF LoginReceivesSessionRequest, LinkTypeOK
  <2>6. Undisturbed'
    BY <1>0, <1>1, <2>2, <2>4
       DEF LoginReceivesSessionRequest, Undisturbed, Connecting, Connected
  <2> QED BY <2>5, <2>6
<1>2. CASE ServerUpdated
  <2>1. [loginEnd EXCEPT !.updating = FALSE] \in LoginType
    BY <1>0, Zenon DEF LoginType
  <2>2. /\ loginEnd'.known = loginEnd.known /\ loginEnd'.conn = loginEnd.conn
        /\ loginEnd'.updating = FALSE /\ loginEnd'.lastPing = loginEnd.lastPing
        /\ loginEnd'.due = loginEnd.due
    BY <1>0, <1>2 DEF ServerUpdated, LoginType
  <2>3. LinkTypeOK'
    BY <1>0, <1>2, <2>1, <2>2 DEF ServerUpdated, LinkTypeOK
  <2>4. Undisturbed'
    BY <1>0, <1>2, <2>2 DEF ServerUpdated, Undisturbed, Connecting, Connected
  <2> QED BY <2>3, <2>4
<1>3. CASE LoginReceivesPing
  <2>1. [loginEnd EXCEPT !.lastPing = 0] \in LoginType
    BY <1>0, Zenon DEF LoginType
  <2>2. /\ loginEnd'.known = loginEnd.known /\ loginEnd'.conn = loginEnd.conn
        /\ loginEnd'.updating = loginEnd.updating /\ loginEnd'.due = loginEnd.due
        /\ loginEnd.known => loginEnd'.lastPing = 0 /\ toZone' = toZone \cup {"Ping"}
    BY <1>0, <1>3 DEF LoginReceivesPing, LoginType
  <2>3. LinkTypeOK'
    BY <1>0, <1>3, <2>1, <2>2 DEF LoginReceivesPing, LinkTypeOK
  <2>4. Undisturbed'
    BY <1>0, <1>3, <2>2 DEF LoginReceivesPing, Undisturbed, Connecting, Connected
  <2> QED BY <2>3, <2>4
<1>4. CASE LoginTimer
  <2>1. /\ [loginEnd EXCEPT !.due = FALSE] \in LoginType
        /\ [loginEnd EXCEPT !.due = FALSE, !.known = FALSE, !.conn = FALSE] \in LoginType
    BY <1>0, Zenon DEF LoginType
  <2>2. LinkTypeOK'
    BY <1>0, <1>4, <2>1 DEF LoginTimer, LinkTypeOK, LoginType
  <2>3. Undisturbed'
    <3> SUFFICES ASSUME accepted, linkFaults = 0
                 PROVE  ownEnd'.up /\ ownEnd'.timer /\ Connected'
      BY <1>4 DEF LoginTimer, Undisturbed
    <3>1. Connected /\ ownEnd.up /\ ownEnd.timer
      BY <1>0, <1>4 DEF Undisturbed, Connecting, LoginTimer
    <3>2. loginEnd' = [loginEnd EXCEPT !.due = FALSE]
      BY <1>0, <1>4, <3>1, LinkFields DEF LoginTimer, Connected, MayBeOld
    <3>3. /\ loginEnd'.known = loginEnd.known /\ loginEnd'.conn = loginEnd.conn
          /\ loginEnd'.updating = loginEnd.updating
          /\ loginEnd'.lastPing = loginEnd.lastPing
      BY <1>0, <3>2 DEF LoginType
    <3> QED BY <1>4, <3>1, <3>3 DEF LoginTimer, Connected
  <2> QED BY <2>2, <2>3
<1> QED BY <1>1, <1>2, <1>3, <1>4 DEF Login

\* Time and faults.
LEMMA TimeAndFaultsKeep ==
  ASSUME LinkAssumption, LinkIInv, Tick \/ LoseWhatArrivesAtStopped \/ Faults \/ Revoke
  PROVE  LinkIInv'
<1> USE DEF LinkIInv
<1>0. /\ ownEnd \in ZoneType /\ loginEnd \in LoginType /\ LinkTypeOK /\ Undisturbed
      /\ 0 \in 0..OldestAge
  BY DEF LinkTypeOK, OldestAge
<1>1. CASE Tick
  <2> DEFINE a == Aged(ownEnd.lastPing)
             b == Aged(loginEnd.lastPing)
  <2>1. a \in 0..OldestAge /\ b \in 0..OldestAge
    BY <1>0, LinkFields DEF Aged, OldestAge
  <2>2. ownEnd.timer \in BOOLEAN
    BY <1>0, LinkFields
  <2>3. /\ ownEnd' = [ownEnd EXCEPT !.due = ownEnd.timer, !.lastPing = a]
        /\ loginEnd' = [loginEnd EXCEPT !.due = TRUE, !.lastPing = b]
    BY <1>0, <1>1 DEF Tick, ZoneType, LoginType
  <2>4. (ownEnd.lastPing = 0 => a = 1) /\ (loginEnd.lastPing = 0 => b = 1)
    BY DEF Aged, OldestAge
  <2> HIDE DEF a, b
  <2>5. ownEnd' \in ZoneType /\ loginEnd' \in LoginType
    BY <1>0, <2>1, <2>2, <2>3, Zenon DEF ZoneType, LoginType
  <2>6. /\ ownEnd'.up = ownEnd.up /\ ownEnd'.timer = ownEnd.timer /\ ownEnd'.due = ownEnd.timer
        /\ ownEnd'.session = ownEnd.session /\ ownEnd'.been = ownEnd.been
        /\ ownEnd'.lastPing = a
        /\ loginEnd'.known = loginEnd.known /\ loginEnd'.conn = loginEnd.conn
        /\ loginEnd'.updating = loginEnd.updating /\ loginEnd'.lastPing = b
    BY <1>0, <2>3, Zenon DEF ZoneType, LoginType
  <2>7. LinkTypeOK'
    BY <1>0, <1>1, <2>5, <2>6 DEF Tick, LinkTypeOK
  <2>8. Undisturbed'
    <3> SUFFICES ASSUME accepted, linkFaults = 0
                 PROVE  ownEnd'.up /\ ownEnd'.timer /\ Connected'
      BY <1>1 DEF Tick, Undisturbed
    <3>1. Connected /\ ownEnd.up /\ ownEnd.timer
      BY <1>0, <1>1 DEF Tick, Undisturbed, Connecting
    <3>2. ownEnd.lastPing = 0 /\ loginEnd.lastPing = 0
      BY <1>1, <3>1 DEF Tick, Connected
    <3> QED BY <1>1, <2>4, <2>6, <3>1, <3>2 DEF Tick, Connected
  <2> QED BY <2>7, <2>8
<1>2. CASE LoseWhatArrivesAtStopped
  BY <1>0, <1>2 DEF LoseWhatArrivesAtStopped, LinkTypeOK, Undisturbed
<1>3. CASE Revoke
  BY <1>0, <1>3 DEF Revoke, LinkTypeOK, Undisturbed
<1>4. CASE Faults
  <2>1. linkFaults' \in 0..MaxLinkFaults /\ linkFaults' # 0
    BY <1>0, <1>4 DEF Faults, Lose, ZoneRestarts, ZoneStops, LoginRestarts, Fault,
                      LinkTypeOK, LinkAssumption
  <2>2. CASE Lose
    BY <1>0, <2>1, <2>2 DEF Lose, LinkTypeOK, Undisturbed
  <2>3. CASE ZoneRestarts
    BY <1>0, <2>1, <2>3, StartedZoneType DEF ZoneRestarts, LinkTypeOK, Undisturbed
  <2>4. CASE ZoneStops
    <3>1. [ownEnd EXCEPT !.up = FALSE] \in ZoneType
      BY <1>0, Zenon DEF ZoneType
    <3> QED BY <1>0, <2>1, <2>4, <3>1 DEF ZoneStops, LinkTypeOK, Undisturbed, ZoneType
  <2>5. CASE LoginRestarts
    <3>1. loginEnd' \in LoginType /\ ~loginEnd'.conn
      BY <1>0, <2>5, Zenon DEF LoginRestarts, LoginType
    <3> QED BY <1>0, <2>1, <2>5, <3>1 DEF LoginRestarts, LinkTypeOK, Undisturbed
  <2> QED BY <1>4, <2>2, <2>3, <2>4, <2>5 DEF Faults
<1> QED BY <1>1, <1>2, <1>3, <1>4

\* Every step of the link preserves the invariant.
LEMMA LinkNextIInv ==
  ASSUME LinkAssumption, LinkIInv, [LinkNext]_linkVars
  PROVE  LinkIInv'
<1>1. CASE UNCHANGED linkVars
  BY <1>1 DEF linkVars, LinkIInv, LinkTypeOK, Undisturbed, Connecting, Connected
<1> QED BY <1>1, ZoneKeeps, LoginKeeps, TimeAndFaultsKeep DEF LinkNext

\* As long as nothing has failed, a step leaves a session a session and a
\* connection a connection.
LEMMA LinkStepKept ==
  ASSUME LinkAssumption, LinkIInv, [LinkNext]_linkVars, accepted, linkFaults' = 0
  PROVE  /\ ownEnd.session => ownEnd'.session
         /\ loginEnd.conn => loginEnd'.conn
<1>1. linkFaults = 0 /\ ~Faults
  <2>1. linkFaults \in Nat
    BY DEF LinkIInv, LinkTypeOK, LinkAssumption
  <2>2. ~Faults
    <3>1. Faults => linkFaults' = linkFaults + 1
      BY Zenon DEF Faults, Lose, ZoneRestarts, ZoneStops, LoginRestarts, Fault
    <3>2. linkFaults + 1 # 0
      BY <2>1
    <3> QED BY <3>1, <3>2
  <2>3. Zone \/ Login => UNCHANGED linkFaults
    BY DEF Zone, Login, PingTimerWithSession, PingTimerWithoutSession,
           ZoneReceivesSessionReply, ZoneReceivesPing, LoginReceivesSessionRequest,
           ServerUpdated, LoginReceivesPing, LoginTimer
  <2>4. Tick \/ LoseWhatArrivesAtStopped \/ Revoke => UNCHANGED linkFaults
    BY DEF Tick, LoseWhatArrivesAtStopped, Revoke
  <2> QED BY <2>2, <2>3, <2>4 DEF LinkNext, linkVars
<1>2. ownEnd.up /\ (Connecting \/ Connected)
  BY <1>1 DEF LinkIInv, Undisturbed
<1>3. ownEnd \in ZoneType /\ loginEnd \in LoginType /\ LinkTypeOK
  BY DEF LinkIInv, LinkTypeOK
<1>4. CASE PingTimerWithSession
  <2>1. Connected
    BY <1>2, <1>4 DEF PingTimerWithSession, Connecting
  <2>2. ownEnd' = [ownEnd EXCEPT !.due = FALSE]
    BY <1>3, <1>4, <2>1, LinkFields DEF PingTimerWithSession, Connected, MayBeOld
  <2> QED BY <1>3, <1>4, <2>2 DEF PingTimerWithSession, ZoneType
<1>5. CASE PingTimerWithoutSession
  BY <1>5 DEF PingTimerWithoutSession
<1>6. CASE ZoneReceivesSessionReply \/ ZoneReceivesPing
  BY <1>3, <1>6 DEF ZoneReceivesSessionReply, ZoneReceivesPing, ZoneType
<1>7. CASE LoginReceivesSessionRequest
  <2>1. loginEnd'.conn = TRUE
    BY <1>3, <1>7, Zenon DEF LoginReceivesSessionRequest, LoginType
  <2> QED BY <1>7, <2>1 DEF LoginReceivesSessionRequest
<1>8. CASE ServerUpdated \/ LoginReceivesPing
  BY <1>3, <1>8 DEF ServerUpdated, LoginReceivesPing, LoginType
<1>9. CASE LoginTimer
  <2>1. Connected
    BY <1>2, <1>9 DEF LoginTimer, Connecting
  <2>2. loginEnd' = [loginEnd EXCEPT !.due = FALSE]
    BY <1>3, <1>9, <2>1, LinkFields DEF LoginTimer, Connected, MayBeOld
  <2> QED BY <1>3, <1>9, <2>2 DEF LoginTimer, LoginType
<1>10. CASE Tick
  <2>1. ownEnd'.session = ownEnd.session /\ loginEnd'.conn = loginEnd.conn
    BY <1>3, <1>10, Zenon DEF Tick, ZoneType, LoginType
  <2> QED BY <2>1
<1>11. CASE LoseWhatArrivesAtStopped \/ Revoke \/ UNCHANGED linkVars
  BY <1>11 DEF LoseWhatArrivesAtStopped, Revoke, linkVars
<1> QED BY <1>1, <1>4, <1>5, <1>6, <1>7, <1>8, <1>9, <1>10, <1>11
        DEF LinkNext, Zone, Login

-----------------------------------------------------------------------------
(* The lives of the players. *)

\* A character as the invariant has it.
Proper(ch) ==
    /\ ch \in CharacterType
    /\ ch.isAlive => ch.health > 0
    /\ ch.isAlive <=> ~ch.knockedOut

\* And the modifiers of one.
SpeedType == [Effects -> [active : BOOLEAN, timers : Nat, factor : Int]]
ProperSpeed(modified) ==
    /\ modified \in SpeedType
    /\ \A e \in Effects :
         /\ modified[e].factor = IF modified[e].active THEN 1 ELSE 0
         /\ modified[e].active => modified[e].timers > 0

HealingType == [armed : BOOLEAN, ticks : Nat, max : Nat]

\* The invariant, client by client.
Alive == \A c \in Fighters : Proper(character[c])
Fast == \A c \in Fighters : ProperSpeed(speed[c])
OtherTypes ==
    /\ phase \in [Fighters -> {"connecting", "ready", "playing", "gone"}]
    /\ healing \in [Fighters -> HealingType]
    /\ \A c \in Fighters : healing[c].ticks <= healing[c].max
    /\ god \in [Fighters -> [mode : BOOLEAN, temp : BOOLEAN, timers : 0 .. MaxGod]]
    /\ ticking \in [Fighters -> BOOLEAN]
LifeIInv ==
    /\ character \in [Fighters -> CharacterType] /\ Alive
    /\ speed \in [Fighters -> SpeedType] /\ Fast
    /\ OtherTypes

-----------------------------------------------------------------------------
\* The invariant is what the properties say.
LEMMA Implied == LifeIInv => LifeTypeOK /\ AliveOrDown /\ SpeedIsRestored
  BY DEF LifeIInv, LifeTypeOK, AliveOrDown, SpeedIsRestored, Alive, Fast, OtherTypes, Proper, ProperSpeed,
         HealingType, SpeedType

\* A blow leaves health or kills.
LEMMA HurtProper ==
    ASSUME LifeAssumption, NEW ch, Proper(ch), NEW n \in Nat
    PROVE  /\ Proper(Hurt(ch, n))
           /\ Hurt(ch, n).bleeding = ch.bleeding /\ Hurt(ch, n).needs = ch.needs
<1>1. CASE ~ch.isAlive
  BY <1>1 DEF Hurt
<1>2. CASE ch.isAlive /\ ch.health > n
  BY <1>2 DEF Hurt, Proper, CharacterType, LifeAssumption
<1>3. CASE ch.isAlive /\ ~(ch.health > n)
  <2> DEFINE dead == [ch EXCEPT !.health = 0, !.isAlive = FALSE, !.knockedOut = TRUE]
  <2>1. 0 \in 0 .. Whole
    BY DEF LifeAssumption
  <2>2. /\ dead \in CharacterType /\ dead.isAlive = FALSE /\ dead.knockedOut = TRUE
        /\ dead.bleeding = ch.bleeding /\ dead.needs = ch.needs
    BY <2>1, Zenon DEF Proper, CharacterType
  <2>3. Hurt(ch, n) = dead
    BY <1>3 DEF Hurt
  <2> QED BY <2>2, <2>3 DEF Proper
<1> QED BY <1>1, <1>2, <1>3

\* The same of damage that god mode keeps off.
LEMMA HurtUnlessGodProper ==
    ASSUME LifeAssumption, NEW c, NEW ch, Proper(ch), NEW n \in Nat
    PROVE  /\ Proper(HurtUnlessGod(c, ch, n))
           /\ HurtUnlessGod(c, ch, n).bleeding = ch.bleeding
           /\ HurtUnlessGod(c, ch, n).needs = ch.needs
  BY HurtProper DEF HurtUnlessGod

\* Clearing the modifiers undoes what the active ones did.
LEMMA ClearedProper ==
    ASSUME NEW modified, ProperSpeed(modified)
    PROVE  ProperSpeed(Cleared(modified))
<1>1. ASSUME NEW e \in Effects
      PROVE  LET m == Cleared(modified)[e] IN
             /\ m \in [active : BOOLEAN, timers : Nat, factor : Int]
             /\ m.factor = 0 /\ ~m.active
  <2>1. CASE modified[e].active
    <3>1. Cleared(modified)[e] =
            [modified[e] EXCEPT !.active = FALSE, !.factor = modified[e].factor - 1]
      BY <2>1 DEF Cleared
    <3>2. modified[e].factor - 1 = 0 /\ 0 \in Int
      BY <2>1 DEF ProperSpeed, SpeedType
    <3>3. modified[e] \in [active : BOOLEAN, timers : Nat, factor : Int]
      BY DEF ProperSpeed, SpeedType
    <3>4. Cleared(modified)[e] = [modified[e] EXCEPT !.active = FALSE, !.factor = 0]
      BY <3>1, <3>2
    <3> QED BY <3>2, <3>3, <3>4, Zenon
  <2>2. CASE ~modified[e].active
    BY <2>2 DEF Cleared, ProperSpeed, SpeedType
  <2> QED BY <2>1, <2>2
<1>2. Cleared(modified) \in SpeedType
  BY <1>1 DEF Cleared, SpeedType
<1> QED BY <1>1, <1>2 DEF ProperSpeed, SpeedType

\* A modifier that starts multiplies the speed, one that goes on does not.
LEMMA ModifiedProper ==
    ASSUME NEW modified, ProperSpeed(modified), NEW e \in Effects
    PROVE  ProperSpeed([modified EXCEPT ![e] = Modified(@)])
<1>1. /\ Modified(modified[e]) \in [active : BOOLEAN, timers : Nat, factor : Int]
      /\ Modified(modified[e]).active /\ Modified(modified[e]).factor = 1
      /\ Modified(modified[e]).timers > 0
  BY DEF Modified, ProperSpeed, SpeedType
<1> QED BY <1>1 DEF ProperSpeed, SpeedType

-----------------------------------------------------------------------------
\* The character a respawn makes.
LEMMA SoundProper == ASSUME LifeAssumption PROVE Proper(Sound)
<1>1. Whole \in 0 .. Whole /\ -40 \in Int /\ Plenty \in Nat /\ Whole > 0
  BY DEF LifeAssumption
<1>2. Sound \in CharacterType /\ Sound.isAlive = TRUE /\ Sound.knockedOut = FALSE
  BY <1>1, Zenon DEF Sound, CharacterType
<1>3. Sound.health = Whole
  BY DEF Sound
<1> QED BY <1>1, <1>2, <1>3 DEF Proper

\* A step that changes one character and one client's modifiers properly.
LEMMA OneChanges ==
    ASSUME LifeIInv, OtherTypes', NEW c \in Fighters, NEW ch, Proper(ch),
           NEW d \in Fighters, NEW modified, ProperSpeed(modified),
           character' = [character EXCEPT ![c] = ch],
           speed' = speed \/ speed' = [speed EXCEPT ![d] = modified]
    PROVE  LifeIInv'
<1>1. character' \in [Fighters -> CharacterType] /\ Alive'
  BY DEF LifeIInv, Alive, Proper
<1>2. /\ speed' \in [Fighters -> SpeedType]
      /\ Fast'
  BY DEF LifeIInv, Fast, ProperSpeed
<1> QED BY <1>1, <1>2 DEF LifeIInv

\* What damage and its death leave of a character and of its speed.
LEMMA BecomesProper ==
    ASSUME LifeIInv, OtherTypes', NEW c \in Fighters, NEW ch, Proper(ch), Becomes(c, ch)
    PROVE  LifeIInv'
<1>1. ProperSpeed(speed[c])
  BY DEF LifeIInv, Fast
<1>2. /\ character' = [character EXCEPT ![c] = ch]
      /\ speed' = speed \/ speed' = [speed EXCEPT ![c] = Cleared(speed[c])]
  BY DEF Becomes
<1> QED BY <1>1, <1>2, ClearedProper, OneChanges

\* A step that changes the healing of one client properly.
LEMMA HealingChanges ==
    ASSUME OtherTypes, UNCHANGED <<phase, god>>, ticking' \in [Fighters -> BOOLEAN],
           NEW c \in Fighters, NEW h \in HealingType, h.ticks <= h.max,
           healing' = [healing EXCEPT ![c] = h]
    PROVE  OtherTypes'
  BY DEF OtherTypes

\* Characters start sound, with the speed they have.
LEMMA LifeInitIInv == ASSUME LifeAssumption PROVE LifeInit => LifeIInv
<1> SUFFICES ASSUME LifeInit PROVE LifeIInv
  OBVIOUS
<1>1. character \in [Fighters -> CharacterType] /\ Alive
  BY SoundProper DEF LifeInit, Alive, Proper
<1>2. /\ speed \in [Fighters -> SpeedType]
      /\ Fast
  BY DEF LifeInit, Fast, ProperSpeed, SpeedType
<1>3. OtherTypes
  BY DEF LifeInit, OtherTypes, HealingType, LifeAssumption
<1> QED BY <1>1, <1>2, <1>3 DEF LifeIInv

-----------------------------------------------------------------------------
\* One lemma for each action that changes a character.
LEMMA DamageStep ==
    ASSUME LifeAssumption, LifeIInv, NEW c \in Fighters, NEW n \in 1 .. Whole, NEW b \in {0, 41},
           Damage(c, n, b)
    PROVE  LifeIInv'
<1> DEFINE ch == character[c]
           cut == IF god[c].mode \/ ~ch.isAlive THEN ch ELSE [ch EXCEPT !.bleeding = @ + b]
<1>1. Proper(ch)
  BY DEF LifeIInv, Alive
<1>2. Proper(cut)
  BY <1>1 DEF Damage, Proper, CharacterType, LifeAssumption
<1>3. Becomes(c, HurtUnlessGod(c, cut, n)) /\ UNCHANGED <<phase, healing, god, ticking>>
  BY DEF Damage
<1>4. OtherTypes'
  BY <1>3 DEF LifeIInv, OtherTypes
<1> HIDE DEF cut
<1>5. n \in Nat
  BY DEF LifeAssumption
<1>6. Proper(HurtUnlessGod(c, cut, n))
  BY <1>2, <1>5, HurtUnlessGodProper
<1> QED BY <1>3, <1>4, <1>6, BecomesProper

\* Dead by command: the modifiers end with the life.
LEMMA KillStep ==
    ASSUME LifeAssumption, LifeIInv, NEW c \in Fighters, Kill(c)
    PROVE  LifeIInv'
<1> DEFINE ch == [character[c] EXCEPT !.isAlive = FALSE,
                                      !.knockedOut = @ \/ character[c].isAlive]
<1>1. Proper(character[c]) /\ ProperSpeed(speed[c])
  BY DEF LifeIInv, Alive, Fast
<1>2. character[c].knockedOut \/ character[c].isAlive
  BY <1>1 DEF Proper, CharacterType
<1>3. ch \in CharacterType /\ ch.isAlive = FALSE /\ ch.knockedOut = TRUE
  BY <1>1, <1>2, Zenon DEF Proper, CharacterType
<1>4. Proper(ch)
  BY <1>3 DEF Proper
<1>5. /\ character' = [character EXCEPT ![c] = ch]
      /\ speed' = [speed EXCEPT ![c] = Cleared(speed[c])]
      /\ UNCHANGED <<phase, healing, god, ticking>>
  BY DEF Kill
<1>6. OtherTypes'
  BY <1>5 DEF LifeIInv, OtherTypes
<1> QED BY <1>1, <1>4, <1>5, <1>6, ClearedProper, OneChanges

\* A respawn gives back health, not the speed that pending timers will.
LEMMA RespawnStep ==
    ASSUME LifeAssumption, LifeIInv, NEW c \in Fighters, Respawn(c)
    PROVE  LifeIInv'
<1>1. /\ character' = [character EXCEPT ![c] = Sound] /\ speed' = speed
      /\ healing' = [healing EXCEPT ![c] = [@ EXCEPT !.ticks = 0, !.max = 0]]
      /\ ticking' = [ticking EXCEPT ![c] = TRUE]
      /\ UNCHANGED <<phase, god>>
  BY DEF Respawn
<1>2. OtherTypes'
  <2> DEFINE h == [healing[c] EXCEPT !.ticks = 0, !.max = 0]
  <2>0. healing[c] \in HealingType /\ ticking' \in [Fighters -> BOOLEAN]
    BY <1>1 DEF LifeIInv, OtherTypes
  <2>1. h \in HealingType /\ h.ticks = 0 /\ h.max = 0
    BY <2>0 DEF HealingType
  <2>2. healing' = [healing EXCEPT ![c] = h]
    BY <1>1
  <2> HIDE DEF h
  <2>3. h.ticks <= h.max
    BY <2>1
  <2> QED BY <1>1, <2>0, <2>1, <2>2, <2>3, HealingChanges DEF LifeIInv
<1>3. ProperSpeed(speed[c])
  BY DEF LifeIInv, Fast
<1> QED BY <1>1, <1>2, <1>3, SoundProper, OneChanges

\* An empty need takes health, another one a point of itself.
LEMMA StarvedProper ==
    ASSUME LifeAssumption, NEW c, NEW ch, Proper(ch), NEW need \in Needs
    PROVE  Proper(Starved(c, ch, need))
<1>1. CASE ch.needs[need] > 0
  <2> DEFINE less == [ch.needs EXCEPT ![need] = Least(Plenty, ch.needs[need] - 1)]
  <2>1. less \in [Needs -> Nat]
    BY <1>1 DEF Proper, CharacterType, LifeAssumption, Least
  <2>2. Starved(c, ch, need) = [ch EXCEPT !.needs = less]
    BY <1>1 DEF Starved
  <2> HIDE DEF less
  <2> QED BY <2>1, <2>2 DEF Proper, CharacterType
<1>2. CASE ~(ch.needs[need] > 0)
  BY <1>2, HurtUnlessGodProper DEF Starved
<1> QED BY <1>1, <1>2

\* Bleeding, healing and hunger of one tick, in the order of the code.
LEMMA UpdateResourcesStep ==
    ASSUME LifeAssumption, LifeIInv, NEW c \in Fighters, UpdateResources(c)
    PROVE  LifeIInv'
<1> DEFINE ch == character[c]
           bled == IF ch.bleeding > 0 THEN HurtUnlessGod(c, ch, BleedingTick(ch)) ELSE ch
           limited == [bled EXCEPT !.bleeding = Most(-40, Least(80, @))]
           after == Starved(c, Starved(c, limited, "hunger"), "hydration")
<1>1. Proper(ch)
  BY DEF LifeIInv, Alive
<1>2. ch.bleeding > 0 => BleedingTick(ch) \in Nat
  BY <1>1 DEF BleedingTick, Proper, CharacterType
<1>3. Proper(bled)
  BY <1>1, <1>2, HurtUnlessGodProper
<1>4. Becomes(c, after) /\ UNCHANGED <<phase, healing, god, ticking>>
  BY DEF UpdateResources
<1> HIDE DEF bled
<1>5. Proper(limited)
  BY <1>3 DEF Proper, CharacterType, Most, Least
<1> HIDE DEF limited
<1>6. Proper(after)
  BY <1>5, StarvedProper DEF Needs
<1>7. OtherTypes'
  BY <1>4 DEF LifeIInv, OtherTypes
<1> HIDE DEF after
<1> QED BY <1>4, <1>6, <1>7, BecomesProper

\* A tick of healing, which the dead have too.
LEMMA HealStep ==
    ASSUME LifeAssumption, LifeIInv, NEW c \in Fighters, Heal(c)
    PROVE  LifeIInv'
<1> DEFINE ch == [character[c] EXCEPT !.health = Least(Whole, @ + 1)]
<1>1. Proper(character[c]) /\ ProperSpeed(speed[c])
  BY DEF LifeIInv, Alive, Fast
<1>2. Proper(ch)
  BY <1>1 DEF Proper, CharacterType, Least, LifeAssumption
<1>3. UNCHANGED <<phase, god, speed, ticking>>
  BY DEF Heal
<1>4. OtherTypes'
  <2>1. healing[c] \in HealingType /\ healing[c].ticks <= healing[c].max
    BY DEF LifeIInv, OtherTypes
  <2>2. ASSUME NEW h \in HealingType, h.ticks <= h.max, healing' = [healing EXCEPT ![c] = h]
        PROVE  OtherTypes'
    BY <1>3, <2>2, HealingChanges DEF LifeIInv, OtherTypes
  <2>3. CASE There(c)
    <3>1. Healed(healing[c]) \in HealingType /\ Healed(healing[c]).ticks <= Healed(healing[c]).max
      BY <2>1 DEF HealingType, Healed
    <3>2. healing' = [healing EXCEPT ![c] = Healed(healing[c])]
      BY <2>3 DEF Heal
    <3> QED BY <2>2, <3>1, <3>2
  <2>4. CASE ~There(c)
    <3> DEFINE h == [healing[c] EXCEPT !.armed = FALSE]
    <3>1. h \in HealingType /\ h.ticks = healing[c].ticks /\ h.max = healing[c].max
      BY <2>1, Zenon DEF HealingType
    <3> QED BY <2>1, <2>2, <2>4, <3>1 DEF Heal
  <2> QED BY <2>3, <2>4
<1>5. CASE There(c)
  BY <1>1, <1>2, <1>3, <1>4, <1>5, OneChanges DEF Heal
<1>6. CASE ~There(c)
  BY <1>1, <1>3, <1>4, <1>6 DEF LifeIInv, Heal, Alive, Fast
<1> QED BY <1>5, <1>6

\* Bandages stop bleeding and queue ticks of healing.
LEMMA UseMedicalStep ==
    ASSUME LifeAssumption, LifeIInv, NEW c \in Fighters, NEW stops \in {40, 120}, UseMedical(c, stops)
    PROVE  LifeIInv'
<1> DEFINE ch == [character[c] EXCEPT !.bleeding = @ - stops]
<1>1. Proper(character[c]) /\ ProperSpeed(speed[c])
  BY DEF LifeIInv, Alive, Fast
<1>2. /\ character' = [character EXCEPT ![c] = ch]
      /\ healing' = [healing EXCEPT ![c] = Bandaged(healing[c])]
      /\ UNCHANGED <<phase, god, speed, ticking>>
  BY DEF UseMedical
<1>3. Proper(ch)
  BY <1>1, <1>2 DEF Proper, CharacterType
<1>4. OtherTypes'
  <2> DEFINE h == Bandaged(healing[c])
  <2>1. /\ healing[c] \in HealingType /\ healing[c].ticks <= healing[c].max
        /\ healing[c].max + HealCount \in Nat
        /\ healing[c].ticks <= healing[c].max + HealCount
    BY DEF LifeIInv, OtherTypes, HealingType, LifeAssumption
  <2>2. h \in HealingType /\ h.ticks = healing[c].ticks /\ h.max = healing[c].max + HealCount
    BY <2>1, Zenon DEF HealingType, Bandaged
  <2>3. h.ticks <= h.max
    BY <2>1, <2>2
  <2>4. OtherTypes /\ ticking' \in [Fighters -> BOOLEAN]
    BY <1>2 DEF LifeIInv, OtherTypes
  <2> HIDE DEF h
  <2> QED BY <1>2, <2>2, <2>3, <2>4, HealingChanges DEF h
<1> QED BY <1>1, <1>2, <1>3, <1>4, OneChanges, ZenonT(40)

\* Food adds to the needs and to nothing else.
LEMMA EatStep ==
    ASSUME LifeAssumption, LifeIInv, NEW c \in Fighters, NEW meal \in Meals, Eat(c, meal)
    PROVE  LifeIInv'
<1> DEFINE ch == [character[c] EXCEPT !.needs = [n \in Needs |-> @[n] + meal[n]]]
<1>1. Proper(character[c]) /\ ProperSpeed(speed[c])
  BY DEF LifeIInv, Alive, Fast
<1>2. character' = [character EXCEPT ![c] = ch] /\ UNCHANGED <<phase, healing, god, speed, ticking>>
  BY DEF Eat
<1>3. Proper(ch)
  BY <1>1 DEF Proper, CharacterType, LifeAssumption
<1>4. OtherTypes'
  BY <1>2 DEF LifeIInv, OtherTypes
<1> QED BY <1>1, <1>2, <1>3, <1>4, OneChanges

\* The characters stay as they are.
LEMMA OnlySpeed ==
    ASSUME LifeIInv, UNCHANGED <<phase, character, healing, god, ticking>>,
           NEW d \in Fighters, NEW modified, ProperSpeed(modified),
           speed' = [speed EXCEPT ![d] = modified]
    PROVE  LifeIInv'
<1>1. /\ speed' \in [Fighters -> SpeedType]
      /\ Fast'
  BY DEF LifeIInv, Fast, ProperSpeed
<1> QED BY <1>1 DEF LifeIInv, Alive, OtherTypes

\* A modifier starts or starts again.
LEMMA SniffStep ==
    ASSUME LifeIInv, NEW c \in Fighters, NEW e \in Effects, Sniff(c, e)
    PROVE  LifeIInv'
<1>1. ProperSpeed(speed[c])
  BY DEF LifeIInv, Fast
<1>2. /\ speed' = [speed EXCEPT ![c] = [speed[c] EXCEPT ![e] = Modified(speed[c][e])]]
      /\ UNCHANGED <<phase, character, healing, god, ticking>>
  BY DEF Sniff
<1>3. ProperSpeed([speed[c] EXCEPT ![e] = Modified(speed[c][e])])
  BY <1>1, ModifiedProper
<1> QED BY <1>2, <1>3, OnlySpeed

\* The timer of a modifier finds it there, or ended by a death.
LEMMA ModifierEndsStep ==
    ASSUME LifeIInv, NEW c \in Fighters, NEW e \in Effects, ModifierEnds(c, e)
    PROVE  LifeIInv'
<1> DEFINE m == speed[c][e]
           after == [active |-> FALSE, timers |-> m.timers - 1,
                     factor |-> IF m.active THEN m.factor - 1 ELSE m.factor]
<1>1. ProperSpeed(speed[c])
  BY DEF LifeIInv, Fast
<1>2. /\ m.timers > 0
      /\ speed' = [speed EXCEPT ![c] = [speed[c] EXCEPT ![e] = after]]
      /\ UNCHANGED <<phase, character, healing, god, ticking>>
  BY DEF ModifierEnds
<1>3. after \in [active : BOOLEAN, timers : Nat, factor : Int] /\ after.factor = 0 /\ ~after.active
  BY <1>1, <1>2 DEF ProperSpeed, SpeedType
<1> HIDE DEF after
<1>4. ProperSpeed([speed[c] EXCEPT ![e] = after])
  BY <1>1, <1>3 DEF ProperSpeed, SpeedType
<1> QED BY <1>2, <1>4, OnlySpeed

\* Whoever steps on the snare is hurt and cut; whoever placed it is slowed.
LEMMA SnareStep ==
    ASSUME LifeAssumption, LifeIInv, NEW victim \in Fighters, NEW placer \in Fighters,
           "snared" \in Effects, Snare(victim, placer)
    PROVE  LifeIInv'
<1> DEFINE ch == HurtUnlessGod(victim, character[victim], SnareDamage)
           cut == [ch EXCEPT !.bleeding = @ + 41]
           killed == IF character[victim].isAlive /\ ~ch.isAlive
                     THEN [speed EXCEPT ![victim] = Cleared(@)] ELSE speed
           slowed == [killed[placer] EXCEPT !["snared"] = Modified(@)]
<1>1. Proper(character[victim]) /\ character[victim].bleeding \in Int
  BY DEF LifeIInv, Alive, Snare, LifeAssumption
<1>2. Proper(ch) /\ ch.bleeding = character[victim].bleeding
  BY <1>1, HurtUnlessGodProper DEF LifeAssumption
<1>3. /\ character' = [character EXCEPT ![victim] = cut]
      /\ speed' = [killed EXCEPT ![placer] = slowed]
      /\ UNCHANGED <<phase, healing, god, ticking>>
  BY DEF Snare
<1> HIDE DEF ch
<1>4. Proper(cut)
  BY <1>1, <1>2 DEF Proper, CharacterType
<1>5. killed \in [Fighters -> SpeedType] /\ \A c \in Fighters : ProperSpeed(killed[c])
  BY ClearedProper DEF LifeIInv, Fast, ProperSpeed
<1> HIDE DEF cut, killed
<1>6. ProperSpeed(slowed)
  BY <1>5, ModifiedProper
<1> HIDE DEF slowed
<1>7. character' \in [Fighters -> CharacterType] /\ Alive'
  BY <1>3, <1>4 DEF LifeIInv, Alive, Proper
<1>8. speed' \in [Fighters -> SpeedType] /\ Fast'
  BY <1>3, <1>5, <1>6 DEF Fast, ProperSpeed
<1>9. OtherTypes'
  BY <1>3 DEF LifeIInv, OtherTypes
<1> QED BY <1>7, <1>8, <1>9 DEF LifeIInv

\* The clients and their god mode: no character is touched.
LEMMA ClientStep ==
    ASSUME LifeAssumption, LifeIInv, NEW c \in Fighters,
           \/ ClientIsReady(c) \/ LoadingFinished(c) \/ GodModeEnds(c)
           \/ MoveOrShoot(c) \/ AdminGod(c) \/ ClientDeleted(c)
    PROVE  LifeIInv'
<1> DEFINE GodType == [mode : BOOLEAN, temp : BOOLEAN, timers : 0 .. MaxGod]
<1>1. UNCHANGED <<character, speed, healing>>
  BY DEF ClientIsReady, LoadingFinished, GodModeEnds, MoveOrShoot, AdminGod, ClientDeleted
<1>2. god[c] \in GodType
  BY DEF LifeIInv, OtherTypes
<1>3. /\ phase' \in [Fighters -> {"connecting", "ready", "playing", "gone"}]
      /\ ticking' \in [Fighters -> BOOLEAN]
  BY DEF ClientIsReady, LoadingFinished, GodModeEnds, MoveOrShoot, AdminGod, ClientDeleted, LifeIInv,
         OtherTypes
<1>4. god' \in [Fighters -> GodType]
  <2>1. ASSUME NEW g \in GodType, god' = [god EXCEPT ![c] = g] PROVE god' \in [Fighters -> GodType]
    BY <2>1 DEF LifeIInv, OtherTypes
  <2>2. CASE god' = god
    BY <2>2 DEF LifeIInv, OtherTypes
  <2>3. CASE ClientIsReady(c)
    <3>1. [god[c] EXCEPT !.mode = TRUE] \in GodType
      BY <1>2, Zenon
    <3> QED BY <2>1, <2>3, <3>1 DEF ClientIsReady
  <2>4. CASE LoadingFinished(c)
    <3>1. god[c].timers < MaxGod /\ god[c].timers + 1 \in 0 .. MaxGod
      BY <1>2, <2>4 DEF LoadingFinished, LifeAssumption
    <3>2. [god[c] EXCEPT !.mode = TRUE, !.temp = TRUE, !.timers = god[c].timers + 1] \in GodType
      BY <1>2, <3>1, Zenon
    <3>3. TempGodMode(god[c]) \in GodType
      BY <1>2, <3>2 DEF TempGodMode
    <3>4. [TempGodMode(god[c]) EXCEPT !.mode = FALSE] \in GodType
      BY <3>3, Zenon
    <3> QED BY <2>1, <2>4, <3>3, <3>4 DEF LoadingFinished
  <2>5. CASE GodModeEnds(c)
    <3>1. [mode |-> FALSE, temp |-> FALSE, timers |-> god[c].timers - 1] \in GodType
      BY <1>2, <2>5 DEF GodModeEnds, LifeAssumption
    <3> QED BY <2>1, <2>5, <3>1 DEF GodModeEnds
  <2>6. CASE MoveOrShoot(c)
    <3>1. [god[c] EXCEPT !.mode = FALSE, !.temp = FALSE] \in GodType
      BY <1>2, Zenon
    <3>2. god' = [god EXCEPT ![c] = [god[c] EXCEPT !.mode = FALSE, !.temp = FALSE]]
      BY <2>6 DEF MoveOrShoot, LifeIInv, OtherTypes
    <3> QED BY <2>1, <3>1, <3>2
  <2>7. CASE AdminGod(c)
    <3>1. [god[c] EXCEPT !.mode = ~god[c].mode] \in GodType
      BY <1>2, Zenon
    <3>2. god' = [god EXCEPT ![c] = [god[c] EXCEPT !.mode = ~god[c].mode]]
      BY <2>7 DEF AdminGod
    <3> QED BY <2>1, <3>1, <3>2
  <2> QED BY <2>2, <2>3, <2>4, <2>5, <2>6, <2>7 DEF ClientDeleted
<1> QED BY <1>1, <1>3, <1>4 DEF LifeIInv, OtherTypes, Alive, Fast

\* Every step keeps the invariant.
LEMMA LifeNextIInv == ASSUME LifeAssumption, "snared" \in Effects
                  PROVE  LifeIInv /\ [LifeNext]_lifeVars => LifeIInv'
<1> SUFFICES ASSUME LifeIInv, [LifeNext]_lifeVars PROVE LifeIInv'
  OBVIOUS
<1>1. CASE UNCHANGED lifeVars
  BY <1>1 DEF lifeVars, LifeIInv, Alive, Fast, OtherTypes
<1>2. ASSUME NEW c \in Fighters,
             \/ \E n \in 1 .. Whole, b \in {0, 41} : Damage(c, n, b)
             \/ Kill(c) \/ Respawn(c)
             \/ UpdateResources(c) \/ Heal(c)
             \/ \E stops \in {40, 120} : UseMedical(c, stops)
             \/ \E meal \in Meals : Eat(c, meal)
      PROVE  LifeIInv'
  BY <1>2, DamageStep, KillStep, RespawnStep, UpdateResourcesStep, HealStep, UseMedicalStep, EatStep
<1>3. ASSUME NEW c \in Fighters,
             \/ \E e \in Effects : Sniff(c, e) \/ ModifierEnds(c, e)
             \/ \E placer \in Fighters : Snare(c, placer)
      PROVE  LifeIInv'
  BY <1>3, SniffStep, ModifierEndsStep, SnareStep
<1>4. ASSUME NEW c \in Fighters,
             \/ ClientIsReady(c) \/ LoadingFinished(c) \/ GodModeEnds(c)
             \/ MoveOrShoot(c) \/ AdminGod(c) \/ ClientDeleted(c)
      PROVE  LifeIInv'
  BY <1>4, ClientStep
<1> QED BY <1>1, <1>2, <1>3, <1>4 DEF LifeNext

\* IInv holds in every state.
LEMMA LifeInvariant == ASSUME LifeAssumption, "snared" \in Effects PROVE LifeSpec => []LifeIInv
<1> QED BY LifeInitIInv, LifeNextIInv, PTL DEF LifeSpec

\* The resources stay within their scales, and healing within its ticks.
THEOREM LifeTypeCorrect ==
    ASSUME LifeAssumption, "snared" \in Effects PROVE LifeSpec => []LifeTypeOK
<1> QED BY LifeInvariant, Implied, PTL

\* The living have health and stand, the dead lie, in whatever order damage,
\* healing, death and respawn come.
THEOREM LivingHaveHealth ==
    ASSUME LifeAssumption, "snared" \in Effects PROVE LifeSpec => []AliveOrDown
<1> QED BY LifeInvariant, Implied, PTL

\* The speed of a client is multiplied by the modifiers it has, and each of
\* them has a timer that will end it.
THEOREM SpeedAlwaysRestored ==
    ASSUME LifeAssumption, "snared" \in Effects PROVE LifeSpec => []SpeedIsRestored
<1> QED BY LifeInvariant, Implied, PTL

-----------------------------------------------------------------------------
(* The explosives. *)

BlastIInv == BlastTypeOK /\ ExplodesOnce

\* An explosion, whatever brought it about, and whatever the blasts before it
\* have still to come to.
LEMMA ExplodeStep ==
  ASSUME BlastIInv,
         NEW e \in Charges,
         NEW after \in [Charges -> SUBSET Charges],
         \A x \in Charges : after[x] \subseteq reached[x],
         Explode(e, after)
  PROVE  /\ charge' = IF e \in Armed THEN [charge EXCEPT ![e] = "exploded"] ELSE charge
         /\ charge'[e] \notin {"mine", "bomb"}
         /\ reached' \in [Charges -> SUBSET Charges]
         /\ \A x \in Charges :
               /\ reached'[x] \subseteq Near[x] \ {x}
               /\ reached'[x] # {} => charge'[x] = "exploded"
               /\ \A f \in reached'[x] : charge'[f] # "none"
         /\ \A x \in atVehicles' : x \in Charges /\ charge'[x] = "exploded"
         /\ booms' \in [Charges -> Nat]
         /\ ExplodesOnce'
<1> USE DEF BlastIInv
<1>1. CASE e \in Armed
  <2>1. /\ charge' = [charge EXCEPT ![e] = "exploded"]
        /\ booms' = [booms EXCEPT ![e] = @ + 1]
        /\ ExplosionDamage(e, after)
    BY <1>1 DEF Explode
  <2>2. reached[e] = {} /\ e \notin atVehicles
    BY <1>1 DEF BlastTypeOK, Armed
  <2>3. /\ \/ reached' = after
           \/ reached' = [after EXCEPT ![e] = (Armed \cap Near[e]) \ {e}]
        /\ atVehicles' \subseteq atVehicles \cup {e}
    BY <2>1 DEF ExplosionDamage
  <2>4. reached' \in [Charges -> SUBSET Charges]
    BY <2>3 DEF Armed
  <2>5. \A x \in Charges :
               /\ reached'[x] \subseteq Near[x] \ {x}
               /\ reached'[x] # {} => charge'[x] = "exploded"
               /\ \A f \in reached'[x] : charge'[f] # "none"
    BY <2>1, <2>2, <2>3 DEF BlastTypeOK, Armed
  <2>6. \A x \in atVehicles' : x \in Charges /\ charge'[x] = "exploded"
    BY <2>1, <2>3 DEF BlastTypeOK
  <2>7. ExplodesOnce' /\ booms' \in [Charges -> Nat]
    BY <1>1, <2>1 DEF BlastTypeOK, ExplodesOnce, Armed
  <2> QED BY <1>1, <2>1, <2>4, <2>5, <2>6, <2>7 DEF BlastTypeOK, Armed
<1>2. CASE e \notin Armed
  BY <1>2 DEF Explode, BlastTypeOK, ExplodesOnce, Armed
<1> QED BY <1>1, <1>2

\* The invariant holds at first.
LEMMA BlastInitIInv ==
  ASSUME BlastAssumption
  PROVE  BlastInit => BlastIInv
BY DEF BlastAssumption, BlastInit, BlastIInv, BlastTypeOK, ExplodesOnce

\* Every step preserves it.
LEMMA BlastStepIInv ==
  ASSUME BlastAssumption, BlastIInv, [BlastNext]_blastVars
  PROVE  BlastIInv'
<1> USE DEF BlastIInv
<1>0. reached \in [Charges -> SUBSET Charges] /\ \A x \in Charges : reached[x] \subseteq reached[x]
  BY DEF BlastTypeOK
<1>1. CASE UNCHANGED blastVars
  BY <1>1 DEF blastVars, BlastTypeOK, ExplodesOnce
<1>2. ASSUME NEW e \in Charges, NEW kind \in {"mine", "bomb"}, PlaceExplosiveEntity(e, kind)
      PROVE  BlastIInv'
  BY <1>2 DEF PlaceExplosiveEntity, BlastTypeOK, ExplodesOnce
<1>3. ASSUME NEW e \in Charges, NEW close \in BOOLEAN, Look(e, close)
      PROVE  BlastIInv'
  <2>1. CASE close
    <3>1. Explode(e, reached) /\ looks' = looks \ {e} /\ UNCHANGED ignited
      BY <1>3, <2>1 DEF Look
    <3> QED BY <1>0, <3>1, ExplodeStep DEF BlastTypeOK
  <2>2. CASE ~close
    BY <1>3, <2>2 DEF Look, BlastTypeOK, ExplodesOnce, Armed
  <2> QED BY <2>1, <2>2
<1>4. ASSUME NEW e \in Charges, IgniteIED(e)
      PROVE  BlastIInv'
  BY <1>4 DEF IgniteIED, BlastTypeOK, ExplodesOnce, BlastAssumption
<1>5. ASSUME NEW e \in Charges, BurnsDown(e)
      PROVE  BlastIInv'
  <2>1. Explode(e, reached) /\ ignited' \in [Charges -> 0 .. MaxIgnited] /\ UNCHANGED looks
    BY <1>5 DEF BurnsDown, BlastTypeOK, BlastAssumption
  <2> QED BY <1>0, <2>1, ExplodeStep DEF BlastTypeOK
<1>6. ASSUME NEW e \in Charges, Shot(e)
      PROVE  BlastIInv'
  <2>1. Explode(e, reached) /\ UNCHANGED <<looks, ignited>>
    BY <1>6 DEF Shot
  <2> QED BY <1>0, <2>1, ExplodeStep DEF BlastTypeOK
<1>7. ASSUME NEW e \in Charges, RemoveExplosive(e)
      PROVE  BlastIInv'
  BY <1>7 DEF RemoveExplosive, BlastTypeOK, ExplodesOnce, Armed
<1>8. ASSUME NEW e \in Charges, NEW f \in Charges, BlastReaches(e, f)
      PROVE  BlastIInv'
  <2> DEFINE after == [reached EXCEPT ![e] = @ \ {f}]
  <2>1. Explode(f, after) /\ UNCHANGED <<looks, ignited>>
    BY <1>8 DEF BlastReaches
  <2>2. after \in [Charges -> SUBSET Charges]
        /\ \A x \in Charges : after[x] \subseteq reached[x]
    BY DEF BlastTypeOK
  <2> HIDE DEF after
  <2> QED BY <2>1, <2>2, ExplodeStep DEF BlastTypeOK
<1>9. ASSUME NEW e \in Charges, VehiclesDone(e)
      PROVE  BlastIInv'
  <2>1. /\ e \in atVehicles /\ atVehicles' = atVehicles \ {e}
        /\ \/ reached' = [reached EXCEPT ![e] = (Armed \cap Near[e]) \ {e}]
           \/ reached' = reached
        /\ UNCHANGED <<charge, looks, ignited, booms>>
    BY <1>9 DEF VehiclesDone
  <2> QED BY <2>1 DEF BlastTypeOK, ExplodesOnce, Armed
<1> QED BY <1>1, <1>2, <1>3, <1>4, <1>5, <1>6, <1>7, <1>8, <1>9 DEF BlastNext

-----------------------------------------------------------------------------
(* The theorems about the parts. *)

\* The type invariant of the link: a zone connection of the login server has a
\* client record that its ping timer looks at, unless the zone was refused.
THEOREM LinkTypeCorrect ==
  ASSUME LinkAssumption
  PROVE  LinkSpec => []LinkTypeOK
<1>1. LinkIInv => LinkTypeOK
  BY DEF LinkIInv
<1> QED BY <1>1, LinkInitIInv, LinkNextIInv, PTL DEF LinkSpec

\* Without faults neither end drops the other, however the two timers of five
\* seconds are out of phase (ping, the timeout of twelve seconds).
THEOREM LinkIsKept ==
  ASSUME LinkAssumption
  PROVE  LinkSpec => KeptWithoutFaults
<1>1. ASSUME LinkIInv, [LinkNext]_linkVars
      PROVE  [accepted /\ linkFaults' = 0 =>
                /\ ownEnd.session => ownEnd'.session
                /\ loginEnd.conn => loginEnd'.conn]_linkVars
  BY <1>1, LinkStepKept
<1> QED BY <1>1, LinkInitIInv, LinkNextIInv, PTL DEF LinkSpec, KeptWithoutFaults

\* The type invariant of the explosives: a mine that is there keeps looking.
THEOREM BlastTypeCorrect ==
  ASSUME BlastAssumption
  PROVE  BlastSpec => []BlastTypeOK
<1>1. BlastIInv => BlastTypeOK
  BY DEF BlastIInv
<1> QED BY <1>1, BlastInitIInv, BlastStepIInv, PTL DEF BlastSpec

\* An explosive explodes at most once (explodeExplosive).
THEOREM OneExplosion ==
  ASSUME BlastAssumption
  PROVE  BlastSpec => []ExplodesOnce
<1>1. BlastIInv => ExplodesOnce
  BY DEF BlastIInv
<1> QED BY <1>1, BlastInitIInv, BlastStepIInv, PTL DEF BlastSpec

-----------------------------------------------------------------------------
(* The zone server.  Its parts share no variable: a step of one of them is a *)
(* stuttering step of the others.                                            *)

\* The constants are as the parts assume them.
ZoneAssumption == Bounds /\ "snared" \in Effects

ZoneIInv == IInv /\ Owned /\ LinkIInv /\ LifeIInv /\ BlastIInv

\* A step of the zone server is a step or a stutter of each part.
LEMMA ZoneStep ==
  ASSUME [SessionsStep \/ LinkStep \/ LifeStep \/ BlastStep]_zoneVars
  PROVE  [Next]_vars /\ [LinkNext]_linkVars /\ [LifeNext]_lifeVars /\ [BlastNext]_blastVars
<1>1. CASE SessionsStep
  BY <1>1 DEF SessionsStep
<1>2. CASE LinkStep
  BY <1>2 DEF LinkStep, Linked
<1>3. CASE LifeStep
  BY <1>3 DEF LifeStep
<1>4. CASE BlastStep
  BY <1>4 DEF BlastStep
<1>5. CASE UNCHANGED zoneVars
  BY <1>5 DEF zoneVars
<1> QED BY <1>1, <1>2, <1>3, <1>4, <1>5

\* The invariants of the parts hold together.
LEMMA ZoneInvariant ==
  ASSUME ZoneAssumption
  PROVE  ZoneSpec => []ZoneIInv
<1>1. ZoneInit => ZoneIInv
  BY PartsAssumption, InitIInv, OwnedKept, LinkInitIInv, LifeInitIInv, BlastInitIInv
     DEF ZoneInit, ZoneIInv, ZoneAssumption
<1>2. ASSUME ZoneIInv, [SessionsStep \/ LinkStep \/ LifeStep \/ BlastStep]_zoneVars
      PROVE  ZoneIInv'
  BY <1>2, PartsAssumption, ZoneStep, NextIInv, OwnedKept, LinkNextIInv, LifeNextIInv, BlastStepIInv
     DEF ZoneIInv, ZoneAssumption
<1> QED BY <1>1, <1>2, PTL DEF ZoneSpec

\* The type invariants of all parts hold together: what one part does leaves
\* what another relies on.
THEOREM ZoneTypesCorrect ==
  ASSUME ZoneAssumption
  PROVE  ZoneSpec => []TypesOK
<1>1. ZoneIInv => TypesOK
  BY Implied DEF ZoneIInv, TypesOK, IInv, LinkIInv, BlastIInv
<1> QED BY <1>1, ZoneInvariant, PTL

\* The safety of the parts is the safety of the whole.
THEOREM ZoneIsSafe ==
  ASSUME ZoneAssumption
  PROVE  ZoneSpec => [](Watched /\ AliveOrDown /\ SpeedIsRestored /\ ExplodesOnce)
<1>1. ZoneIInv => Watched /\ AliveOrDown /\ SpeedIsRestored /\ ExplodesOnce
  BY Implied DEF ZoneIInv, IInv, BlastIInv
<1> QED BY <1>1, ZoneInvariant, PTL

\* And so is what their steps may never do.
THEOREM ZoneStepsAreSafe ==
  ASSUME ZoneAssumption
  PROVE  ZoneSpec => ThrownOutByOwnAddress /\ KeptWithoutFaults
<1> DEFINE Z == [SessionsStep \/ LinkStep \/ LifeStep \/ BlastStep]_zoneVars
           T == \A p \in Players :
                  In(p) /\ player'[p] = player[p] /\ ~In(p)'
                    => \/ faults' # faults
                       \/ \E o \in Clients : Predecessor(p, o) /\ ~client'[o].ping
           K == accepted /\ linkFaults' = 0 =>
                  /\ ownEnd.session => ownEnd'.session
                  /\ loginEnd.conn => loginEnd'.conn
<1>1. ASSUME ZoneIInv, Z
      PROVE  [T]_vars /\ [K]_linkVars
  <2>1. [Next]_vars /\ [LinkNext]_linkVars
    BY <1>1, ZoneStep
  <2>2. [T]_vars
    BY <1>1, <2>1, StepThrowsOut DEF ZoneIInv
  <2>3. [K]_linkVars
    BY <1>1, <2>1, LinkStepKept, PartsAssumption DEF ZoneIInv
  <2> QED BY <2>2, <2>3
<1> QED BY <1>1, ZoneInvariant, PTL
        DEF ZoneSpec, ThrownOutByOwnAddress, KeptWithoutFaults
=============================================================================
