-------------------------- MODULE LoginCharacters --------------------------
(***************************************************************************)
(* The requests of the character selection: LoginServer's handlers         *)
(* CharacterCreateRequest, CharacterDeleteRequest and                      *)
(* CharacterLoginRequest (servers/LoginServer/loginserver.ts), the         *)
(* requests they make to a zone (askZone) and the zone's handlers of them  *)
(* (servers/ZoneServer2016/zoneserver.ts), with one database each.  Not in *)
(* solo mode.                                                              *)
(*                                                                         *)
(* Handlers are asynchronous: they interleave at every await, that is at   *)
(* every database operation and at askZone.  Requests and replies between  *)
(* the servers are UDP datagrams: they are late and get lost.              *)
(***************************************************************************)
EXTENDS Integers, Sequences, FiniteSets

CONSTANTS
  Handlers,       \* calls of the login server's handlers
  User            \* [handler -> the user (authKey) who sent the request]

ASSUME HandlersAssumption ==
  /\ IsFiniteSet(Handlers)
  /\ 0 \notin Handlers

NoCall == 0       \* no handler waits

VARIABLES
  call,           \* [handler -> its state, see CallType]
  reqCount,       \* _internalReqCount
  pending,        \* _pendingInternalReq: [request -> handler], with timers
  linked,         \* the zone is in _zoneConnections
  toZone,         \* requests on their way to the zone
  toLogin,        \* replies on their way to the login server
  zoneTasks,      \* zone handlers of CharacterCreateRequest past their find
  light,          \* the login's "characters-light", see LightType
  characters      \* the zone's "characters": [character -> its status]

vars == <<call, reqCount, pending, linked, toZone, toLogin, zoneTasks, light,
          characters>>

\* The character created by handler h is called h.
Characters == Handlers

Kinds  == {"create", "delete", "login"}
Stages == {"idle", "ask", "waiting", "store", "done"}

CallType ==
  [kind   : Kinds,
   char   : Characters,
   stage  : Stages,
   ready  : {0, 1},          \* what was found before the zone is asked: the
                             \* character to log in and a link to its zone,
                             \* or the user's own character to delete
   answer : {0, 1}]          \* the zone's answer, then the status replied

Status == {"none", "live", "deleted"}
LightType == [Characters -> Status]

Reqs == 1..Cardinality(Handlers)
Request(h, req) == [kind |-> call[h].kind, char |-> call[h].char, req |-> req]
Reply(req, status) == [req |-> req, status |-> status]

\* The state of a call changes.
Becomes(h, kind, c, stage, ready, answer) ==
  call' = [call EXCEPT ![h] = [kind |-> kind, char |-> c, stage |-> stage,
                               ready |-> ready, answer |-> answer]]
Answer(h, stage, status) ==
  Becomes(h, call[h].kind, call[h].char, stage, call[h].ready, status)
Step(h, stage) == Answer(h, stage, call[h].answer)

(***************************************************************************)
(* The login server's handlers, up to their first database answers.        *)
(***************************************************************************)

\* CharacterCreateRequest, until the user's session is found or stored.
StartCreate(h) ==
  /\ call[h].stage = "idle"
  /\ Becomes(h, "create", h, "ask", 0, 0)
  /\ UNCHANGED <<reqCount, pending, linked, toZone, toLogin, zoneTasks, light,
                 characters>>

\* CharacterDeleteRequest.  The default status of the reply is 1, and stays
\* so if the character is not listed or is another user's.
StartDelete(h, c) ==
  /\ call[h].stage = "idle"
  /\ IF light[c] # "none" /\ User[c] = User[h]
     THEN Becomes(h, "delete", c, "ask", 1, 0)
     ELSE Becomes(h, "delete", c, "done", 0, 1)
  /\ UNCHANGED <<reqCount, pending, linked, toZone, toLogin, zoneTasks, light,
                 characters>>

\* CharacterLoginRequest.  The character is looked for by its id alone.
StartLogin(h, c) ==
  /\ call[h].stage = "idle"
  /\ Becomes(h, "login", c, "ask", IF light[c] # "none" /\ linked THEN 1 ELSE 0, 0)
  /\ UNCHANGED <<reqCount, pending, linked, toZone, toLogin, zoneTasks, light,
                 characters>>

(***************************************************************************)
(* askZone.                                                                *)
(***************************************************************************)

\* Mutant: the requests are not numbered.
NextReqSame == 1

NextReq == reqCount + 1

\* askZone: a new request is sent and waited for, or answered 0 at once if
\* the zone is not connected.
AskZone(h) ==
  /\ call[h].stage = "ask"
  /\ reqCount' = NextReq
  /\ IF linked
     THEN /\ toZone' = toZone \cup {Request(h, NextReq)}
          /\ pending' = [pending EXCEPT ![NextReq] = h]
          /\ Step(h, "waiting")
     ELSE /\ Answer(h, "store", 0)
          /\ UNCHANGED <<toZone, pending>>
  /\ UNCHANGED <<linked, toLogin, zoneTasks, light, characters>>

Waiting(req) == pending[req] \in Handlers

\* Mutant: after the time-out the request may still be answered.
TimeoutKeepsPending(req) ==
  /\ Waiting(req)
  /\ call[pending[req]].stage = "waiting"
  /\ Answer(pending[req], "store", 0)
  /\ UNCHANGED <<reqCount, pending, linked, toZone, toLogin, zoneTasks, light,
                 characters>>

\* No answer within 5 s.
Timeout(req) ==
  /\ Waiting(req)
  /\ pending' = [pending EXCEPT ![req] = NoCall]
  /\ Answer(pending[req], "store", 0)
  /\ UNCHANGED <<reqCount, linked, toZone, toLogin, zoneTasks, light, characters>>

\* "processInternalReq": the answer to a request that is waited for, from a
\* zone the login server knows.
ReceiveReply(r) ==
  /\ r \in toLogin
  /\ toLogin' = toLogin \ {r}
  /\ IF linked /\ Waiting(r.req)
     THEN /\ pending' = [pending EXCEPT ![r.req] = NoCall]
          /\ Answer(pending[r.req], "store", r.status)
     ELSE UNCHANGED <<pending, call>>
  /\ UNCHANGED <<reqCount, linked, toZone, zoneTasks, light, characters>>

(***************************************************************************)
(* The handlers, after the zone's answer: the database is updated if it    *)
(* was positive, and the client gets its reply.                            *)
(***************************************************************************)

\* Mutant: the character is listed whatever the zone answers.
FinishCreateAlways(h) ==
  /\ call[h].stage = "store" /\ call[h].kind = "create"
  /\ light' = [light EXCEPT ![h] = "live"]
  /\ Step(h, "done")
  /\ UNCHANGED <<reqCount, pending, linked, toZone, toLogin, zoneTasks, characters>>

FinishCreate(h) ==
  /\ call[h].stage = "store" /\ call[h].kind = "create"
  /\ light' = IF call[h].answer = 1 THEN [light EXCEPT ![h] = "live"] ELSE light
  /\ Step(h, "done")
  /\ UNCHANGED <<reqCount, pending, linked, toZone, toLogin, zoneTasks, characters>>

FinishDelete(h) ==
  /\ call[h].stage = "store" /\ call[h].kind = "delete"
  /\ light' = IF call[h].answer = 1 THEN [light EXCEPT ![call[h].char] = "deleted"]
              ELSE light
  /\ Step(h, "done")
  /\ UNCHANGED <<reqCount, pending, linked, toZone, toLogin, zoneTasks, characters>>

\* Mutant: the reply only says whether the zone has the character.
FinishLoginUnchecked(h) ==
  /\ call[h].stage = "store" /\ call[h].kind = "login"
  /\ Step(h, "done")
  /\ UNCHANGED <<reqCount, pending, linked, toZone, toLogin, zoneTasks, light,
                 characters>>

FinishLogin(h) ==
  /\ call[h].stage = "store" /\ call[h].kind = "login"
  /\ Answer(h, "done", IF call[h].answer = 1 THEN call[h].ready ELSE 0)
  /\ UNCHANGED <<reqCount, pending, linked, toZone, toLogin, zoneTasks, light,
                 characters>>

(***************************************************************************)
(* The zone's handlers.  A failure of the database is answered 0.          *)
(***************************************************************************)
ZoneReply(req, status) == toLogin' = toLogin \cup {Reply(req, status)}

ZoneDatabaseFails(q) ==
  /\ q \in toZone
  /\ toZone' = toZone \ {q}
  /\ ZoneReply(q.req, 0)
  /\ UNCHANGED <<call, reqCount, pending, linked, zoneTasks, light, characters>>

\* onCharacterCreateRequest, findOne: the character is new, or is there.
ZoneFindsCreate(q) ==
  /\ q \in toZone /\ q.kind = "create"
  /\ toZone' = toZone \ {q}
  /\ IF characters[q.char] = "none"
     THEN zoneTasks' = zoneTasks \cup {q} /\ UNCHANGED toLogin
     ELSE ZoneReply(q.req, 1) /\ UNCHANGED zoneTasks
  /\ UNCHANGED <<call, reqCount, pending, linked, light, characters>>

\* onCharacterCreateRequest, insertOne.
ZoneInserts(q) ==
  /\ q \in zoneTasks
  /\ zoneTasks' = zoneTasks \ {q}
  /\ \/ /\ characters' = [characters EXCEPT ![q.char] = "live"]
        /\ ZoneReply(q.req, 1)
     \/ UNCHANGED characters /\ ZoneReply(q.req, 0)
  /\ UNCHANGED <<call, reqCount, pending, linked, toZone, light>>

\* CharacterExistRequest: found, whatever its status.
ZoneAnswersExist(q) ==
  /\ q \in toZone /\ q.kind = "login"
  /\ toZone' = toZone \ {q}
  /\ ZoneReply(q.req, IF characters[q.char] = "none" THEN 0 ELSE 1)
  /\ UNCHANGED <<call, reqCount, pending, linked, zoneTasks, light, characters>>

\* CharacterDeleteRequest: a character that is not there counts as deleted.
\* (The status is stored before the reply; the find before changes nothing,
\* for a character never leaves the collection.)
ZoneDeletes(q) ==
  /\ q \in toZone /\ q.kind = "delete"
  /\ toZone' = toZone \ {q}
  /\ characters' = IF characters[q.char] = "none" THEN characters
                   ELSE [characters EXCEPT ![q.char] = "deleted"]
  /\ ZoneReply(q.req, 1)
  /\ UNCHANGED <<call, reqCount, pending, linked, zoneTasks, light>>

(***************************************************************************)
(* The link (module H1emuLink).  A datagram that is lost is one that stays *)
(* on its way for ever: nothing makes the receivers take it.               *)
(***************************************************************************)
LinkChanges ==
  /\ linked' = ~linked
  /\ UNCHANGED <<call, reqCount, pending, toZone, toLogin, zoneTasks, light,
                 characters>>

Init ==
  /\ call = [h \in Handlers |-> [kind |-> "create", char |-> h, stage |-> "idle",
                                 ready |-> 0, answer |-> 0]]
  /\ reqCount = 0
  /\ pending = [r \in Reqs |-> NoCall]
  /\ linked = TRUE
  /\ toZone = {}
  /\ toLogin = {}
  /\ zoneTasks = {}
  /\ light = [c \in Characters |-> "none"]
  /\ characters = [c \in Characters |-> "none"]

Start(h) == StartCreate(h) \/ \E c \in Characters : StartDelete(h, c) \/ StartLogin(h, c)
Finish(h) == FinishCreate(h) \/ FinishDelete(h) \/ FinishLogin(h)

LoginServer ==
  \/ \E h \in Handlers : Start(h) \/ AskZone(h) \/ Finish(h)
  \/ \E req \in Reqs : Timeout(req)
  \/ \E r \in toLogin : ReceiveReply(r)

ZoneServer ==
  \/ \E q \in toZone : \/ ZoneDatabaseFails(q) \/ ZoneFindsCreate(q)
                       \/ ZoneAnswersExist(q) \/ ZoneDeletes(q)
  \/ \E q \in zoneTasks : ZoneInserts(q)

Next == LoginServer \/ ZoneServer \/ LinkChanges

Spec == Init /\ [][Next]_vars

\* The handlers go on and the time-outs expire (in which order does not
\* matter, each call makes a few steps only); nothing is assumed of the zone
\* or of the network.
Progress ==
  \/ \E h \in Handlers : AskZone(h) \/ Finish(h)
  \/ \E req \in Reqs : Timeout(req)
FairSpec == Spec /\ WF_vars(Progress)

(***************************************************************************)
(* Properties.                                                             *)
(***************************************************************************)

\* The type invariant.  A request in _pendingInternalReq has one handler, and
\* that handler is waiting for this answer and for no other.
TypeOK ==
  /\ call \in [Handlers -> CallType]
  /\ reqCount \in 0..Cardinality(Handlers)
  /\ pending \in [Reqs -> Handlers \cup {NoCall}]
  /\ linked \in BOOLEAN
  /\ \A q \in toZone \cup zoneTasks :
       q.kind \in Kinds /\ q.char \in Characters /\ q.req \in 1..reqCount
  /\ \A r \in toLogin : r.req \in 1..reqCount /\ r.status \in {0, 1}
  /\ light \in LightType
  /\ characters \in [Characters -> Status]
  /\ \A req \in Reqs : Waiting(req) =>
       /\ req <= reqCount
       /\ call[pending[req]].stage = "waiting"
       /\ \A other \in Reqs : pending[other] = pending[req] => other = req

\* The login server lists no character its zone does not have, and one that is
\* deleted from the list is deleted on the zone too, whatever request is late,
\* lost or timed out, and in whatever order the handlers go on
\* (CharacterCreateRequest, CharacterDeleteRequest, askZone).  The opposite
\* happens: a character created on the zone after the time-out is never listed.
ListAgrees ==
  \A c \in Characters :
    /\ light[c] # "none" => characters[c] # "none"
    /\ light[c] = "deleted" => characters[c] = "deleted"

\* The reply tells the client what happened: a creation that failed lists
\* nothing and one that succeeded does; a character the user owns is deleted
\* when the reply says so; and a login is only granted to a character that
\* both servers have.
RepliesTruthful ==
  \A h \in Handlers : call[h].stage = "done" =>
    LET c == call[h].char
        granted == call[h].answer = 1
    IN  /\ call[h].kind = "create" => (granted <=> light[h] # "none")
        /\ call[h].kind = "delete" /\ call[h].ready = 1 /\ granted =>
             light[c] = "deleted"
        /\ call[h].kind = "login" /\ granted =>
             light[c] # "none" /\ characters[c] # "none"

\* Every request is replied to, even if the zone stops, loses its link, or
\* the datagrams are lost (the time-out of askZone): again and again, and so
\* for ever after the last request, none is left unanswered.
EveryRequestReplied ==
  []<>(\A h \in Handlers : call[h].stage \in {"idle", "done"})
============================================================================
