----------------------------- MODULE H1emuLink -----------------------------
(***************************************************************************)
(* The connection between a zone server and the login server: the classes  *)
(* of servers/H1emuServer/ and the handlers LoginServer registers on them. *)
(* Both ends keep a client record with the time of the last ping, and a    *)
(* timer of 5 s that looks for records older than 12 s.  The zone asks for *)
(* a session until it gets one and pings from then on.  UDP datagrams get  *)
(* lost, and both processes may restart.                                   *)
(*                                                                         *)
(* Time is counted in timer periods.  The timers of the two ends are not   *)
(* in phase, so a record of age k (periods) is between 5(k-1) and 5(k+1)   *)
(* seconds old: it may be found older than 12 s from age 2 on, and is from *)
(* age 4 on.  A datagram is delivered or lost, and a database update done, *)
(* within a period.                                                        *)
(***************************************************************************)
EXTENDS Integers

CONSTANTS
  MaxRetry,      \* attempts to connect before the zone gives up (10)
  MaxLinkFaults, \* bound: datagrams lost, restarts, the stop of the zone
  MayRevoke      \* whether the zone may lose its right to connect

\* What is assumed of the constants.
LinkAssumption ==
  /\ MaxRetry \in Nat \ {0}
  /\ MaxLinkFaults \in Nat
  /\ MayRevoke \in BOOLEAN

OldestAge == 4
MayBeOld(age) == age >= 2
IsOld(age)    == age >= OldestAge

VARIABLES
  ownEnd,        \* the zone's H1emuZoneServer, see ZoneType
  loginEnd,      \* the login's H1emuLoginServer and its handlers
  toLogin,       \* datagrams on their way to the login server
  toZone,        \* datagrams on their way to the zone
  accepted,      \* whitelisted, with a version the login accepts
  linkFaults     \* faults so far

linkVars == <<ownEnd, loginEnd, toLogin, toZone, accepted, linkFaults>>

ZoneType ==
  [up      : BOOLEAN,             \* the process runs
   session : BOOLEAN,             \* _loginConnection, a client with a session
   lastPing : 0..OldestAge,       \* age of the client's lastPing
   retries : 0..(MaxRetry + 1),   \* _maxConnectionRetry, capped
   been    : BOOLEAN,             \* _hasBeenConnectedToLogin
   timer   : BOOLEAN,             \* _pingTimer is armed
   due     : BOOLEAN]             \* and has expired in this period

LoginType ==
  [known   : BOOLEAN,             \* the zone's entry in _clients
   lastPing : 0..OldestAge,       \* age of its lastPing
   conn    : BOOLEAN,             \* its entry in _zoneConnections
   updating : BOOLEAN,            \* "allowedAccess" is being stored
   due     : BOOLEAN]             \* the timer has expired in this period

Aged(age) == IF age < OldestAge THEN age + 1 ELSE age

(***************************************************************************)
(* The zone.                                                               *)
(***************************************************************************)

\* connect(): the request is sent and counted.  After too many of them it
\* throws, if the zone never had a session; the zone server's handler of
\* uncaught exceptions logs that and the process goes on.
Connect(z) ==
  [z EXCEPT !.retries = IF @ <= MaxRetry THEN @ + 1 ELSE @]
Throws(z) == ~z.been /\ z.retries > MaxRetry

\* A zone that has just started: start() connects and arms the timer.
StartedZone ==
  [Connect([up |-> TRUE, session |-> FALSE, lastPing |-> 0, retries |-> 0,
            been |-> FALSE, timer |-> TRUE, due |-> FALSE])
     EXCEPT !.timer = TRUE]

\* Mutant: a zone that has timed out keeps its session.
PingTimerWithSessionKept ==
  /\ ownEnd.up /\ ownEnd.due /\ ownEnd.session
  /\ toLogin' = toLogin \cup {"Ping"}
  /\ ownEnd' = [ownEnd EXCEPT !.due = FALSE]
  /\ UNCHANGED <<loginEnd, toZone, accepted, linkFaults>>

\* The timer of the zone, with a session: ping() sends a ping, and closes
\* the connection if the login server's last ping is too old.
PingTimerWithSession ==
  /\ ownEnd.up /\ ownEnd.due /\ ownEnd.session
  /\ toLogin' = toLogin \cup {"Ping"}
  /\ \/ ~IsOld(ownEnd.lastPing) /\ ownEnd' = [ownEnd EXCEPT !.due = FALSE]
     \/ MayBeOld(ownEnd.lastPing) /\ ownEnd' = [ownEnd EXCEPT !.due = FALSE,
                                                       !.session = FALSE]
  /\ UNCHANGED <<loginEnd, toZone, accepted, linkFaults>>

\* Without a session: connect().  If it throws, the timer is not armed again.
PingTimerWithoutSession ==
  /\ ownEnd.up /\ ownEnd.due /\ ~ownEnd.session
  /\ toLogin' = toLogin \cup {"SessionRequest"}
  /\ LET z == Connect([ownEnd EXCEPT !.due = FALSE])
     IN  ownEnd' = [z EXCEPT !.timer = ~Throws(z)]
  /\ UNCHANGED <<loginEnd, toZone, accepted, linkFaults>>

\* A SessionReply opens the session, unless there is one.  (Only status 1 is
\* ever sent.)
ZoneReceivesSessionReply ==
  /\ ownEnd.up /\ "SessionReply" \in toZone
  /\ toZone' = toZone \ {"SessionReply"}
  /\ ownEnd' = IF ownEnd.session THEN ownEnd
             ELSE [ownEnd EXCEPT !.session = TRUE, !.been = TRUE, !.lastPing = 0]
  /\ UNCHANGED <<loginEnd, toLogin, accepted, linkFaults>>

\* A ping is taken note of if it comes from a known client.
ZoneReceivesPing ==
  /\ ownEnd.up /\ "Ping" \in toZone
  /\ toZone' = toZone \ {"Ping"}
  /\ ownEnd' = IF ownEnd.session THEN [ownEnd EXCEPT !.lastPing = 0] ELSE ownEnd
  /\ UNCHANGED <<loginEnd, toLogin, accepted, linkFaults>>

(***************************************************************************)
(* The login server.                                                       *)
(***************************************************************************)

\* A request creates the client record if there is none (an existing one
\* keeps its lastPing).  A zone with the right to connect is entered in
\* _zoneConnections and gets its reply when the database is updated; from
\* any other, the record is deleted and there is no reply.
LoginReceivesSessionRequest ==
  /\ "SessionRequest" \in toLogin
  /\ toLogin' = toLogin \ {"SessionRequest"}
  /\ loginEnd' = IF accepted
              THEN [loginEnd EXCEPT !.known = TRUE, !.conn = TRUE, !.updating = TRUE,
                                 !.lastPing = IF loginEnd.known THEN @ ELSE 0]
              ELSE [loginEnd EXCEPT !.known = FALSE]
  /\ UNCHANGED <<ownEnd, toZone, accepted, linkFaults>>

ServerUpdated ==
  /\ loginEnd.updating
  /\ loginEnd' = [loginEnd EXCEPT !.updating = FALSE]
  /\ toZone' = toZone \cup {"SessionReply"}
  /\ UNCHANGED <<ownEnd, toLogin, accepted, linkFaults>>

\* Mutant: a ping is answered, and not taken note of.
LoginReceivesPingOnlyAnswers ==
  /\ "Ping" \in toLogin
  /\ toLogin' = toLogin \ {"Ping"}
  /\ toZone' = IF loginEnd.known THEN toZone \cup {"Ping"} ELSE toZone
  /\ UNCHANGED <<ownEnd, loginEnd, accepted, linkFaults>>

\* A ping of a known client is noted and answered, another one rejected.
LoginReceivesPing ==
  /\ "Ping" \in toLogin
  /\ toLogin' = toLogin \ {"Ping"}
  /\ \/ /\ loginEnd.known
        /\ loginEnd' = [loginEnd EXCEPT !.lastPing = 0]
        /\ toZone' = toZone \cup {"Ping"}
     \/ ~loginEnd.known /\ UNCHANGED <<loginEnd, toZone>>
  /\ UNCHANGED <<ownEnd, accepted, linkFaults>>

\* Mutant: the client is deleted, its entry in _zoneConnections is not.
LoginTimerKeepsConnection ==
  /\ loginEnd.due
  /\ \/ /\ ~loginEnd.known \/ ~IsOld(loginEnd.lastPing)
        /\ loginEnd' = [loginEnd EXCEPT !.due = FALSE]
     \/ /\ loginEnd.known /\ MayBeOld(loginEnd.lastPing)
        /\ loginEnd' = [loginEnd EXCEPT !.due = FALSE, !.known = FALSE]
  /\ UNCHANGED <<ownEnd, toLogin, toZone, accepted, linkFaults>>

\* The timer of the login server: "disconnect" for a client whose last ping
\* is too old, and the client is deleted.
LoginTimer ==
  /\ loginEnd.due
  /\ \/ /\ ~loginEnd.known \/ ~IsOld(loginEnd.lastPing)
        /\ loginEnd' = [loginEnd EXCEPT !.due = FALSE]
     \/ /\ loginEnd.known /\ MayBeOld(loginEnd.lastPing)
        /\ loginEnd' = [loginEnd EXCEPT !.due = FALSE, !.known = FALSE, !.conn = FALSE]
  /\ UNCHANGED <<ownEnd, toLogin, toZone, accepted, linkFaults>>

(***************************************************************************)
(* Time and faults.                                                        *)
(***************************************************************************)

\* The next period starts when the timers have fired and nothing is on its
\* way.
Tick ==
  /\ toLogin = {} /\ toZone = {} /\ ~loginEnd.updating
  /\ ~(ownEnd.up /\ ownEnd.due) /\ ~loginEnd.due
  /\ ownEnd' = [ownEnd EXCEPT !.due = ownEnd.timer, !.lastPing = Aged(@)]
  /\ loginEnd' = [loginEnd EXCEPT !.due = TRUE, !.lastPing = Aged(@)]
  /\ UNCHANGED <<toLogin, toZone, accepted, linkFaults>>

\* What arrives at a process that does not run is gone.
LoseWhatArrivesAtStopped ==
  /\ ~ownEnd.up /\ toZone # {}
  /\ toZone' = {}
  /\ UNCHANGED <<ownEnd, loginEnd, toLogin, accepted, linkFaults>>

Fault == linkFaults < MaxLinkFaults /\ linkFaults' = linkFaults + 1

Lose ==
  /\ Fault
  /\ \/ \E d \in toLogin : toLogin' = toLogin \ {d} /\ UNCHANGED toZone
     \/ \E d \in toZone : toZone' = toZone \ {d} /\ UNCHANGED toLogin
  /\ UNCHANGED <<ownEnd, loginEnd, accepted>>

ZoneRestarts ==
  /\ Fault
  /\ ownEnd' = StartedZone
  /\ toLogin' = toLogin \cup {"SessionRequest"}
  /\ UNCHANGED <<loginEnd, toZone, accepted>>

ZoneStops ==
  /\ Fault
  /\ ownEnd.up
  /\ ownEnd' = [ownEnd EXCEPT !.up = FALSE]
  /\ UNCHANGED <<loginEnd, toLogin, toZone, accepted>>

LoginRestarts ==
  /\ Fault
  /\ loginEnd' = [known |-> FALSE, lastPing |-> 0, conn |-> FALSE,
               updating |-> FALSE, due |-> FALSE]
  /\ UNCHANGED <<ownEnd, toLogin, toZone, accepted>>

\* The zone is taken from the whitelist, or its next version is refused.
Revoke ==
  /\ MayRevoke /\ accepted
  /\ accepted' = FALSE
  /\ UNCHANGED <<ownEnd, loginEnd, toLogin, toZone, linkFaults>>

LinkInit ==
  /\ ownEnd = StartedZone
  /\ loginEnd = [known |-> FALSE, lastPing |-> 0, conn |-> FALSE,
              updating |-> FALSE, due |-> FALSE]
  /\ toLogin = {"SessionRequest"}
  /\ toZone = {}
  /\ accepted = TRUE
  /\ linkFaults = 0

Zone == PingTimerWithSession \/ PingTimerWithoutSession
          \/ ZoneReceivesSessionReply \/ ZoneReceivesPing
Login == LoginReceivesSessionRequest \/ ServerUpdated \/ LoginReceivesPing
           \/ LoginTimer
Faults == Lose \/ ZoneRestarts \/ ZoneStops \/ LoginRestarts

LinkNext == Zone \/ Login \/ Tick \/ LoseWhatArrivesAtStopped \/ Faults \/ Revoke

LinkSpec == LinkInit /\ [][LinkNext]_linkVars

\* The timers fire, the handlers run and time passes.
LinkProgress == Zone \/ Login \/ Tick \/ LoseWhatArrivesAtStopped
LinkFairSpec == LinkSpec /\ WF_linkVars(LinkProgress)

(***************************************************************************)
(* Properties.                                                             *)
(***************************************************************************)

\* The type invariant.  A zone connection is watched by the ping timer of its
\* client record, unless the zone was refused when it asked again: that branch
\* deletes the record and leaves _zoneConnections, and nothing but another
\* request removes the connection.
LinkTypeOK ==
  /\ ownEnd \in ZoneType
  /\ loginEnd \in LoginType
  /\ toLogin \subseteq {"SessionRequest", "Ping"}
  /\ toZone \subseteq {"SessionReply", "Ping"}
  /\ accepted \in BOOLEAN
  /\ linkFaults \in 0..MaxLinkFaults
  /\ ownEnd.session => ownEnd.been
  /\ ownEnd.due => ownEnd.timer
  /\ loginEnd.conn /\ ~loginEnd.known => ~accepted

\* When the faults are over, the two ends agree in the end, if the zone keeps
\* its right to connect: a zone that runs has a session and is a zone
\* connection of the login server, one that has stopped is none.  No
\* half-open connection lasts (ping, the two timers).
AgreeInTheEnd ==
  <>[](accepted => /\ loginEnd.conn = ownEnd.up
                   /\ ownEnd.up => ownEnd.session)

\* As long as nothing fails, an established connection is not dropped: the
\* 5 s and 12 s leave room for the two timers to be out of phase.
KeptWithoutFaults ==
  [][accepted /\ linkFaults' = 0 =>
       /\ ownEnd.session => ownEnd'.session
       /\ loginEnd.conn => loginEnd'.conn]_linkVars
============================================================================
