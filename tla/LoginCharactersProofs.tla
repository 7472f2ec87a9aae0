----------------------- MODULE LoginCharactersProofs -----------------------
(***************************************************************************)
(* Proofs about LoginCharacters, for any number of handlers and users, and *)
(* whatever the network and the databases do.                              *)
(***************************************************************************)
EXTENDS LoginCharacters, FiniteSetTheorems, TLAPS

(***************************************************************************)
(* The inductive invariant.                                                *)
(***************************************************************************)

\* The handlers that have been past askZone, or needed no answer.
Past == {h \in Handlers : call[h].stage \notin {"idle", "ask"}}

\* What a positive answer to handler h means on the zone.
Fulfilled(h) ==
  IF call[h].kind = "delete" THEN characters[call[h].char] = "deleted"
  ELSE characters[call[h].char] # "none"

\* A handler creates the character of its own name; it asks to delete, and lets
\* in, only what is listed; and it stores only what the zone has done.
CallsOK ==
  \A h \in Handlers :
    /\ call[h].stage = "idle" => call[h].ready = 0
    /\ call[h].kind = "create" => call[h].char = h
    /\ call[h].kind = "delete" /\ call[h].stage \in {"ask", "waiting", "store"} =>
         call[h].ready = 1
    /\ call[h].kind # "create" /\ call[h].ready = 1 => light[call[h].char] # "none"
    /\ call[h].stage = "store" /\ call[h].answer = 1 => Fulfilled(h)

\* A request asks what the handler that waits for it wants; a creation asks for
\* a character that is not there, and no other request creates it.
RequestsOK ==
  /\ \A q \in toZone \cup zoneTasks :
       /\ Waiting(q.req) => /\ call[pending[q.req]].kind = q.kind
                            /\ call[pending[q.req]].char = q.char
       /\ q.kind = "create" => /\ characters[q.char] = "none"
                               /\ call[q.char].kind = "create"
                               /\ q.char \in Past
       /\ q.kind = "delete" => characters[q.char] # "none"
  /\ \A q, r \in toZone \cup zoneTasks :
       q.kind = "create" /\ r.kind = "create" /\ q.char = r.char => q = r
  /\ \A q \in zoneTasks : q.kind = "create" /\ q \notin toZone

\* A positive reply that is waited for is true.
RepliesOK ==
  \A r \in toLogin : r.status = 1 /\ Waiting(r.req) => Fulfilled(pending[r.req])

\* What is there was created, and what is listed was reported.
HistoryOK ==
  \A c \in Characters :
    /\ characters[c] # "none" => call[c].kind = "create" /\ c \in Past
    /\ light[c] # "none" => /\ call[c].kind = "create"
                            /\ call[c].stage = "done" /\ call[c].answer = 1

IInv ==
  /\ TypeOK
  /\ reqCount <= Cardinality(Past)
  /\ CallsOK
  /\ RequestsOK
  /\ RepliesOK
  /\ HistoryOK
  /\ ListAgrees
  /\ RepliesTruthful

-----------------------------------------------------------------------------
\* Handlers are counted.
LEMMA PastIsFinite ==
  /\ IsFiniteSet(Past)
  /\ Cardinality(Past) \in Nat
  /\ Cardinality(Handlers) \in Nat
  /\ Cardinality(Past) <= Cardinality(Handlers)
<1>1. Past \subseteq Handlers
  BY DEF Past
<1> QED BY <1>1, HandlersAssumption, FS_Subset, FS_CardinalityType

\* There is one more of them past askZone when h goes on.
LEMMA OneMorePast ==
  ASSUME NEW h \in Handlers, h \notin Past,
         Past' = Past \cup {h}
  PROVE  /\ Cardinality(Past') = Cardinality(Past) + 1
         /\ Cardinality(Past') <= Cardinality(Handlers)
<1>1. Past' \subseteq Handlers
  BY DEF Past
<1>2. Cardinality(Past') <= Cardinality(Handlers)
  BY <1>1, HandlersAssumption, FS_Subset, FS_CardinalityType
<1> QED BY <1>2, PastIsFinite, FS_AddElement

\* None leaves.
LEMMA PastGrows ==
  ASSUME Past \subseteq Past'
  PROVE  Cardinality(Past) <= Cardinality(Past') /\ Cardinality(Past') \in Nat
<1>1. IsFiniteSet(Past')
  BY HandlersAssumption, FS_Subset DEF Past
<1> QED BY <1>1, FS_Subset, FS_CardinalityType

\* The invariant holds at first.
LEMMA InitIInv == Init => IInv
<1> SUFFICES ASSUME Init PROVE IInv
  OBVIOUS
<1>1. TypeOK
  BY PastIsFinite, HandlersAssumption
     DEF Init, TypeOK, CallType, LightType, Kinds, Stages, Status, Characters, Reqs, NoCall, Waiting
<1>2. 0 <= Cardinality(Past)
  BY PastIsFinite
<1> QED BY <1>1, <1>2, HandlersAssumption
        DEF Init, IInv, CallsOK, RequestsOK, RepliesOK, HistoryOK, ListAgrees, RepliesTruthful,
            Characters, Reqs, NoCall, Waiting

\* A creation begins: it concerns nobody else.
LEMMA StartCreateStep ==
  ASSUME IInv, NEW h \in Handlers, StartCreate(h)
  PROVE  IInv'
<1> USE HandlersAssumption
    DEF IInv, TypeOK, Characters, Reqs, NoCall, Waiting, StartCreate, Becomes
<1>1. Past \subseteq Past'
  BY DEF CallType, Past
<1>2. reqCount' <= Cardinality(Past')
  BY <1>1, PastGrows, PastIsFinite
<1>3. TypeOK'
  BY PastIsFinite DEF CallType, LightType, Kinds, Stages, Status, Request, Reply
<1>4. CallsOK'
  BY PastIsFinite DEF CallsOK, RequestsOK, Fulfilled, CallType, Kinds, Status
<1>5. RequestsOK'
  BY PastIsFinite DEF RequestsOK, HistoryOK, Past, CallType
<1>6. RepliesOK'
  BY PastIsFinite DEF RepliesOK, RequestsOK, HistoryOK, ListAgrees, CallsOK, Fulfilled, Reply, CallType, Kinds, LightType
<1>7. HistoryOK'
  BY PastIsFinite DEF HistoryOK, CallsOK, RequestsOK, Past, CallType
<1>8. ListAgrees'
  BY PastIsFinite DEF ListAgrees, CallsOK, RequestsOK, HistoryOK, Fulfilled, LightType, Status, CallType
<1>9. RepliesTruthful'
  BY PastIsFinite DEF RepliesTruthful, CallsOK, RequestsOK, HistoryOK, ListAgrees, Fulfilled, CallType,
         Kinds, LightType, Status
<1> QED BY <1>2, <1>3, <1>4, <1>5, <1>6, <1>7, <1>8, <1>9 DEF IInv

\* A deletion begins, and is over if the character is not the user's own.
LEMMA StartDeleteStep ==
  ASSUME IInv, NEW h \in Handlers, NEW c \in Characters, StartDelete(h, c)
  PROVE  IInv'
<1> USE HandlersAssumption DEF Characters, Reqs, NoCall, Waiting
<1>1. /\ call[h].stage = "idle"
      /\ UNCHANGED <<reqCount, pending, linked, toZone, toLogin, zoneTasks, light, characters>>
  BY DEF StartDelete
<1>2. /\ call' \in [Handlers -> CallType]
      /\ \A g \in Handlers \ {h} : call'[g] = call[g]
      /\ call'[h].kind = "delete" /\ call'[h].char = c
      /\ \/ /\ call'[h].stage = "ask" /\ call'[h].ready = 1
            /\ light[c] # "none"
         \/ call'[h].stage = "done" /\ call'[h].ready = 0
  <2>1. CASE light[c] # "none" /\ User[c] = User[h]
    BY <2>1 DEF IInv, TypeOK, CallType, Kinds, Stages, StartDelete, Becomes
  <2>2. CASE ~(light[c] # "none" /\ User[c] = User[h])
    BY <2>2 DEF IInv, TypeOK, CallType, Kinds, Stages, StartDelete, Becomes
  <2> QED BY <2>1, <2>2
<1>3. Past \subseteq Past' /\ h \notin Past
  BY <1>1, <1>2 DEF Past
<1>4. reqCount' <= Cardinality(Past')
  BY <1>1, <1>3, PastGrows, PastIsFinite DEF IInv, TypeOK
<1>5. TypeOK'
  BY <1>1, <1>2, PastIsFinite DEF IInv, TypeOK
<1>6. CallsOK'
  BY <1>1, <1>2 DEF IInv, TypeOK, CallsOK, Fulfilled
<1>7. RequestsOK'
  BY <1>1, <1>2, <1>3, PastIsFinite DEF IInv, TypeOK, RequestsOK
<1>8. RepliesOK'
  BY <1>1, <1>2, PastIsFinite DEF IInv, TypeOK, RepliesOK, Fulfilled
<1>9. HistoryOK' /\ ListAgrees'
  BY <1>1, <1>2, <1>3 DEF IInv, TypeOK, HistoryOK, ListAgrees, Past
<1>10. RepliesTruthful'
  BY <1>1, <1>2 DEF IInv, TypeOK, RepliesTruthful
<1> QED BY <1>4, <1>5, <1>6, <1>7, <1>8, <1>9, <1>10 DEF IInv

\* A login begins: what it found is listed, and stays listed.
LEMMA StartLoginStep ==
  ASSUME IInv, NEW h \in Handlers, NEW c \in Characters, StartLogin(h, c)
  PROVE  IInv'
<1> USE HandlersAssumption
    DEF IInv, TypeOK, Characters, Reqs, NoCall, Waiting, StartLogin, Becomes
<1>1. Past \subseteq Past'
  BY DEF CallType, Past
<1>2. reqCount' <= Cardinality(Past')
  BY <1>1, PastGrows, PastIsFinite
<1>3. TypeOK'
  BY PastIsFinite DEF CallType, LightType, Kinds, Stages, Status, Request, Reply
<1>4. CallsOK'
  BY PastIsFinite DEF CallsOK, RequestsOK, Fulfilled, CallType, Kinds, Status
<1>5. RequestsOK'
  BY PastIsFinite DEF RequestsOK, HistoryOK, Past, CallType
<1>6. RepliesOK'
  BY PastIsFinite DEF RepliesOK, RequestsOK, HistoryOK, ListAgrees, CallsOK, Fulfilled, Reply, CallType, Kinds, LightType
<1>7. HistoryOK'
  BY PastIsFinite DEF HistoryOK, CallsOK, RequestsOK, Past, CallType
<1>8. ListAgrees'
  BY PastIsFinite DEF ListAgrees, CallsOK, RequestsOK, HistoryOK, Fulfilled, LightType, Status, CallType
<1>9. RepliesTruthful'
  BY PastIsFinite DEF RepliesTruthful, CallsOK, RequestsOK, HistoryOK, ListAgrees, Fulfilled, CallType,
         Kinds, LightType, Status
<1> QED BY <1>2, <1>3, <1>4, <1>5, <1>6, <1>7, <1>8, <1>9 DEF IInv

\* A request is sent: its number is new, and its handler one more in Past.
LEMMA AskZoneStep ==
  ASSUME IInv, NEW h \in Handlers, AskZone(h)
  PROVE  IInv'
<1> USE HandlersAssumption DEF Characters, Reqs, NoCall, Waiting
<1>1. h \notin Past /\ Past' = Past \cup {h}
  BY DEF IInv, TypeOK, CallType, Past, AskZone, Step, Answer, Becomes
<1>2. /\ reqCount \in Nat /\ reqCount' = reqCount + 1
      /\ reqCount' <= Cardinality(Past') /\ reqCount' <= Cardinality(Handlers)
  <2>1. reqCount \in Nat /\ reqCount <= Cardinality(Past) /\ reqCount' = reqCount + 1
    BY PastIsFinite DEF IInv, TypeOK, AskZone, NextReq
  <2>2. /\ Cardinality(Past') = Cardinality(Past) + 1
        /\ Cardinality(Past') <= Cardinality(Handlers)
    BY <1>1, OneMorePast
  <2> QED BY <2>1, <2>2, PastIsFinite
<1>3. reqCount' \in Reqs
  BY <1>2, PastIsFinite
<1>4. /\ call' \in [Handlers -> CallType]
      /\ \A g \in Handlers \ {h} : call'[g] = call[g]
      /\ call'[h].kind = call[h].kind /\ call'[h].char = call[h].char
      /\ call'[h].ready = call[h].ready
      /\ call'[h].stage = IF linked THEN "waiting" ELSE "store"
      /\ ~linked => call'[h].answer = 0
  BY DEF IInv, TypeOK, CallType, Stages, AskZone, Step, Answer, Becomes
<1>5. \A req \in Reqs : pending[req] # h /\ (Waiting(req) => req # reqCount')
  BY <1>2 DEF IInv, TypeOK, AskZone
<1>6. /\ pending' \in [Reqs -> Handlers \cup {NoCall}]
      /\ linked => pending'[reqCount'] = h
      /\ \A req \in Reqs : pending'[req] = pending[req] \/ (linked /\ req = reqCount')
  <2>1. CASE linked
    BY <1>3, <2>1 DEF IInv, TypeOK, AskZone, NextReq
  <2>2. CASE ~linked
    BY <2>2 DEF IInv, TypeOK, AskZone
  <2> QED BY <2>1, <2>2
<1>7. /\ \A q \in toZone' : \/ q \in toZone
                            \/ linked /\ q = Request(h, reqCount')
      /\ UNCHANGED <<linked, toLogin, zoneTasks, light, characters>>
      /\ call[h].stage = "ask"
  BY DEF AskZone, NextReq
<1>8. TypeOK'
  <2>1. \A q \in toZone' \cup zoneTasks' :
          q.kind \in Kinds /\ q.char \in Characters /\ q.req \in 1..reqCount'
    BY <1>2, <1>7 DEF IInv, TypeOK, Request, CallType
  <2>2. \A r \in toLogin' : r.req \in 1..reqCount' /\ r.status \in {0, 1}
    BY <1>2, <1>7 DEF IInv, TypeOK
  <2>3. \A req \in Reqs : Waiting(req)' =>
          /\ req <= reqCount'
          /\ call'[pending'[req]].stage = "waiting"
          /\ \A other \in Reqs : pending'[other] = pending'[req] => other = req
    BY <1>2, <1>3, <1>4, <1>5, <1>6 DEF IInv, TypeOK
  <2> QED BY <2>1, <2>2, <2>3, <1>2, <1>4, <1>6, <1>7, PastIsFinite DEF IInv, TypeOK
<1>9. CallsOK'
  BY <1>4, <1>7 DEF IInv, TypeOK, CallsOK, Fulfilled
<1>10. RequestsOK'
  <2> DEFINE new == Request(h, reqCount')
  <2>1. /\ new.kind = call[h].kind /\ new.char = call[h].char /\ new.req = reqCount'
        /\ new.kind = "create" => new.char = h /\ characters[h] = "none"
        /\ new.kind = "delete" => characters[new.char] # "none"
    BY <1>1, <1>7 DEF IInv, TypeOK, CallType, CallsOK, HistoryOK, ListAgrees, Request
  <2>2. \A q \in toZone \cup zoneTasks : q.kind = "create" => q.char \in Past /\ q.char # h
    BY <1>1 DEF IInv, RequestsOK
  <2>3. \A q \in toZone \cup zoneTasks : q.req \in Reqs /\ q.req # reqCount' /\ q.char \in Handlers
    BY <1>2, PastIsFinite DEF IInv, TypeOK
  <2> HIDE DEF new
  <2>4. \A q \in toZone' \cup zoneTasks' : q \in toZone \cup zoneTasks \/ (linked /\ q = new)
    BY <1>7 DEF new
  <2>5. \A q \in toZone' \cup zoneTasks' :
          Waiting(q.req)' => /\ call'[pending'[q.req]].kind = q.kind
                             /\ call'[pending'[q.req]].char = q.char
    BY <1>4, <1>5, <1>6, <2>1, <2>3, <2>4 DEF IInv, TypeOK, RequestsOK
  <2>6. \A q \in toZone' \cup zoneTasks' :
          /\ q.kind = "create" => /\ characters'[q.char] = "none"
                                  /\ call'[q.char].kind = "create"
                                  /\ q.char \in Past'
          /\ q.kind = "delete" => characters'[q.char] # "none"
    BY <1>1, <1>4, <1>7, <2>1, <2>2, <2>3, <2>4 DEF IInv, RequestsOK
  <2>7. \A q, r \in toZone' \cup zoneTasks' :
          q.kind = "create" /\ r.kind = "create" /\ q.char = r.char => q = r
    BY <2>1, <2>2, <2>4 DEF IInv, RequestsOK
  <2>8. \A q \in zoneTasks' : q.kind = "create" /\ q \notin toZone'
    BY <1>7, <2>1, <2>2 DEF IInv, RequestsOK, new
  <2> QED BY <2>5, <2>6, <2>7, <2>8 DEF RequestsOK
<1>11. RepliesOK'
  BY <1>2, <1>4, <1>5, <1>6, <1>7, PastIsFinite DEF IInv, TypeOK, RepliesOK, Fulfilled
<1>12. HistoryOK'
  BY <1>1, <1>4, <1>7 DEF IInv, TypeOK, HistoryOK
<1>13. ListAgrees' /\ RepliesTruthful'
  BY <1>4, <1>7 DEF IInv, TypeOK, ListAgrees, RepliesTruthful
<1> QED BY <1>2, <1>8, <1>9, <1>10, <1>11, <1>12, <1>13 DEF IInv

\* A character is listed when it is there.
LEMMA FinishCreateStep ==
  ASSUME IInv, NEW h \in Handlers, FinishCreate(h)
  PROVE  IInv'
<1> USE HandlersAssumption
    DEF IInv, TypeOK, Characters, Reqs, NoCall, Waiting, FinishCreate, Step, Answer, Becomes
<1>1. Past \subseteq Past'
  BY DEF CallType, Past
<1>2. reqCount' <= Cardinality(Past')
  BY <1>1, PastGrows, PastIsFinite
<1>3. TypeOK'
  BY PastIsFinite DEF CallType, LightType, Kinds, Stages, Status, Request, Reply
<1>4. CallsOK'
  BY PastIsFinite DEF CallsOK, RequestsOK, Fulfilled, CallType, Kinds, Status
<1>5. RequestsOK'
  BY PastIsFinite DEF RequestsOK, HistoryOK, Past, CallType
<1>6. RepliesOK'
  BY PastIsFinite DEF RepliesOK, RequestsOK, HistoryOK, ListAgrees, CallsOK, Fulfilled, Reply, CallType, Kinds, LightType
<1>7. HistoryOK'
  BY PastIsFinite DEF HistoryOK, CallsOK, RequestsOK, Past, CallType
<1>8. ListAgrees'
  BY PastIsFinite DEF ListAgrees, CallsOK, RequestsOK, HistoryOK, Fulfilled, LightType, Status, CallType
<1>9. RepliesTruthful'
  BY PastIsFinite DEF RepliesTruthful, CallsOK, RequestsOK, HistoryOK, ListAgrees, Fulfilled, CallType,
         Kinds, LightType, Status
<1> QED BY <1>2, <1>3, <1>4, <1>5, <1>6, <1>7, <1>8, <1>9 DEF IInv

\* A character is deleted from the list when it is on the zone.
LEMMA FinishDeleteStep ==
  ASSUME IInv, NEW h \in Handlers, FinishDelete(h)
  PROVE  IInv'
<1> USE HandlersAssumption
    DEF IInv, TypeOK, Characters, Reqs, NoCall, Waiting, FinishDelete, Step, Answer, Becomes
<1>1. Past \subseteq Past'
  BY DEF CallType, Past
<1>2. reqCount' <= Cardinality(Past')
  BY <1>1, PastGrows, PastIsFinite
<1>3. TypeOK'
  BY PastIsFinite DEF CallType, LightType, Kinds, Stages, Status, Request, Reply
<1>4. CallsOK'
  BY PastIsFinite DEF CallsOK, RequestsOK, Fulfilled, CallType, Kinds, Status
<1>5. RequestsOK'
  BY PastIsFinite DEF RequestsOK, HistoryOK, Past, CallType
<1>6. RepliesOK'
  BY PastIsFinite DEF RepliesOK, RequestsOK, HistoryOK, ListAgrees, CallsOK, Fulfilled, Reply, CallType, Kinds, LightType
<1>7. HistoryOK'
  BY PastIsFinite DEF HistoryOK, CallsOK, RequestsOK, Past, CallType
<1>8. ListAgrees'
  BY PastIsFinite DEF ListAgrees, CallsOK, RequestsOK, HistoryOK, Fulfilled, LightType, Status, CallType
<1>9. RepliesTruthful'
  BY PastIsFinite DEF RepliesTruthful, CallsOK, RequestsOK, HistoryOK, ListAgrees, Fulfilled, CallType,
         Kinds, LightType, Status
<1> QED BY <1>2, <1>3, <1>4, <1>5, <1>6, <1>7, <1>8, <1>9 DEF IInv

\* A login is answered.
LEMMA FinishLoginStep ==
  ASSUME IInv, NEW h \in Handlers, FinishLogin(h)
  PROVE  IInv'
<1> USE HandlersAssumption
    DEF IInv, TypeOK, Characters, Reqs, NoCall, Waiting, FinishLogin, Step, Answer, Becomes
<1>1. Past \subseteq Past'
  BY DEF CallType, Past
<1>2. reqCount' <= Cardinality(Past')
  BY <1>1, PastGrows, PastIsFinite
<1>3. TypeOK'
  BY PastIsFinite DEF CallType, LightType, Kinds, Stages, Status, Request, Reply
<1>4. CallsOK'
  BY PastIsFinite DEF CallsOK, RequestsOK, Fulfilled, CallType, Kinds, Status
<1>5. RequestsOK'
  BY PastIsFinite DEF RequestsOK, HistoryOK, Past, CallType
<1>6. RepliesOK'
  BY PastIsFinite DEF RepliesOK, RequestsOK, HistoryOK, ListAgrees, CallsOK, Fulfilled, Reply, CallType, Kinds, LightType
<1>7. HistoryOK'
  BY PastIsFinite DEF HistoryOK, CallsOK, RequestsOK, Past, CallType
<1>8. ListAgrees'
  BY PastIsFinite DEF ListAgrees, CallsOK, RequestsOK, HistoryOK, Fulfilled, LightType, Status, CallType
<1>9. RepliesTruthful'
  BY PastIsFinite DEF RepliesTruthful, CallsOK, RequestsOK, HistoryOK, ListAgrees, Fulfilled, CallType,
         Kinds, LightType, Status
<1> QED BY <1>2, <1>3, <1>4, <1>5, <1>6, <1>7, <1>8, <1>9 DEF IInv

\* The handler that gives up holds no positive answer.
LEMMA TimeoutStep ==
  ASSUME IInv, NEW req \in Reqs, Timeout(req)
  PROVE  IInv'
<1> USE HandlersAssumption
    DEF IInv, TypeOK, Characters, Reqs, NoCall, Waiting, Timeout, Step, Answer, Becomes
<1>1. Past \subseteq Past'
  BY DEF CallType, Past
<1>2. reqCount' <= Cardinality(Past')
  BY <1>1, PastGrows, PastIsFinite
<1>3. TypeOK'
  BY PastIsFinite DEF CallType, LightType, Kinds, Stages, Status, Request, Reply
<1>4. CallsOK'
  BY PastIsFinite DEF CallsOK, RequestsOK, Fulfilled, CallType, Kinds, Status
<1>5. RequestsOK'
  BY PastIsFinite DEF RequestsOK, HistoryOK, Past, CallType
<1>6. RepliesOK'
  BY PastIsFinite DEF RepliesOK, RequestsOK, HistoryOK, ListAgrees, CallsOK, Fulfilled, Reply, CallType, Kinds, LightType
<1>7. HistoryOK'
  BY PastIsFinite DEF HistoryOK, CallsOK, RequestsOK, Past, CallType
<1>8. ListAgrees'
  BY PastIsFinite DEF ListAgrees, CallsOK, RequestsOK, HistoryOK, Fulfilled, LightType, Status, CallType
<1>9. RepliesTruthful'
  BY PastIsFinite DEF RepliesTruthful, CallsOK, RequestsOK, HistoryOK, ListAgrees, Fulfilled, CallType,
         Kinds, LightType, Status
<1> QED BY <1>2, <1>3, <1>4, <1>5, <1>6, <1>7, <1>8, <1>9 DEF IInv

\* The answer is the one its handler waits for, and is true.
LEMMA ReceiveReplyStep ==
  ASSUME IInv, NEW r \in toLogin, ReceiveReply(r)
  PROVE  IInv'
<1> USE HandlersAssumption DEF Characters, Reqs, NoCall, Waiting
<1>1. r.req \in Reqs /\ r.status \in {0, 1}
  BY PastIsFinite DEF IInv, TypeOK
<1>2. CASE linked /\ pending[r.req] \in Handlers
  <2> DEFINE h == pending[r.req]
  <2>1. h \in Handlers /\ call[h].stage = "waiting"
    BY <1>1, <1>2 DEF IInv, TypeOK
  <2>2. /\ call' \in [Handlers -> CallType]
        /\ \A g \in Handlers \ {h} : call'[g] = call[g]
        /\ call'[h].kind = call[h].kind /\ call'[h].char = call[h].char
        /\ call'[h].ready = call[h].ready
        /\ call'[h].stage = "store" /\ call'[h].answer = r.status
    BY <1>1, <1>2, <2>1 DEF IInv, TypeOK, CallType, Stages, ReceiveReply, Answer, Becomes
  <2>3. /\ pending' \in [Reqs -> Handlers \cup {NoCall}]
        /\ pending'[r.req] = NoCall
        /\ \A req \in Reqs \ {r.req} : pending'[req] = pending[req] /\ pending[req] # h
    BY <1>1, <1>2, <2>1 DEF IInv, TypeOK, ReceiveReply
  <2>4. /\ toLogin' = toLogin \ {r}
        /\ UNCHANGED <<reqCount, linked, toZone, zoneTasks, light, characters>>
    BY DEF ReceiveReply
  <2>5. Past' = Past
    BY <2>1, <2>2 DEF Past
  <2>6. r.status = 1 => Fulfilled(h)
    BY <1>2 DEF IInv, RepliesOK
  <2> HIDE DEF h
  <2>7. TypeOK'
    BY <2>1, <2>2, <2>3, <2>4, PastIsFinite DEF IInv, TypeOK
  <2>8. CallsOK'
    BY <2>1, <2>2, <2>4, <2>6 DEF IInv, TypeOK, CallsOK, Fulfilled
  <2>9. RequestsOK'
    <3>1. \A q \in toZone \cup zoneTasks : q.req \in Reqs /\ q.char \in Handlers
      BY PastIsFinite DEF IInv, TypeOK
    <3>2. \A q \in toZone \cup zoneTasks :
            Waiting(q.req)' => /\ call'[pending'[q.req]].kind = q.kind
                               /\ call'[pending'[q.req]].char = q.char
      BY <2>1, <2>2, <2>3, <3>1 DEF IInv, TypeOK, RequestsOK
    <3>3. \A q \in toZone \cup zoneTasks : call'[q.char].kind = call[q.char].kind
      BY <2>1, <2>2, <3>1
    <3> QED BY <2>4, <2>5, <3>2, <3>3 DEF IInv, RequestsOK
  <2>10. RepliesOK'
    <3> SUFFICES ASSUME NEW x \in toLogin, x.status = 1, Waiting(x.req)'
                 PROVE  Fulfilled(pending[x.req])'
      BY <2>4 DEF RepliesOK
    <3>1. x.req \in Reqs
      BY PastIsFinite DEF IInv, TypeOK
    <3>2. /\ pending'[x.req] = pending[x.req]
          /\ pending[x.req] \in Handlers /\ pending[x.req] # h
      BY <2>3, <3>1 DEF Waiting
    <3>3. Fulfilled(pending[x.req])
      BY <3>2 DEF IInv, RepliesOK, Waiting
    <3>4. call'[pending[x.req]] = call[pending[x.req]] /\ characters' = characters
      BY <2>2, <2>4, <3>2
    <3> QED BY <3>2, <3>3, <3>4 DEF Fulfilled
  <2>11. HistoryOK' /\ ListAgrees' /\ RepliesTruthful'
    BY <2>1, <2>2, <2>4, <2>5 DEF IInv, TypeOK, HistoryOK, ListAgrees, RepliesTruthful
  <2>12. reqCount' <= Cardinality(Past')
    BY <2>4, <2>5 DEF IInv
  <2> QED BY <2>7, <2>8, <2>9, <2>10, <2>11, <2>12 DEF IInv
<1>3. CASE ~(linked /\ pending[r.req] \in Handlers)
  <2>1. /\ UNCHANGED <<call, pending, reqCount, linked, toZone, zoneTasks, light, characters>>
        /\ toLogin' \subseteq toLogin
    BY <1>3 DEF ReceiveReply
  <2>2. Past' = Past
    BY <2>1 DEF Past
  <2>3. TypeOK' /\ RepliesOK'
    BY <2>1 DEF IInv, TypeOK, RepliesOK, Fulfilled
  <2>4. CallsOK' /\ RequestsOK' /\ HistoryOK' /\ ListAgrees' /\ RepliesTruthful'
    BY <2>1, <2>2 DEF IInv, CallsOK, RequestsOK, HistoryOK, ListAgrees, RepliesTruthful, Fulfilled
  <2> QED BY <2>1, <2>2, <2>3, <2>4 DEF IInv
<1> QED BY <1>2, <1>3

\* A negative answer promises nothing.
LEMMA ZoneDatabaseFailsStep ==
  ASSUME IInv, NEW q \in toZone, ZoneDatabaseFails(q)
  PROVE  IInv'
<1> USE HandlersAssumption
    DEF IInv, TypeOK, Characters, Reqs, NoCall, Waiting, ZoneDatabaseFails, ZoneReply
<1>1. Past \subseteq Past'
  BY DEF CallType, Past
<1>2. reqCount' <= Cardinality(Past')
  BY <1>1, PastGrows, PastIsFinite
<1>3. TypeOK'
  BY PastIsFinite DEF CallType, LightType, Kinds, Stages, Status, Request, Reply
<1>4. CallsOK'
  BY PastIsFinite DEF CallsOK, RequestsOK, Fulfilled, CallType, Kinds, Status
<1>5. RequestsOK'
  BY PastIsFinite DEF RequestsOK, HistoryOK, Past, CallType
<1>6. RepliesOK'
  BY PastIsFinite DEF RepliesOK, RequestsOK, HistoryOK, ListAgrees, CallsOK, Fulfilled, Reply, CallType, Kinds, LightType
<1>7. HistoryOK'
  BY PastIsFinite DEF HistoryOK, CallsOK, RequestsOK, Past, CallType
<1>8. ListAgrees'
  BY PastIsFinite DEF ListAgrees, CallsOK, RequestsOK, HistoryOK, Fulfilled, LightType, Status, CallType
<1>9. RepliesTruthful'
  BY PastIsFinite DEF RepliesTruthful, CallsOK, RequestsOK, HistoryOK, ListAgrees, Fulfilled, CallType,
         Kinds, LightType, Status
<1> QED BY <1>2, <1>3, <1>4, <1>5, <1>6, <1>7, <1>8, <1>9 DEF IInv

\* A character that is there is a creation fulfilled.
LEMMA ZoneFindsCreateStep ==
  ASSUME IInv, NEW q \in toZone, ZoneFindsCreate(q)
  PROVE  IInv'
<1> USE HandlersAssumption
    DEF IInv, TypeOK, Characters, Reqs, NoCall, Waiting, ZoneFindsCreate, ZoneReply
<1>1. Past \subseteq Past'
  BY DEF CallType, Past
<1>2. reqCount' <= Cardinality(Past')
  BY <1>1, PastGrows, PastIsFinite
<1>3. TypeOK'
  BY PastIsFinite DEF CallType, LightType, Kinds, Stages, Status, Request, Reply
<1>4. CallsOK'
  BY PastIsFinite DEF CallsOK, RequestsOK, Fulfilled, CallType, Kinds, Status
<1>5. RequestsOK'
  BY PastIsFinite DEF RequestsOK, HistoryOK, Past, CallType
<1>6. RepliesOK'
  BY PastIsFinite DEF RepliesOK, RequestsOK, HistoryOK, ListAgrees, CallsOK, Fulfilled, Reply, CallType, Kinds, LightType
<1>7. HistoryOK'
  BY PastIsFinite DEF HistoryOK, CallsOK, RequestsOK, Past, CallType
<1>8. ListAgrees'
  BY PastIsFinite DEF ListAgrees, CallsOK, RequestsOK, HistoryOK, Fulfilled, LightType, Status, CallType
<1>9. RepliesTruthful'
  BY PastIsFinite DEF RepliesTruthful, CallsOK, RequestsOK, HistoryOK, ListAgrees, Fulfilled, CallType,
         Kinds, LightType, Status
<1> QED BY <1>2, <1>3, <1>4, <1>5, <1>6, <1>7, <1>8, <1>9 DEF IInv

\* A character that is found is there.
LEMMA ZoneAnswersExistStep ==
  ASSUME IInv, NEW q \in toZone, ZoneAnswersExist(q)
  PROVE  IInv'
<1> USE HandlersAssumption
    DEF IInv, TypeOK, Characters, Reqs, NoCall, Waiting, ZoneAnswersExist, ZoneReply
<1>1. Past \subseteq Past'
  BY DEF CallType, Past
<1>2. reqCount' <= Cardinality(Past')
  BY <1>1, PastGrows, PastIsFinite
<1>3. TypeOK'
  BY PastIsFinite DEF CallType, LightType, Kinds, Stages, Status, Request, Reply
<1>4. CallsOK'
  BY PastIsFinite DEF CallsOK, RequestsOK, Fulfilled, CallType, Kinds, Status
<1>5. RequestsOK'
  BY PastIsFinite DEF RequestsOK, HistoryOK, Past, CallType
<1>6. RepliesOK'
  BY PastIsFinite DEF RepliesOK, RequestsOK, HistoryOK, ListAgrees, CallsOK, Fulfilled, Reply, CallType, Kinds, LightType
<1>7. HistoryOK'
  BY PastIsFinite DEF HistoryOK, CallsOK, RequestsOK, Past, CallType
<1>8. ListAgrees'
  BY PastIsFinite DEF ListAgrees, CallsOK, RequestsOK, HistoryOK, Fulfilled, LightType, Status, CallType
<1>9. RepliesTruthful'
  BY PastIsFinite DEF RepliesTruthful, CallsOK, RequestsOK, HistoryOK, ListAgrees, Fulfilled, CallType,
         Kinds, LightType, Status
<1> QED BY <1>2, <1>3, <1>4, <1>5, <1>6, <1>7, <1>8, <1>9 DEF IInv

\* What is deleted was created, and is fulfilled for whom waits.
LEMMA ZoneDeletesStep ==
  ASSUME IInv, NEW q \in toZone, ZoneDeletes(q)
  PROVE  IInv'
<1> USE HandlersAssumption
    DEF IInv, TypeOK, Characters, Reqs, NoCall, Waiting, ZoneDeletes, ZoneReply
<1>1. Past \subseteq Past'
  BY DEF CallType, Past
<1>2. reqCount' <= Cardinality(Past')
  BY <1>1, PastGrows, PastIsFinite
<1>3. TypeOK'
  BY PastIsFinite DEF CallType, LightType, Kinds, Stages, Status, Request, Reply
<1>4. CallsOK'
  BY PastIsFinite DEF CallsOK, RequestsOK, Fulfilled, CallType, Kinds, Status
<1>5. RequestsOK'
  BY PastIsFinite DEF RequestsOK, HistoryOK, Past, CallType
<1>6. RepliesOK'
  BY PastIsFinite DEF RepliesOK, RequestsOK, HistoryOK, ListAgrees, CallsOK, Fulfilled, Reply, CallType, Kinds, LightType
<1>7. HistoryOK'
  BY PastIsFinite DEF HistoryOK, CallsOK, RequestsOK, Past, CallType
<1>8. ListAgrees'
  BY PastIsFinite DEF ListAgrees, CallsOK, RequestsOK, HistoryOK, Fulfilled, LightType, Status, CallType
<1>9. RepliesTruthful'
  BY PastIsFinite DEF RepliesTruthful, CallsOK, RequestsOK, HistoryOK, ListAgrees, Fulfilled, CallType,
         Kinds, LightType, Status
<1> QED BY <1>2, <1>3, <1>4, <1>5, <1>6, <1>7, <1>8, <1>9 DEF IInv

\* No other creation of this character is under way.
LEMMA ZoneInsertsStep ==
  ASSUME IInv, NEW q \in zoneTasks, ZoneInserts(q)
  PROVE  IInv'
<1> USE HandlersAssumption
    DEF IInv, TypeOK, Characters, Reqs, NoCall, Waiting, ZoneInserts, ZoneReply
<1>1. Past \subseteq Past'
  BY DEF CallType, Past
<1>2. reqCount' <= Cardinality(Past')
  BY <1>1, PastGrows, PastIsFinite
<1>3. TypeOK'
  BY PastIsFinite DEF CallType, LightType, Kinds, Stages, Status, Request, Reply
<1>4. CallsOK'
  BY PastIsFinite DEF CallsOK, RequestsOK, Fulfilled, CallType, Kinds, Status
<1>5. RequestsOK'
  BY PastIsFinite DEF RequestsOK, HistoryOK, Past, CallType
<1>6. RepliesOK'
  BY PastIsFinite DEF RepliesOK, RequestsOK, HistoryOK, ListAgrees, CallsOK, Fulfilled, Reply, CallType, Kinds, LightType
<1>7. HistoryOK'
  BY PastIsFinite DEF HistoryOK, CallsOK, RequestsOK, Past, CallType
<1>8. ListAgrees'
  BY PastIsFinite DEF ListAgrees, CallsOK, RequestsOK, HistoryOK, Fulfilled, LightType, Status, CallType
<1>9. RepliesTruthful'
  BY PastIsFinite DEF RepliesTruthful, CallsOK, RequestsOK, HistoryOK, ListAgrees, Fulfilled, CallType,
         Kinds, LightType, Status
<1> QED BY <1>2, <1>3, <1>4, <1>5, <1>6, <1>7, <1>8, <1>9 DEF IInv

-----------------------------------------------------------------------------
\* Nothing but the link changes, or nothing at all.
LEMMA OtherSteps ==
  ASSUME IInv, LinkChanges \/ UNCHANGED vars
  PROVE  IInv'
<1>1. /\ UNCHANGED <<call, reqCount, pending, toZone, toLogin, zoneTasks, light, characters>>
      /\ linked' \in BOOLEAN
  BY DEF IInv, TypeOK, LinkChanges, vars
<1>2. Past' = Past
  BY <1>1 DEF Past
<1>3. TypeOK' /\ RepliesOK'
  BY <1>1 DEF IInv, TypeOK, Waiting, RepliesOK, Fulfilled
<1>4. CallsOK' /\ RequestsOK' /\ HistoryOK' /\ ListAgrees' /\ RepliesTruthful'
  BY <1>1, <1>2
     DEF IInv, Waiting, CallsOK, RequestsOK, HistoryOK, ListAgrees, RepliesTruthful, Fulfilled
<1> QED BY <1>1, <1>2, <1>3, <1>4 DEF IInv

\* Every step keeps the invariant.
LEMMA NextIInv == IInv /\ [Next]_vars => IInv'
<1> SUFFICES ASSUME IInv, [Next]_vars PROVE IInv'
  OBVIOUS
<1>1. CASE LoginServer
  <2>1. ASSUME NEW h \in Handlers, Start(h) PROVE IInv'
    BY <2>1, StartCreateStep, StartDeleteStep, StartLoginStep DEF Start
  <2>2. ASSUME NEW h \in Handlers, AskZone(h) PROVE IInv'
    BY <2>2, AskZoneStep
  <2>3. ASSUME NEW h \in Handlers, Finish(h) PROVE IInv'
    BY <2>3, FinishCreateStep, FinishDeleteStep, FinishLoginStep DEF Finish
  <2>4. ASSUME NEW req \in Reqs, Timeout(req) PROVE IInv'
    BY <2>4, TimeoutStep
  <2>5. ASSUME NEW r \in toLogin, ReceiveReply(r) PROVE IInv'
    BY <2>5, ReceiveReplyStep
  <2> QED BY <1>1, <2>1, <2>2, <2>3, <2>4, <2>5 DEF LoginServer
<1>2. CASE ZoneServer
  <2>1. ASSUME NEW q \in toZone, \/ ZoneDatabaseFails(q) \/ ZoneFindsCreate(q)
                                 \/ ZoneAnswersExist(q) \/ ZoneDeletes(q)
        PROVE IInv'
    BY <2>1, ZoneDatabaseFailsStep, ZoneFindsCreateStep, ZoneAnswersExistStep, ZoneDeletesStep
  <2>2. ASSUME NEW q \in zoneTasks, ZoneInserts(q) PROVE IInv'
    BY <2>2, ZoneInsertsStep
  <2> QED BY <1>2, <2>1, <2>2 DEF ZoneServer
<1>3. CASE LinkChanges \/ UNCHANGED vars
  BY <1>3, OtherSteps
<1> QED BY <1>1, <1>2, <1>3 DEF Next

\* The invariant holds in every state.
LEMMA Invariant == Spec => []IInv
<1> QED BY InitIInv, NextIInv, PTL DEF Spec

\* Every variable keeps its type, and a pending request belongs to one handler,
\* which waits for it and for no other, however many requests are under way.
THEOREM TypeCorrect == Spec => []TypeOK
<1>1. IInv => TypeOK
  BY DEF IInv
<1> QED BY Invariant, <1>1, PTL

\* Whatever the datagrams, the databases and the time-outs do, the login server
\* lists no character its zone does not have, and deletes from the list only
\* what the zone has deleted.
THEOREM ListsAgree == Spec => []ListAgrees
<1>1. IInv => ListAgrees
  BY DEF IInv
<1> QED BY Invariant, <1>1, PTL

\* Every reply to a client tells what happened.
THEOREM RepliesAreTruthful == Spec => []RepliesTruthful
<1>1. IInv => RepliesTruthful
  BY DEF IInv
<1> QED BY Invariant, <1>1, PTL
=============================================================================
