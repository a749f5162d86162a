--------------------------- MODULE TgClientProofs ---------------------------
(***************************************************************************)
(* Proofs about TgClient, for any number of contacts and of queries, and   *)
(* for a table of handlers that a race has broken as well as for a sound   *)
(* one.                                                                    *)
(***************************************************************************)
EXTENDS TgClient, TLAPS

Waiting == {"WaitTdlibParameters", "WaitEncryptionKey"}

(* An update that makes the Telegram thread send, and one that ends the    *)
(* sign-on.                                                                *)
Asks(r) == r.id = 0 /\ r.auth \in Waiting
Verdict(r) == r.id = 0 /\ r.auth \notin Waiting

(* The updates come in TDLib's order, so that nothing is left to be        *)
(* answered by the Telegram thread when the verdict is there ...           *)
OrderInv ==
    /\ \A i \in DOMAIN inbox : Verdict(inbox[i]) => auth \notin Waiting
    /\ \A i, j \in DOMAIN inbox :
          i < j /\ Verdict(inbox[i]) => ~ Asks(inbox[j])
    /\ is_ready # "unset" =>
          auth \notin Waiting /\ \A i \in DOMAIN inbox : ~ Asks(inbox[i])

(* ... and main sends nothing before that. *)
TurnInv ==
    /\ is_ready # "unset" => thread["tg"].n = 0 /\ ~ InSend("tg")
    /\ thread["tg"].pc \in {"receive", "find", "erase", "ended"} =>
          thread["tg"].n = 0
    /\ thread["main"].pc \in {"idle", "emplace", "send"}
    /\ phase \in {"search", "contacts", "loop"} => is_ready # "unset"
    /\ thread["main"].n > 0 \/ InSend("main") => is_ready # "unset"

(* The life of a query: its id is new, it is sent after it was stored,     *)
(* answered once, and its answer is in one place.                          *)
QueryInv ==
    /\ \A q \in QueryId : q > current_query_id =>
          td[q] = "none" /\ promise[q] = "none"
    /\ \A t \in Threads : InSend(t) =>
          thread[t].id <= current_query_id /\ td[thread[t].id] = "none"
    /\ \A i \in DOMAIN inbox :
          inbox[i].id # 0 => td[inbox[i].id] = "answered"
    /\ \A i, j \in DOMAIN inbox :
          inbox[i].id # 0 /\ inbox[i].id = inbox[j].id => i = j
    /\ thread["tg"].pc \in {"find", "erase"} =>
          /\ td[thread["tg"].id] = "answered"
          /\ \A i \in DOMAIN inbox : inbox[i].id # thread["tg"].id

(* As long as the table is sound, a query has its handler from before it   *)
(* is sent until its answer has been handled.                              *)
HandlerInv ==
    /\ ~ raced =>
          /\ \A q \in QueryId : td[q] = "sent" => handlers[q] # "none"
          /\ \A i \in DOMAIN inbox :
                inbox[i].id # 0 => handlers[inbox[i].id] # "none"
          /\ \A t \in Threads : thread[t].pc = "send" =>
                handlers[thread[t].id] # "none"
          /\ thread["tg"].pc = "find" => handlers[thread["tg"].id] # "none"
    /\ NoStaleHandler

(* A race is noticed when it begins, and a handler of main's has a promise *)
(* to fulfil.                                                              *)
PromiseInv ==
    /\ InMap("main") /\ InMap("tg") => raced
    /\ InSend("main") => promise[thread["main"].id] # "none"
    /\ \A q \in QueryId : handlers[q] = "main" => promise[q] # "none"

Inv == TypeOK /\ OrderInv /\ TurnInv /\ QueryInv /\ HandlerInv /\ PromiseInv

-----------------------------------------------------------------------------
(* What receive() takes from the inbox, and what TDLib adds to it. *)
LEMMA Taken ==
    ASSUME TypeOK, inbox # << >>
    PROVE  /\ Tail(inbox) \in Seq(Response) /\ Head(inbox) = inbox[1]
           /\ Head(inbox) \in Response /\ 1 \in DOMAIN inbox
           /\ \A i \in DOMAIN Tail(inbox) :
                 /\ i + 1 \in DOMAIN inbox /\ Tail(inbox)[i] = inbox[i + 1]
                 /\ i \in Nat /\ i + 1 # 1
           /\ \A i \in DOMAIN inbox : i # 1 =>
                 i - 1 \in DOMAIN Tail(inbox) /\ Tail(inbox)[i - 1] = inbox[i]
  BY DEF TypeOK

(* TDLib's queue after a response is added. *)
LEMMA Added ==
    ASSUME TypeOK, NEW r \in Response
    PROVE  /\ Append(inbox, r) \in Seq(Response)
           /\ \A i \in DOMAIN Append(inbox, r) :
                 \/ i \in DOMAIN inbox /\ Append(inbox, r)[i] = inbox[i]
                 \/ i = Len(inbox) + 1 /\ Append(inbox, r)[i] = r
           /\ \A i \in DOMAIN inbox :
                 /\ i \in DOMAIN Append(inbox, r) /\ i < Len(inbox) + 1
                 /\ Append(inbox, r)[i] = inbox[i]
           /\ Len(inbox) + 1 \in DOMAIN Append(inbox, r)
           /\ Append(inbox, r)[Len(inbox) + 1] = r
  BY DEF TypeOK

(* A response answers a query or is an update. *)
LEMMA Responses ==
    /\ \A a \in AuthState : Update(a) \in Response
    /\ \A q \in QueryId : Answer(q) \in Response
    /\ \A r \in Response : /\ r.id # 0 => r.id \in QueryId
                           /\ r.id = 0 => r.auth \in AuthState
  BY TgClientAssumption DEF Update, Answer, Response, QueryId

(* A queued answer names a query. *)
LEMMA InboxIds ==
    ASSUME TypeOK
    PROVE  \A i \in DOMAIN inbox : inbox[i].id # 0 => inbox[i].id \in QueryId
<1>1. \A i \in DOMAIN inbox : inbox[i] \in Response
  BY DEF TypeOK
<1> QED
  BY <1>1, Responses

(* Authorisation does not go back to waiting. *)
LEMMA AuthSteps ==
    ASSUME auth \in AuthState, NEW a \in AuthStep[auth]
    PROVE  a \in AuthState /\ (a \in Waiting => auth \in Waiting)
  BY DEF AuthState, AuthStep, Waiting

(* The invariant holds when the client starts. *)
LEMMA InitInv == Init => Inv
<1> SUFFICES ASSUME Init PROVE Inv
  OBVIOUS
<1>1. TypeOK
  <2>1. inbox \in Seq(Response)
    BY Responses DEF Init, AuthState
  <2>2. /\ thread \in [Threads -> ThreadState]
        /\ \A t \in Threads : ~ InMap(t) /\ ~ InSend(t)
    BY TgClientAssumption DEF Init, Threads, ThreadState, InMap, InSend
  <2>3. raced \in BOOLEAN /\ is_closed \in BOOLEAN
    BY DEF Init
  <2>4. futures \in Seq(QueryId)
    BY DEF Init
  <2> QED
    BY <2>1, <2>2, <2>3, <2>4, TgClientAssumption
       DEF Init, TypeOK, AuthState
<1>2. OrderInv /\ TurnInv
  BY DEF Init, OrderInv, TurnInv, InSend, Threads, Update, Verdict, Asks,
         Waiting
<1>3. QueryInv /\ HandlerInv /\ PromiseInv
  BY DEF Init, QueryInv, HandlerInv, NoStaleHandler, PromiseInv, InMap, InSend,
         Threads, Update, QueryId
<1> QED
  BY <1>1, <1>2, <1>3 DEF Inv

(* Every step keeps the types. *)
LEMMA NextType == TypeOK /\ [Next]_vars => TypeOK'
<1> SUFFICES ASSUME TypeOK, [Next]_vars PROVE TypeOK'
  OBVIOUS
<1> USE TgClientAssumption, Responses
<1>0. CASE UNCHANGED vars
  BY <1>0 DEF vars, tableVars, tdVars, TypeOK, ThreadState, Threads, QueryId,
              InMap, InSend
<1>1. ASSUME LoopTest, Watch PROVE TypeOK'
  BY <1>1 DEF LoopTest, Free, Watch, tableVars, tdVars, TypeOK, ThreadState,
              Threads, QueryId, InMap, InSend
<1>2. ASSUME ReceiveTimeout, Watch PROVE TypeOK'
  BY <1>2 DEF ReceiveTimeout, Watch, tableVars, tdVars, TypeOK, ThreadState,
              Threads, QueryId, InMap, InSend
<1>3. ASSUME NEW q \in QueryId, ReceiveAnswer(q), Watch PROVE TypeOK'
  <2>1. /\ thread' \in [Threads -> ThreadState]
        /\ \A u \in Threads :
              (InMap(u) \/ InSend(u))' => thread'[u].id \in QueryId
    <3>1. 0 \in 0 .. MaxQuery /\ \A r \in QueryId : r \in 0 .. MaxQuery
      BY TgClientAssumption DEF QueryId
    <3>2. thread' \in [Threads -> ThreadState]
      BY <1>3, <3>1 DEF ReceiveAnswer, TypeOK, ThreadState, Threads
    <3>3. thread'["main"] = thread["main"] /\ thread'["tg"].id \in QueryId
      BY <1>3 DEF ReceiveAnswer, TypeOK, ThreadState, Threads
    <3> QED
      BY <3>2, <3>3 DEF TypeOK, Threads, InMap, InSend
  <2>r. raced' \in BOOLEAN
    BY <1>3 DEF Watch, TypeOK
  <2>2. inbox' \in Seq(Response)
    BY <1>3, Taken DEF ReceiveAnswer, Received
  <2> QED
    BY <1>3, <2>1, <2>2, <2>r DEF ReceiveAnswer, tableVars, TypeOK
<1>4. ASSUME RunHandler, Watch PROVE TypeOK'
  BY <1>4 DEF RunHandler, Watch, tableVars, tdVars, TypeOK, ThreadState,
              Threads, QueryId, InMap, InSend
<1>5. ASSUME NoHandler, Watch PROVE TypeOK'
  <2>1. /\ thread' \in [Threads -> ThreadState]
        /\ \A u \in Threads :
              (InMap(u) \/ InSend(u))' => thread'[u].id \in QueryId
    <3>1. 0 \in 0 .. MaxQuery /\ \A r \in QueryId : r \in 0 .. MaxQuery
      BY TgClientAssumption DEF QueryId
    <3>2. thread' \in [Threads -> ThreadState]
      BY <1>5, <3>1 DEF NoHandler, Done, TypeOK, ThreadState, Threads
    <3>3. thread'["main"] = thread["main"] /\ thread'["tg"].pc = "idle"
      BY <1>5 DEF NoHandler, Done, TypeOK, ThreadState, Threads
    <3> QED
      BY <3>2, <3>3 DEF TypeOK, Threads, InMap, InSend
  <2>r. raced' \in BOOLEAN
    BY <1>5 DEF Watch, TypeOK
  <2> QED
    BY <1>5, <2>1, <2>r DEF NoHandler, tableVars, tdVars, TypeOK
<1>6. ASSUME Erase, Watch PROVE TypeOK'
  <2>1. /\ thread' \in [Threads -> ThreadState]
        /\ \A u \in Threads :
              (InMap(u) \/ InSend(u))' => thread'[u].id \in QueryId
    <3>1. 0 \in 0 .. MaxQuery /\ \A r \in QueryId : r \in 0 .. MaxQuery
      BY TgClientAssumption DEF QueryId
    <3>2. thread' \in [Threads -> ThreadState]
      BY <1>6, <3>1 DEF Erase, Done, TypeOK, ThreadState, Threads
    <3>3. thread'["main"] = thread["main"] /\ thread'["tg"].pc = "idle"
      BY <1>6 DEF Erase, Done, TypeOK, ThreadState, Threads
    <3> QED
      BY <3>2, <3>3 DEF TypeOK, Threads, InMap, InSend
  <2>r. raced' \in BOOLEAN
    BY <1>6 DEF Watch, TypeOK
  <2>2. handlers' \in [QueryId -> Threads \cup {"none"}]
    BY <1>6 DEF Erase, TypeOK
  <2> QED
    BY <1>6, <2>1, <2>2, <2>r DEF Erase, tdVars, TypeOK
<1>7. ASSUME NEW a \in AuthState, OnAuthorizationWait(a), Watch PROVE TypeOK'
  <2>1. /\ thread' \in [Threads -> ThreadState]
        /\ \A u \in Threads :
              (InMap(u) \/ InSend(u))' => thread'[u].id \in QueryId
    BY <1>7 DEF OnAuthorizationWait, Replies, TypeOK, ThreadState, Threads,
                InMap, InSend
  <2>r. raced' \in BOOLEAN
    BY <1>7 DEF Watch, TypeOK
  <2>2. inbox' \in Seq(Response)
    BY <1>7, Taken DEF OnAuthorizationWait, Received
  <2> QED
    BY <1>7, <2>1, <2>2, <2>r DEF OnAuthorizationWait, tableVars, TypeOK
<1>8. ASSUME NEW a \in AuthState, OnAuthorizationVerdict(a), Watch
      PROVE  TypeOK'
  <2>1. /\ thread' \in [Threads -> ThreadState]
        /\ \A u \in Threads :
              (InMap(u) \/ InSend(u))' => thread'[u].id \in QueryId
    BY <1>8 DEF OnAuthorizationVerdict, TypeOK, ThreadState, Threads, InMap,
                InSend
  <2>r. raced' \in BOOLEAN
    BY <1>8 DEF Watch, TypeOK
  <2>2. inbox' \in Seq(Response)
    BY <1>8, Taken DEF OnAuthorizationVerdict, Received
  <2>3. /\ is_ready' \in {"unset", "true", "false"}
        /\ phase' \in {phase, "aborted"}
    BY <1>8 DEF OnAuthorizationVerdict, SetReady, TypeOK
  <2> QED
    BY <1>8, <2>1, <2>2, <2>3, <2>r DEF OnAuthorizationVerdict, tableVars,
                                        TypeOK
<1>9. ASSUME NEW t \in Threads, TakeId(t), Watch PROVE TypeOK'
  BY <1>9 DEF TakeId, Watch, tableVars, tdVars, TypeOK, ThreadState, Threads,
              QueryId, InMap, InSend
<1>10. ASSUME NEW t \in Threads, Emplace(t), Watch PROVE TypeOK'
  BY <1>10 DEF Emplace, Watch, tableVars, tdVars, TypeOK, ThreadState, Threads,
               QueryId, InMap, InSend
<1>11. ASSUME NEW t \in Threads, Transmit(t), Watch PROVE TypeOK'
  <2>1. /\ thread' \in [Threads -> ThreadState]
        /\ \A u \in Threads :
              (InMap(u) \/ InSend(u))' => thread'[u].id \in QueryId
    <3>1. 0 \in 0 .. MaxQuery
      BY TgClientAssumption
    <3>2. thread' \in [Threads -> ThreadState]
      BY <1>11, <3>1 DEF Transmit, Done, TypeOK, ThreadState
    <3>3. /\ thread'[t].pc = "idle"
          /\ \A u \in Threads : u # t => thread'[u] = thread[u]
      BY <1>11 DEF Transmit, Done, TypeOK, ThreadState
    <3> QED
      BY <3>2, <3>3 DEF TypeOK, InMap, InSend
  <2>r. raced' \in BOOLEAN
    BY <1>11 DEF Watch, TypeOK
  <2>2. thread[t].id \in QueryId
    BY <1>11 DEF Transmit, TypeOK, InSend
  <2>3. /\ futures' \in Seq(QueryId)
        /\ td' \in [QueryId -> {"none", "sent", "answered"}]
    BY <1>11, <2>2 DEF Transmit, TypeOK
  <2> QED
    BY <1>11, <2>1, <2>3, <2>r DEF Transmit, tableVars, TypeOK
<1>12. ASSUME SignedOn, Watch PROVE TypeOK'
  BY <1>12 DEF SignedOn, Watch, tableVars, tdVars, TypeOK, ThreadState,
               Threads, QueryId, InMap, InSend
<1>13. ASSUME GotSearch, Watch PROVE TypeOK'
  <2>1. /\ thread' \in [Threads -> ThreadState]
        /\ \A u \in Threads :
              (InMap(u) \/ InSend(u))' => thread'[u].id \in QueryId
    BY <1>13 DEF GotSearch, TypeOK, ThreadState, Threads, InMap, InSend
  <2>r. raced' \in BOOLEAN
    BY <1>13 DEF Watch, TypeOK
  <2>2. futures' \in Seq(QueryId) /\ phase' \in {"loop", "contacts"}
    BY <1>13 DEF GotSearch
  <2> QED
    BY <1>13, <2>1, <2>2, <2>r DEF GotSearch, Get, tableVars, tdVars, TypeOK
<1>14. ASSUME GotContact, Watch PROVE TypeOK'
  <2>1. /\ thread' \in [Threads -> ThreadState]
        /\ \A u \in Threads :
              (InMap(u) \/ InSend(u))' => thread'[u].id \in QueryId
    BY <1>14 DEF GotContact, TypeOK, ThreadState, Threads, InMap, InSend
  <2>r. raced' \in BOOLEAN
    BY <1>14 DEF Watch, TypeOK
  <2>2. futures' \in Seq(QueryId) /\ phase' \in {"loop", phase}
    <3>1. futures \in Seq(QueryId) /\ futures # << >>
      BY <1>14 DEF GotContact, Get, TypeOK
    <3>2. Tail(futures) \in Seq(QueryId) /\ << >> \in Seq(QueryId)
      BY <3>1
    <3> QED
      BY <1>14, <3>2 DEF GotContact
  <2> QED
    BY <1>14, <2>1, <2>2, <2>r DEF GotContact, Get, tableVars, tdVars, TypeOK
<1>15. ASSUME StartFails \/ CacheLoaded \/ GotReply \/ Join, Watch
       PROVE  TypeOK'
  <2>r. raced' \in BOOLEAN
    BY <1>15 DEF Watch, TypeOK
  <2>1. is_closed' \in BOOLEAN /\ phase' \in {"joining", "loop", "exited"}
    BY <1>15 DEF StartFails, Close, CacheLoaded, GotReply, Get, Join, TypeOK
  <2>3. futures' = futures \/ futures' = << >>
    BY <1>15 DEF StartFails, CacheLoaded, GotReply, Join
  <2>4. futures' \in Seq(QueryId)
    <3>1. << >> \in Seq(QueryId)
      OBVIOUS
    <3> QED
      BY <2>3, <3>1 DEF TypeOK
  <2>2. thread' = thread /\ UNCHANGED <<tableVars, is_ready, tdVars>>
    BY <1>15 DEF StartFails, CacheLoaded, GotReply, Get, Join
  <2> QED
    BY <2>1, <2>2, <2>4, <2>r DEF tableVars, tdVars, TypeOK, InMap, InSend
<1>16. ASSUME HandlerQuery, UNCHANGED raced PROVE TypeOK'
  BY <1>16 DEF HandlerQuery, Free, tableVars, tdVars, TypeOK, ThreadState,
               Threads, QueryId, InMap, InSend
<1>17. ASSUME TdAuthorization, UNCHANGED raced PROVE TypeOK'
  <2>1. auth' \in AuthState /\ inbox' \in Seq(Response)
    BY <1>17, AuthSteps, Added DEF TdAuthorization, TypeOK
  <2>2. thread' = thread
    BY <1>17 DEF TdAuthorization
  <2> QED
    BY <1>17, <2>1, <2>2 DEF TdAuthorization, tableVars, TypeOK, InMap, InSend
<1>18. ASSUME Stop \/ Crash, UNCHANGED raced PROVE TypeOK'
  BY <1>18 DEF Stop, Close, Crash, tableVars, tdVars, TypeOK, ThreadState,
               Threads, QueryId, InMap, InSend
<1>19. ASSUME NEW q \in QueryId, TdAnswer(q), UNCHANGED raced PROVE TypeOK'
  BY <1>19, Added DEF TdAnswer, tableVars, tdVars, TypeOK, ThreadState,
                      Threads, QueryId, InMap, InSend
<1> QED
  BY <1>0, <1>1, <1>2, <1>3, <1>4, <1>5, <1>6, <1>7, <1>8, <1>9, <1>10, <1>11,
     <1>12, <1>13, <1>14, <1>15, <1>16, <1>17, <1>18, <1>19
     DEF Next, TgThread, Main, Environment, Answers, SendQuery, Threads

(* Every step keeps the order of the updates. *)
LEMMA NextOrder == TypeOK /\ OrderInv /\ [Next]_vars => OrderInv'
<1> SUFFICES ASSUME TypeOK, OrderInv, [Next]_vars PROVE OrderInv'
  OBVIOUS
<1>0. CASE UNCHANGED vars
  BY <1>0 DEF vars, tableVars, tdVars, OrderInv
<1>1. ASSUME LoopTest, Watch PROVE OrderInv'
  BY <1>1 DEF LoopTest, Free, Watch, tableVars, tdVars, OrderInv
<1>2. ASSUME ReceiveTimeout, Watch PROVE OrderInv'
  BY <1>2 DEF ReceiveTimeout, Watch, tableVars, tdVars, OrderInv
<1>3. ASSUME NEW q \in QueryId, ReceiveAnswer(q), Watch PROVE OrderInv'
  BY <1>3, Taken DEF ReceiveAnswer, Received, Watch, tableVars, tdVars,
                     OrderInv
<1>4. ASSUME RunHandler, Watch PROVE OrderInv'
  BY <1>4 DEF RunHandler, Watch, tableVars, tdVars, OrderInv
<1>5. ASSUME NoHandler, Watch PROVE OrderInv'
  BY <1>5 DEF NoHandler, Done, Watch, tableVars, tdVars, OrderInv
<1>6. ASSUME Erase, Watch PROVE OrderInv'
  BY <1>6 DEF Erase, Done, Watch, tableVars, tdVars, OrderInv
<1>7. ASSUME NEW a \in AuthState, OnAuthorizationWait(a), Watch PROVE OrderInv'
  BY <1>7, Taken DEF OnAuthorizationWait, Received, Replies, Watch, tableVars,
                     tdVars, OrderInv
<1>8. ASSUME NEW a \in AuthState, OnAuthorizationVerdict(a), Watch
      PROVE  OrderInv'
  <2>1. /\ inbox # << >> /\ inbox' = Tail(inbox) /\ auth' = auth
        /\ Verdict(inbox[1])
    BY <1>8, Taken DEF OnAuthorizationVerdict, Received, Verdict, Waiting
  <2>2. auth \notin Waiting /\ \A i \in DOMAIN inbox' : ~ Asks(inbox'[i])
    <3>1. \A i \in DOMAIN inbox : 1 < i => ~ Asks(inbox[i])
      BY <2>1, Taken DEF OrderInv
    <3>2. \A i \in DOMAIN Tail(inbox) : 1 < i + 1
      BY <2>1, Taken DEF TypeOK
    <3> QED
      BY <2>1, <3>1, <3>2, Taken DEF OrderInv
  <2> QED
    BY <2>1, <2>2 DEF OrderInv
<1>9. ASSUME NEW t \in Threads, TakeId(t), Watch PROVE OrderInv'
  BY <1>9 DEF TakeId, Watch, tableVars, tdVars, OrderInv
<1>10. ASSUME NEW t \in Threads, Emplace(t), Watch PROVE OrderInv'
  BY <1>10 DEF Emplace, Watch, tableVars, tdVars, OrderInv
<1>11. ASSUME NEW t \in Threads, Transmit(t), Watch PROVE OrderInv'
  BY <1>11 DEF Transmit, Done, Watch, tableVars, tdVars, OrderInv
<1>12. ASSUME SignedOn, Watch PROVE OrderInv'
  BY <1>12 DEF SignedOn, Watch, tableVars, tdVars, OrderInv
<1>13. ASSUME GotSearch, Watch PROVE OrderInv'
  BY <1>13 DEF GotSearch, Get, Free, Watch, tableVars, tdVars, OrderInv
<1>14. ASSUME GotContact, Watch PROVE OrderInv'
  BY <1>14 DEF GotContact, Get, Watch, tableVars, tdVars, OrderInv
<1>15. ASSUME StartFails \/ CacheLoaded \/ GotReply \/ Join, Watch
       PROVE  OrderInv'
  BY <1>15 DEF StartFails, Close, CacheLoaded, GotReply, Get, Join, Watch,
               tableVars, tdVars, OrderInv
<1>16. ASSUME HandlerQuery, UNCHANGED raced PROVE OrderInv'
  BY <1>16 DEF HandlerQuery, Free, tableVars, tdVars, OrderInv
<1>17. ASSUME TdAuthorization, UNCHANGED raced PROVE OrderInv'
  <2>1. PICK a \in AuthStep[auth] :
           /\ auth' = a /\ inbox' = Append(inbox, Update(a))
           /\ UNCHANGED is_ready
    BY <1>17 DEF TdAuthorization
  <2>2. a \in AuthState /\ (a \in Waiting => auth \in Waiting)
    BY AuthSteps DEF TypeOK
  <2>3. /\ Update(a) \in Response
        /\ Asks(Update(a)) <=> a \in Waiting
        /\ Verdict(Update(a)) <=> a \notin Waiting
    BY <2>2, Responses DEF Update, Asks, Verdict
  <2>4. \A i \in DOMAIN inbox' : Verdict(inbox'[i]) => auth' \notin Waiting
    BY <2>1, <2>2, <2>3, Added DEF OrderInv
  <2>5. \A i, j \in DOMAIN inbox' :
           i < j /\ Verdict(inbox'[i]) => ~ Asks(inbox'[j])
    <3>1. \A i, j \in DOMAIN inbox' : i < j => i \in DOMAIN inbox
      BY <2>1, <2>3, Added DEF TypeOK
    <3> QED
      BY <3>1, <2>1, <2>2, <2>3, Added DEF OrderInv
  <2>6. is_ready' # "unset" =>
           auth' \notin Waiting /\ \A i \in DOMAIN inbox' : ~ Asks(inbox'[i])
    BY <2>1, <2>2, <2>3, Added DEF OrderInv
  <2> QED
    BY <2>4, <2>5, <2>6 DEF OrderInv
<1>18. ASSUME Stop \/ Crash, UNCHANGED raced PROVE OrderInv'
  BY <1>18 DEF Stop, Close, Crash, tableVars, tdVars, OrderInv
<1>19. ASSUME NEW q \in QueryId, TdAnswer(q), UNCHANGED raced PROVE OrderInv'
  <2>1. inbox' = Append(inbox, Answer(q)) /\ UNCHANGED <<auth, is_ready>>
    BY <1>19 DEF TdAnswer
  <2>2. Answer(q) \in Response /\ ~ Verdict(Answer(q)) /\ ~ Asks(Answer(q))
    BY Responses DEF Answer, Verdict, Asks, QueryId
  <2> QED
    BY <2>1, <2>2, Added DEF OrderInv
<1> QED
  BY <1>0, <1>1, <1>2, <1>3, <1>4, <1>5, <1>6, <1>7, <1>8, <1>9, <1>10, <1>11,
     <1>12, <1>13, <1>14, <1>15, <1>16, <1>17, <1>18, <1>19
     DEF Next, TgThread, Main, Environment, Answers, SendQuery, Threads

(* Every step keeps whose turn it is. *)
LEMMA NextTurn == TypeOK /\ OrderInv /\ TurnInv /\ [Next]_vars => TurnInv'
<1> SUFFICES ASSUME TypeOK, OrderInv, TurnInv, [Next]_vars PROVE TurnInv'
  OBVIOUS
<1>0. CASE UNCHANGED vars
  BY <1>0 DEF vars, tableVars, tdVars, TypeOK, TurnInv, InSend, Threads,
              ThreadState
<1>1. ASSUME LoopTest, Watch PROVE TurnInv'
  BY <1>1 DEF LoopTest, Free, Watch, tableVars, tdVars, TypeOK, TurnInv,
              InSend, Threads, ThreadState
<1>2. ASSUME ReceiveTimeout, Watch PROVE TurnInv'
  BY <1>2 DEF ReceiveTimeout, Watch, tableVars, tdVars, TypeOK, TurnInv,
              InSend, Threads, ThreadState
<1>3. ASSUME NEW q \in QueryId, ReceiveAnswer(q), Watch PROVE TurnInv'
  BY <1>3, Taken DEF ReceiveAnswer, Received, Watch, tableVars, tdVars, TypeOK,
                     TurnInv, InSend, Threads, ThreadState
<1>4. ASSUME RunHandler, Watch PROVE TurnInv'
  BY <1>4 DEF RunHandler, Watch, tableVars, tdVars, TypeOK, TurnInv, InSend,
              Threads, ThreadState
<1>5. ASSUME NoHandler, Watch PROVE TurnInv'
  BY <1>5 DEF NoHandler, Done, Watch, tableVars, tdVars, TypeOK, TurnInv,
              InSend, Threads, ThreadState
<1>6. ASSUME Erase, Watch PROVE TurnInv'
  BY <1>6 DEF Erase, Done, Watch, tableVars, tdVars, TypeOK, TurnInv, InSend,
              Threads, ThreadState
<1>7. ASSUME NEW a \in AuthState, OnAuthorizationWait(a), Watch PROVE TurnInv'
  <2>1. is_ready = "unset"
    <3>1. inbox # << >> /\ Asks(inbox[1])
      BY <1>7, Taken DEF OnAuthorizationWait, Received, Asks, Waiting
    <3> QED
      BY <3>1, Taken DEF OrderInv
  <2> QED
    BY <1>7, <2>1 DEF OnAuthorizationWait, TypeOK, TurnInv, InSend, Threads,
                      ThreadState
<1>8. ASSUME NEW a \in AuthState, OnAuthorizationVerdict(a), Watch
      PROVE  TurnInv'
  BY <1>8, Taken DEF OnAuthorizationVerdict, Received, SetReady, Watch,
                     tableVars, tdVars, TypeOK, TurnInv, InSend, Threads,
                     ThreadState
<1>9. ASSUME NEW t \in Threads, TakeId(t), Watch PROVE TurnInv'
  BY <1>9 DEF TakeId, Watch, tableVars, tdVars, TypeOK, TurnInv, InSend,
              Threads, ThreadState
<1>10. ASSUME NEW t \in Threads, Emplace(t), Watch PROVE TurnInv'
  BY <1>10 DEF Emplace, Watch, tableVars, tdVars, TypeOK, TurnInv, InSend,
               Threads, ThreadState
<1>11. ASSUME NEW t \in Threads, Transmit(t), Watch PROVE TurnInv'
  BY <1>11 DEF Transmit, Done, Watch, tableVars, tdVars, TypeOK, TurnInv,
               InSend, Threads, ThreadState
<1>12. ASSUME SignedOn, Watch PROVE TurnInv'
  BY <1>12 DEF SignedOn, Watch, tableVars, tdVars, TypeOK, TurnInv, InSend,
               Threads, ThreadState
<1>13. ASSUME GotSearch, Watch PROVE TurnInv'
  BY <1>13 DEF GotSearch, Get, Free, Watch, tableVars, tdVars, TypeOK, TurnInv,
               InSend, Threads, ThreadState
<1>14. ASSUME GotContact, Watch PROVE TurnInv'
  BY <1>14 DEF GotContact, Get, Watch, tableVars, tdVars, TypeOK, TurnInv,
               InSend, Threads, ThreadState
<1>15. ASSUME StartFails \/ CacheLoaded \/ GotReply \/ Join, Watch
       PROVE  TurnInv'
  BY <1>15 DEF StartFails, Close, CacheLoaded, GotReply, Get, Join, Watch,
               tableVars, tdVars, TypeOK, TurnInv, InSend, Threads, ThreadState
<1>16. ASSUME HandlerQuery, UNCHANGED raced PROVE TurnInv'
  BY <1>16 DEF HandlerQuery, Free, tableVars, tdVars, TypeOK, TurnInv, InSend,
               Threads, ThreadState
<1>17. ASSUME TdAuthorization, UNCHANGED raced PROVE TurnInv'
  BY <1>17 DEF TdAuthorization, tableVars, tdVars, TypeOK, TurnInv, InSend,
               Threads, ThreadState
<1>18. ASSUME Stop \/ Crash, UNCHANGED raced PROVE TurnInv'
  BY <1>18 DEF Stop, Close, Crash, tableVars, tdVars, TypeOK, TurnInv, InSend,
               Threads, ThreadState
<1>19. ASSUME NEW q \in QueryId, TdAnswer(q), UNCHANGED raced PROVE TurnInv'
  BY <1>19 DEF TdAnswer, tableVars, tdVars, TypeOK, TurnInv, InSend, Threads,
               ThreadState
<1> QED
  BY <1>0, <1>1, <1>2, <1>3, <1>4, <1>5, <1>6, <1>7, <1>8, <1>9, <1>10, <1>11,
     <1>12, <1>13, <1>14, <1>15, <1>16, <1>17, <1>18, <1>19
     DEF Next, TgThread, Main, Environment, Answers, SendQuery, Threads

(* Every step keeps what is known of the queries. *)
LEMMA NextQuery == TypeOK /\ TurnInv /\ QueryInv /\ [Next]_vars => QueryInv'
<1> SUFFICES ASSUME TypeOK, TurnInv, QueryInv, [Next]_vars PROVE QueryInv'
  OBVIOUS
<1>s. ~ (InSend("main") /\ InSend("tg"))
  BY DEF TurnInv
<1>0. CASE UNCHANGED vars
  BY <1>0 DEF vars, tableVars, tdVars, TypeOK, QueryInv, InSend, Threads,
              ThreadState
<1>1. ASSUME LoopTest, Watch PROVE QueryInv'
  BY <1>1 DEF LoopTest, Free, Watch, tableVars, tdVars, TypeOK, QueryInv,
              InSend, Threads, ThreadState
<1>2. ASSUME ReceiveTimeout, Watch PROVE QueryInv'
  BY <1>2 DEF ReceiveTimeout, Watch, tableVars, tdVars, TypeOK, QueryInv,
              InSend, Threads, ThreadState
<1>3. ASSUME NEW q \in QueryId, ReceiveAnswer(q), Watch PROVE QueryInv'
  <2>1. /\ inbox # << >> /\ inbox[1].id = q /\ inbox' = Tail(inbox)
        /\ UNCHANGED <<td, promise, current_query_id>>
    BY <1>3, Taken DEF ReceiveAnswer, Received, tableVars
  <2>2. /\ thread'["main"] = thread["main"]
        /\ thread'["tg"].pc = "find" /\ thread'["tg"].id = q
    BY <1>3 DEF ReceiveAnswer, TypeOK, Threads, ThreadState
  <2>3. q # 0 /\ td[q] = "answered"
    BY <2>1, Taken DEF QueryInv, QueryId
  <2>4. \A i \in DOMAIN inbox' : inbox'[i].id # q
    BY <2>1, <2>3, Taken DEF QueryInv
  <2>5. /\ \A i \in DOMAIN inbox' :
              inbox'[i].id # 0 => td'[inbox'[i].id] = "answered"
        /\ \A i, j \in DOMAIN inbox' :
              inbox'[i].id # 0 /\ inbox'[i].id = inbox'[j].id => i = j
    BY <2>1, Taken DEF QueryInv
  <2> QED
    BY <2>1, <2>2, <2>3, <2>4, <2>5 DEF QueryInv, InSend, Threads
<1>4. ASSUME RunHandler, Watch PROVE QueryInv'
  BY <1>4 DEF RunHandler, Watch, tableVars, tdVars, TypeOK, QueryInv, InSend,
              Threads, ThreadState
<1>5. ASSUME NoHandler, Watch PROVE QueryInv'
  BY <1>5 DEF NoHandler, Done, Watch, tableVars, tdVars, TypeOK, QueryInv,
              InSend, Threads, ThreadState
<1>6. ASSUME Erase, Watch PROVE QueryInv'
  BY <1>6 DEF Erase, Done, Watch, tableVars, tdVars, TypeOK, QueryInv, InSend,
              Threads, ThreadState
<1>7. ASSUME NEW a \in AuthState, OnAuthorizationWait(a), Watch PROVE QueryInv'
  BY <1>7, Taken DEF OnAuthorizationWait, Received, Replies, Watch, tableVars,
                     tdVars, TypeOK, QueryInv, InSend, Threads, ThreadState
<1>8. ASSUME NEW a \in AuthState, OnAuthorizationVerdict(a), Watch
      PROVE  QueryInv'
  BY <1>8, Taken DEF OnAuthorizationVerdict, Received, SetReady, Watch,
                     tableVars, tdVars, TypeOK, QueryInv, InSend, Threads,
                     ThreadState
<1>9. ASSUME NEW t \in Threads, TakeId(t), Watch PROVE QueryInv'
  <2> DEFINE p == current_query_id + 1
  <2>1. /\ p \in QueryId /\ current_query_id' = p /\ p > current_query_id
        /\ thread'[t].id = p /\ thread'[t].pc = "emplace"
        /\ \A u \in Threads : u # t => thread'[u] = thread[u]
        /\ UNCHANGED <<td, inbox>>
    BY <1>9 DEF TakeId, tdVars, TypeOK, ThreadState, QueryId
  <2>2. \A r \in QueryId : r # p => promise'[r] = promise[r]
    BY <1>9 DEF TakeId, TypeOK
  <2>3. \A r \in QueryId :
           r > current_query_id' => r # p /\ r > current_query_id
    BY <2>1 DEF TypeOK, QueryId
  <2>4. \A u \in Threads : InSend(u)' =>
           thread'[u].id <= current_query_id' /\ td'[thread'[u].id] = "none"
    <3>1. td[p] = "none" /\ p <= p
      BY <2>1 DEF QueryInv, QueryId
    <3>2. ASSUME NEW u \in Threads, u # t, InSend(u)
          PROVE  thread[u].id <= p /\ td[thread[u].id] = "none"
      BY <2>1, <3>2 DEF QueryInv, TypeOK, ThreadState, QueryId
    <3> QED
      BY <2>1, <3>1, <3>2 DEF InSend
  <2>5. thread'["tg"].pc \in {"find", "erase"} => thread'["tg"] = thread["tg"]
    BY <2>1 DEF Threads
  <2> QED
    BY <2>1, <2>2, <2>3, <2>4, <2>5 DEF QueryInv
<1>10. ASSUME NEW t \in Threads, Emplace(t), Watch PROVE QueryInv'
  BY <1>10 DEF Emplace, Watch, tableVars, tdVars, TypeOK, QueryInv, InSend,
               Threads, ThreadState
<1>11. ASSUME NEW t \in Threads, Transmit(t), Watch PROVE QueryInv'
  <2> DEFINE p == thread[t].id
  <2>1. /\ InSend(t) /\ p \in QueryId
        /\ UNCHANGED <<current_query_id, promise, inbox>>
        /\ thread'[t].pc = "idle"
        /\ \A u \in Threads : u # t => thread'[u] = thread[u]
    BY <1>11 DEF Transmit, Done, tableVars, TypeOK, ThreadState, InSend
  <2>2. td'[p] = "sent" /\ \A r \in QueryId : r # p => td'[r] = td[r]
    BY <1>11, <2>1 DEF Transmit, TypeOK
  <2>3. p <= current_query_id /\ td[p] = "none"
    BY <2>1 DEF QueryInv
  <2>4. \A r \in QueryId : td'[r] = td[r] \/ r <= current_query_id
    BY <2>2, <2>3
  <2>5. \A u \in Threads : InSend(u)' => td'[thread[u].id] = "none"
    <3>1. \A u \in Threads : u # t /\ InSend(u) => thread[u].id # p
      BY <2>1, <1>s DEF Threads
    <3> QED
      BY <2>1, <2>2, <3>1 DEF QueryInv, InSend, TypeOK
  <2>6. \A r \in QueryId : td[r] = "answered" => td'[r] = "answered"
    BY <2>2, <2>3
  <2>7. \A i \in DOMAIN inbox : inbox[i].id # 0 => inbox[i].id \in QueryId
    BY InboxIds
  <2>8. thread'["tg"].pc \in {"find", "erase"} =>
           thread'["tg"] = thread["tg"] /\ thread["tg"].id \in QueryId
    BY <2>1 DEF Threads, TypeOK, InMap
  <2>9. \A r \in QueryId : r > current_query_id =>
           td'[r] = "none" /\ promise'[r] = "none"
    <3>1. \A r \in QueryId : r > current_query_id => r # p
      BY <2>3 DEF TypeOK, QueryId
    <3> QED
      BY <2>1, <2>2, <3>1 DEF QueryInv
  <2>a. \A u \in Threads : InSend(u)' => thread'[u].id <= current_query_id'
    BY <2>1 DEF QueryInv, InSend
  <2>b. \A u \in Threads : InSend(u)' => thread'[u] = thread[u]
    BY <2>1 DEF InSend
  <2> QED
    BY <2>1, <2>5, <2>6, <2>7, <2>8, <2>9, <2>a, <2>b DEF QueryInv
<1>12. ASSUME SignedOn, Watch PROVE QueryInv'
  BY <1>12 DEF SignedOn, Watch, tableVars, tdVars, TypeOK, QueryInv, InSend,
               Threads, ThreadState
<1>13. ASSUME GotSearch, Watch PROVE QueryInv'
  <2>1. /\ thread'["tg"] = thread["tg"]
        /\ thread'["main"].pc = thread["main"].pc
        /\ thread'["main"].id = thread["main"].id
        /\ UNCHANGED <<current_query_id, promise, td, inbox>>
    BY <1>13 DEF GotSearch, Get, tableVars, tdVars, TypeOK, Threads,
                 ThreadState
  <2> QED
    BY <2>1 DEF QueryInv, InSend, Threads
<1>14. ASSUME GotContact, Watch PROVE QueryInv'
  BY <1>14 DEF GotContact, Get, Watch, tableVars, tdVars, TypeOK, QueryInv,
               InSend, Threads, ThreadState
<1>15. ASSUME StartFails \/ CacheLoaded \/ GotReply \/ Join, Watch
       PROVE  QueryInv'
  BY <1>15 DEF StartFails, Close, CacheLoaded, GotReply, Get, Join, Watch,
               tableVars, tdVars, TypeOK, QueryInv, InSend, Threads,
               ThreadState
<1>16. ASSUME HandlerQuery, UNCHANGED raced PROVE QueryInv'
  BY <1>16 DEF HandlerQuery, Free, tableVars, tdVars, TypeOK, QueryInv, InSend,
               Threads, ThreadState
<1>17. ASSUME TdAuthorization, UNCHANGED raced PROVE QueryInv'
  <2>1. PICK a \in AuthStep[auth] :
           /\ inbox' = Append(inbox, Update(a))
           /\ UNCHANGED <<thread, current_query_id, promise, td>>
    BY <1>17 DEF TdAuthorization, tableVars
  <2>2. Update(a) \in Response /\ Update(a).id = 0
    BY AuthSteps, Responses DEF TypeOK, Update
  <2>3. thread["tg"].pc \in {"find", "erase"} => thread["tg"].id # 0
    BY TgClientAssumption DEF TypeOK, InMap, Threads, QueryId
  <2> QED
    BY <2>1, <2>2, <2>3, Added DEF QueryInv, InSend
<1>18. ASSUME Stop \/ Crash, UNCHANGED raced PROVE QueryInv'
  BY <1>18 DEF Stop, Close, Crash, tableVars, tdVars, TypeOK, QueryInv, InSend,
               Threads, ThreadState
<1>19. ASSUME NEW q \in QueryId, TdAnswer(q), UNCHANGED raced PROVE QueryInv'
  <2>1. /\ td[q] = "sent" /\ inbox' = Append(inbox, Answer(q))
        /\ UNCHANGED <<thread, current_query_id, promise>>
        /\ td'[q] = "answered"
        /\ \A r \in QueryId : r # q => td'[r] = td[r]
    BY <1>19 DEF TdAnswer, tableVars, TypeOK
  <2>2. Answer(q) \in Response /\ Answer(q).id = q
    BY Responses DEF Answer
  <2>3. \A i \in DOMAIN inbox : inbox[i].id # q /\
           (inbox[i].id # 0 => inbox[i].id \in QueryId)
    <3>1. q # 0
      BY DEF QueryId
    <3> QED
      BY <2>1, <3>1, InboxIds DEF QueryInv
  <2>4. /\ \A i \in DOMAIN inbox' :
              inbox'[i].id # 0 => td'[inbox'[i].id] = "answered"
        /\ \A i, j \in DOMAIN inbox' :
              inbox'[i].id # 0 /\ inbox'[i].id = inbox'[j].id => i = j
    BY <2>1, <2>2, <2>3, Added DEF QueryInv
  <2>5. /\ \A r \in QueryId : r > current_query_id => r # q
        /\ \A u \in Threads :
              InSend(u) => thread[u].id \in QueryId /\ thread[u].id # q
    BY <2>1 DEF QueryInv, TypeOK
  <2>6. thread["tg"].pc \in {"find", "erase"} =>
           thread["tg"].id \in QueryId /\ thread["tg"].id # q
    BY <2>1 DEF QueryInv, TypeOK, InMap, Threads
  <2>7. thread["tg"].pc \in {"find", "erase"} =>
           \A i \in DOMAIN inbox' : inbox'[i].id # thread["tg"].id
    BY <2>1, <2>2, <2>6, Added DEF QueryInv
  <2> QED
    BY <2>1, <2>4, <2>5, <2>6, <2>7 DEF QueryInv, InSend
<1> QED
  BY <1>0, <1>1, <1>2, <1>3, <1>4, <1>5, <1>6, <1>7, <1>8, <1>9, <1>10, <1>11,
     <1>12, <1>13, <1>14, <1>15, <1>16, <1>17, <1>18, <1>19
     DEF Next, TgThread, Main, Environment, Answers, SendQuery, Threads

(* Every step keeps the handlers and the queries together. *)
LEMMA NextHandler ==
    TypeOK /\ TurnInv /\ QueryInv /\ HandlerInv /\ [Next]_vars => HandlerInv'
<1> SUFFICES ASSUME TypeOK, TurnInv, QueryInv, HandlerInv, [Next]_vars
             PROVE  HandlerInv'
  OBVIOUS
<1>0. CASE UNCHANGED vars
  BY <1>0 DEF vars, tableVars, tdVars, TypeOK, QueryInv, HandlerInv,
              NoStaleHandler, InMap, InSend, Threads, ThreadState
<1>1. ASSUME LoopTest, Watch PROVE HandlerInv'
  BY <1>1 DEF LoopTest, Free, Watch, tableVars, tdVars, TypeOK, QueryInv,
              HandlerInv, NoStaleHandler, InMap, InSend, Threads, ThreadState
<1>2. ASSUME ReceiveTimeout, Watch PROVE HandlerInv'
  BY <1>2 DEF ReceiveTimeout, Watch, tableVars, tdVars, TypeOK, QueryInv,
              HandlerInv, NoStaleHandler, InMap, InSend, Threads, ThreadState
<1>3. ASSUME NEW q \in QueryId, ReceiveAnswer(q), Watch PROVE HandlerInv'
  <2>1. /\ inbox # << >> /\ inbox[1].id = q /\ inbox' = Tail(inbox)
        /\ UNCHANGED <<td, handlers>>
        /\ thread'["main"] = thread["main"]
        /\ thread'["tg"].pc = "find" /\ thread'["tg"].id = q
        /\ thread["tg"].pc = "receive"
    BY <1>3, Taken DEF ReceiveAnswer, Received, tableVars, TypeOK, Threads,
                       ThreadState
  <2>2. raced => raced'
    BY <1>3 DEF Watch
  <2>3. /\ \A i \in DOMAIN inbox' : inbox'[i].id # 0 /\ ~ raced =>
              handlers[inbox'[i].id] # "none"
        /\ ~ raced => handlers[q] # "none"
    <3>1. q # 0
      BY DEF QueryId
    <3> QED
      BY <2>1, <3>1, Taken DEF HandlerInv
  <2>4. NoStaleHandler'
    <3>1. \A r \in QueryId :
             r # q /\ (\E i \in DOMAIN inbox : inbox[i].id = r) =>
             \E i \in DOMAIN inbox' : inbox'[i].id = r
      <4>1. ASSUME NEW r \in QueryId, r # q, NEW i \in DOMAIN inbox,
                   inbox[i].id = r
            PROVE  i - 1 \in DOMAIN inbox' /\ inbox'[i - 1].id = r
        BY <2>1, <4>1, Taken
      <4> QED
        BY <4>1
    <3> QED
      BY <2>1, <2>2, <3>1 DEF HandlerInv, NoStaleHandler
  <2> QED
    BY <2>1, <2>2, <2>3, <2>4 DEF HandlerInv, Threads
<1>4. ASSUME RunHandler, Watch PROVE HandlerInv'
  BY <1>4 DEF RunHandler, Watch, tableVars, tdVars, TypeOK, QueryInv,
              HandlerInv, NoStaleHandler, InMap, InSend, Threads, ThreadState
<1>5. ASSUME NoHandler, Watch PROVE HandlerInv'
  BY <1>5 DEF NoHandler, Done, Watch, tableVars, tdVars, TypeOK, QueryInv,
              HandlerInv, NoStaleHandler, InMap, InSend, Threads, ThreadState
<1>6. ASSUME Erase, Watch PROVE HandlerInv'
  BY <1>6 DEF Erase, Done, Watch, tableVars, tdVars, TypeOK, QueryInv,
              HandlerInv, NoStaleHandler, InMap, InSend, Threads, ThreadState
<1>7. ASSUME NEW a \in AuthState, OnAuthorizationWait(a), Watch
      PROVE  HandlerInv'
  <2>1. /\ inbox # << >> /\ inbox[1].id = 0 /\ inbox' = Tail(inbox)
        /\ UNCHANGED <<td, handlers>>
        /\ thread'["main"] = thread["main"]
        /\ thread'["tg"].pc = "idle" /\ thread["tg"].pc = "receive"
    BY <1>7, Taken DEF OnAuthorizationWait, Received, tableVars, TypeOK,
                       Threads, ThreadState
  <2>2. raced => raced'
    BY <1>7 DEF Watch
  <2>3. \A i \in DOMAIN inbox' : inbox'[i].id # 0 /\ ~ raced =>
           handlers[inbox'[i].id] # "none"
    BY <2>1, Taken DEF HandlerInv
  <2>4. NoStaleHandler'
    <3>1. \A r \in QueryId : (\E i \in DOMAIN inbox : inbox[i].id = r) =>
             \E i \in DOMAIN inbox' : inbox'[i].id = r
      <4>1. ASSUME NEW r \in QueryId, NEW i \in DOMAIN inbox, inbox[i].id = r
            PROVE  i - 1 \in DOMAIN inbox' /\ inbox'[i - 1].id = r
        BY <2>1, <4>1, Taken DEF QueryId
      <4> QED
        BY <4>1
    <3> QED
      BY <2>1, <2>2, <3>1 DEF HandlerInv, NoStaleHandler
  <2> QED
    BY <2>1, <2>2, <2>3, <2>4 DEF HandlerInv, Threads
<1>8. ASSUME NEW a \in AuthState, OnAuthorizationVerdict(a), Watch
      PROVE  HandlerInv'
  <2>1. /\ inbox # << >> /\ inbox[1].id = 0 /\ inbox' = Tail(inbox)
        /\ UNCHANGED <<td, handlers>>
        /\ thread'["main"] = thread["main"]
        /\ thread'["tg"].pc = "idle" /\ thread["tg"].pc = "receive"
    BY <1>8, Taken DEF OnAuthorizationVerdict, Received, tableVars, TypeOK,
                       Threads, ThreadState
  <2>2. raced => raced'
    BY <1>8 DEF Watch
  <2>3. \A i \in DOMAIN inbox' : inbox'[i].id # 0 /\ ~ raced =>
           handlers[inbox'[i].id] # "none"
    BY <2>1, Taken DEF HandlerInv
  <2>4. NoStaleHandler'
    <3>1. \A r \in QueryId : (\E i \in DOMAIN inbox : inbox[i].id = r) =>
             \E i \in DOMAIN inbox' : inbox'[i].id = r
      <4>1. ASSUME NEW r \in QueryId, NEW i \in DOMAIN inbox, inbox[i].id = r
            PROVE  i - 1 \in DOMAIN inbox' /\ inbox'[i - 1].id = r
        BY <2>1, <4>1, Taken DEF QueryId
      <4> QED
        BY <4>1
    <3> QED
      BY <2>1, <2>2, <3>1 DEF HandlerInv, NoStaleHandler
  <2> QED
    BY <2>1, <2>2, <2>3, <2>4 DEF HandlerInv, Threads
<1>9. ASSUME NEW t \in Threads, TakeId(t), Watch PROVE HandlerInv'
  BY <1>9 DEF TakeId, Watch, tableVars, tdVars, TypeOK, QueryInv, HandlerInv,
              NoStaleHandler, InMap, InSend, Threads, ThreadState
<1>10. ASSUME NEW t \in Threads, Emplace(t), Watch PROVE HandlerInv'
  <2> DEFINE p == thread[t].id
  <2>1. /\ InSend(t) /\ p \in QueryId /\ UNCHANGED <<td, inbox>>
        /\ thread'[t].pc = "send" /\ thread'[t].id = p
        /\ \A u \in Threads : u # t => thread'[u] = thread[u]
    BY <1>10 DEF Emplace, tdVars, TypeOK, ThreadState, InSend
  <2>2. raced => raced'
    BY <1>10 DEF Watch
  <2>3. /\ \A r \in QueryId : r # p => handlers'[r] = handlers[r]
        /\ ~ raced => handlers'[p] = t
        /\ \A r \in QueryId : handlers[r] # "none" => handlers'[r] # "none"
        /\ t # "none"
    BY <1>10, <2>1 DEF Emplace, TypeOK, Threads
  <2>4. td[p] = "none"
    BY <2>1 DEF QueryInv
  <2>5. /\ thread'["tg"].pc \in {"find", "erase"} =>
              thread'["tg"] = thread["tg"]
        /\ thread["tg"].pc \in {"find", "erase"} =>
              thread'["tg"] = thread["tg"] /\ thread["tg"].id \in QueryId
    <3>1. thread["tg"].pc \in {"find", "erase"} =>
             t # "tg" /\ thread["tg"].id \in QueryId
      BY <2>1 DEF InSend, TypeOK, InMap, Threads
    <3> QED
      BY <2>1, <3>1 DEF Threads
  <2>6. NoStaleHandler'
    BY <2>1, <2>2, <2>3, <2>4, <2>5 DEF HandlerInv, NoStaleHandler
  <2>7. \A u \in Threads : thread'[u].pc = "send" /\ ~ raced =>
           handlers'[thread'[u].id] # "none"
    <3>1. ASSUME NEW u \in Threads, u # t, thread[u].pc = "send", ~ raced
          PROVE  handlers'[thread[u].id] # "none"
      BY <3>1, <2>3 DEF HandlerInv, TypeOK, InSend
    <3> QED
      BY <2>1, <2>3, <3>1
  <2>8. \A i \in DOMAIN inbox : inbox[i].id # 0 => inbox[i].id \in QueryId
    BY InboxIds
  <2> QED
    BY <2>1, <2>2, <2>3, <2>5, <2>6, <2>7, <2>8 DEF HandlerInv
<1>11. ASSUME NEW t \in Threads, Transmit(t), Watch PROVE HandlerInv'
  BY <1>11 DEF Transmit, Done, Watch, tableVars, tdVars, TypeOK, QueryInv,
               HandlerInv, NoStaleHandler, InMap, InSend, Threads, ThreadState
<1>12. ASSUME SignedOn, Watch PROVE HandlerInv'
  BY <1>12 DEF SignedOn, Watch, tableVars, tdVars, TypeOK, QueryInv,
               HandlerInv, NoStaleHandler, InMap, InSend, Threads, ThreadState
<1>13. ASSUME GotSearch, Watch PROVE HandlerInv'
  BY <1>13 DEF GotSearch, Get, Free, Watch, tableVars, tdVars, TypeOK,
               QueryInv, HandlerInv, NoStaleHandler, InMap, InSend, Threads,
               ThreadState
<1>14. ASSUME GotContact, Watch PROVE HandlerInv'
  BY <1>14 DEF GotContact, Get, Watch, tableVars, tdVars, TypeOK, QueryInv,
               HandlerInv, NoStaleHandler, InMap, InSend, Threads, ThreadState
<1>15. ASSUME StartFails \/ CacheLoaded \/ GotReply \/ Join, Watch
       PROVE  HandlerInv'
  BY <1>15 DEF StartFails, Close, CacheLoaded, GotReply, Get, Join, Watch,
               tableVars, tdVars, TypeOK, QueryInv, HandlerInv, NoStaleHandler,
               InMap, InSend, Threads, ThreadState
<1>16. ASSUME HandlerQuery, UNCHANGED raced PROVE HandlerInv'
  BY <1>16 DEF HandlerQuery, Free, tableVars, tdVars, TypeOK, QueryInv,
               HandlerInv, NoStaleHandler, InMap, InSend, Threads, ThreadState
<1>17. ASSUME TdAuthorization, UNCHANGED raced PROVE HandlerInv'
  <2>1. PICK a \in AuthStep[auth] :
           /\ inbox' = Append(inbox, Update(a))
           /\ UNCHANGED <<thread, handlers, td, raced>>
    BY <1>17 DEF TdAuthorization, tableVars
  <2>2. Update(a) \in Response /\ Update(a).id = 0
    BY AuthSteps, Responses DEF TypeOK, Update
  <2>3. NoStaleHandler'
    BY <2>1, <2>2, Added DEF HandlerInv, NoStaleHandler
  <2> QED
    BY <2>1, <2>2, <2>3, Added DEF HandlerInv
<1>18. ASSUME Stop \/ Crash, UNCHANGED raced PROVE HandlerInv'
  BY <1>18 DEF Stop, Close, Crash, tableVars, tdVars, TypeOK, QueryInv,
               HandlerInv, NoStaleHandler, InMap, InSend, Threads, ThreadState
<1>19. ASSUME NEW q \in QueryId, TdAnswer(q), UNCHANGED raced PROVE HandlerInv'
  <2>1. /\ td[q] = "sent" /\ inbox' = Append(inbox, Answer(q))
        /\ UNCHANGED <<thread, handlers, raced>>
        /\ td'[q] = "answered"
        /\ \A r \in QueryId : r # q => td'[r] = td[r]
    BY <1>19 DEF TdAnswer, tableVars, TypeOK
  <2>2. Answer(q) \in Response /\ Answer(q).id = q
    BY Responses DEF Answer
  <2>3. NoStaleHandler'
    <3>1. \E i \in DOMAIN inbox' : inbox'[i].id = q
      BY <2>1, <2>2, Added
    <3>2. \A r \in QueryId : (\E i \in DOMAIN inbox : inbox[i].id = r) =>
             \E i \in DOMAIN inbox' : inbox'[i].id = r
      BY <2>1, <2>2, Added
    <3> QED
      BY <2>1, <3>1, <3>2 DEF HandlerInv, NoStaleHandler
  <2> QED
    BY <2>1, <2>2, <2>3, Added DEF HandlerInv
<1> QED
  BY <1>0, <1>1, <1>2, <1>3, <1>4, <1>5, <1>6, <1>7, <1>8, <1>9, <1>10, <1>11,
     <1>12, <1>13, <1>14, <1>15, <1>16, <1>17, <1>18, <1>19
     DEF Next, TgThread, Main, Environment, Answers, SendQuery, Threads

(* Every step keeps what is known of the promises. *)
LEMMA NextPromise ==
    TypeOK /\ TurnInv /\ QueryInv /\ PromiseInv /\ [Next]_vars => PromiseInv'
<1> SUFFICES ASSUME TypeOK, TurnInv, QueryInv, PromiseInv, [Next]_vars
             PROVE  PromiseInv'
  OBVIOUS
<1>0. CASE UNCHANGED vars
  BY <1>0 DEF vars, tableVars, tdVars, TypeOK, QueryInv, PromiseInv, InMap,
              InSend, Threads, ThreadState
<1>1. ASSUME LoopTest, Watch PROVE PromiseInv'
  BY <1>1 DEF LoopTest, Free, Watch, tableVars, tdVars, TypeOK, QueryInv,
              PromiseInv, InMap, InSend, Threads, ThreadState
<1>2. ASSUME ReceiveTimeout, Watch PROVE PromiseInv'
  BY <1>2 DEF ReceiveTimeout, Watch, tableVars, tdVars, TypeOK, QueryInv,
              PromiseInv, InMap, InSend, Threads, ThreadState
<1>3. ASSUME NEW q \in QueryId, ReceiveAnswer(q), Watch PROVE PromiseInv'
  BY <1>3 DEF ReceiveAnswer, Received, Watch, tableVars, tdVars, TypeOK,
              QueryInv, PromiseInv, InMap, InSend, Threads, ThreadState
<1>4. ASSUME RunHandler, Watch PROVE PromiseInv'
  BY <1>4 DEF RunHandler, Watch, tableVars, tdVars, TypeOK, QueryInv,
              PromiseInv, InMap, InSend, Threads, ThreadState
<1>5. ASSUME NoHandler, Watch PROVE PromiseInv'
  BY <1>5 DEF NoHandler, Done, Watch, tableVars, tdVars, TypeOK, QueryInv,
              PromiseInv, InMap, InSend, Threads, ThreadState
<1>6. ASSUME Erase, Watch PROVE PromiseInv'
  BY <1>6 DEF Erase, Done, Watch, tableVars, tdVars, TypeOK, QueryInv,
              PromiseInv, InMap, InSend, Threads, ThreadState
<1>7. ASSUME NEW a \in AuthState, OnAuthorizationWait(a), Watch
      PROVE  PromiseInv'
  BY <1>7 DEF OnAuthorizationWait, Received, Replies, Watch, tableVars, tdVars,
              TypeOK, QueryInv, PromiseInv, InMap, InSend, Threads, ThreadState
<1>8. ASSUME NEW a \in AuthState, OnAuthorizationVerdict(a), Watch
      PROVE  PromiseInv'
  BY <1>8 DEF OnAuthorizationVerdict, Received, SetReady, Watch, tableVars,
              tdVars, TypeOK, QueryInv, PromiseInv, InMap, InSend, Threads,
              ThreadState
<1>9. ASSUME NEW t \in Threads, TakeId(t), Watch PROVE PromiseInv'
  <2> DEFINE p == current_query_id + 1
  <2>1. /\ p \in QueryId /\ handlers' = handlers
        /\ thread'[t].id = p /\ thread'[t].pc = "emplace"
        /\ \A u \in Threads : u # t => thread'[u] = thread[u]
    BY <1>9 DEF TakeId, TypeOK, ThreadState, QueryId
  <2>2. /\ \A r \in QueryId : promise[r] # "none" => promise'[r] # "none"
        /\ t = "main" => promise'[p] # "none"
    BY <1>9, <2>1 DEF TakeId, TypeOK
  <2>3. InSend("main")' => promise'[thread'["main"].id] # "none"
    <3>1. CASE t = "main"
      BY <3>1, <2>1, <2>2
    <3>2. CASE t # "main"
      BY <3>2, <2>1, <2>2 DEF PromiseInv, TypeOK, InSend, Threads
    <3> QED
      BY <3>1, <3>2
  <2> QED
    BY <1>9, <2>1, <2>2, <2>3 DEF PromiseInv, Watch, Threads
<1>10. ASSUME NEW t \in Threads, Emplace(t), Watch PROVE PromiseInv'
  BY <1>10 DEF Emplace, Watch, tableVars, tdVars, TypeOK, QueryInv, PromiseInv,
               InMap, InSend, Threads, ThreadState
<1>11. ASSUME NEW t \in Threads, Transmit(t), Watch PROVE PromiseInv'
  BY <1>11 DEF Transmit, Done, Watch, tableVars, tdVars, TypeOK, QueryInv,
               PromiseInv, InMap, InSend, Threads, ThreadState
<1>12. ASSUME SignedOn, Watch PROVE PromiseInv'
  BY <1>12 DEF SignedOn, Watch, tableVars, tdVars, TypeOK, QueryInv,
               PromiseInv, InMap, InSend, Threads, ThreadState
<1>13. ASSUME GotSearch, Watch PROVE PromiseInv'
  BY <1>13 DEF GotSearch, Get, Free, Watch, tableVars, tdVars, TypeOK,
               QueryInv, PromiseInv, InMap, InSend, Threads, ThreadState
<1>14. ASSUME GotContact, Watch PROVE PromiseInv'
  BY <1>14 DEF GotContact, Get, Watch, tableVars, tdVars, TypeOK, QueryInv,
               PromiseInv, InMap, InSend, Threads, ThreadState
<1>15. ASSUME StartFails \/ CacheLoaded \/ GotReply \/ Join, Watch
       PROVE  PromiseInv'
  BY <1>15 DEF StartFails, Close, CacheLoaded, GotReply, Get, Join, Watch,
               tableVars, tdVars, TypeOK, QueryInv, PromiseInv, InMap, InSend,
               Threads, ThreadState
<1>16. ASSUME HandlerQuery, UNCHANGED raced PROVE PromiseInv'
  BY <1>16 DEF HandlerQuery, Free, tableVars, tdVars, TypeOK, QueryInv,
               PromiseInv, InMap, InSend, Threads, ThreadState
<1>17. ASSUME TdAuthorization, UNCHANGED raced PROVE PromiseInv'
  BY <1>17 DEF TdAuthorization, tableVars, tdVars, TypeOK, QueryInv,
               PromiseInv, InMap, InSend, Threads, ThreadState
<1>18. ASSUME Stop \/ Crash, UNCHANGED raced PROVE PromiseInv'
  BY <1>18 DEF Stop, Close, Crash, tableVars, tdVars, TypeOK, QueryInv,
               PromiseInv, InMap, InSend, Threads, ThreadState
<1>19. ASSUME NEW q \in QueryId, TdAnswer(q), UNCHANGED raced PROVE PromiseInv'
  BY <1>19 DEF TdAnswer, tableVars, tdVars, TypeOK, QueryInv, PromiseInv,
               InMap, InSend, Threads, ThreadState
<1> QED
  BY <1>0, <1>1, <1>2, <1>3, <1>4, <1>5, <1>6, <1>7, <1>8, <1>9, <1>10, <1>11,
     <1>12, <1>13, <1>14, <1>15, <1>16, <1>17, <1>18, <1>19
     DEF Next, TgThread, Main, Environment, Answers, SendQuery, Threads


(* So every step keeps the invariant. *)
LEMMA NextInv == Inv /\ [Next]_vars => Inv'
  BY NextType, NextOrder, NextTurn, NextQuery, NextHandler, NextPromise DEF Inv

(* And it always holds. *)
LEMMA AlwaysInv == Spec => []Inv
  BY InitInv, NextInv, PTL DEF Spec

-----------------------------------------------------------------------------
(* next_query_id and the table (tg.cpp:164) are never used by both threads *)
(* inside send_query at once, though no lock keeps them apart: the         *)
(* Telegram thread has nothing left to send when the verdict lets main go. *)
THEOREM Senders_Exclude == Spec => []SendersExclude
<1>1. Inv => SendersExclude
  BY DEF Inv, TurnInv, SendersExclude
<1> QED
  BY <1>1, AlwaysInv, PTL

(* As long as handlers was not raced, process_response (tg.cpp:104) finds  *)
(* the handler of every answer, and an entry goes when its answer has been *)
(* handled.                                                                *)
THEOREM Handlers_MatchQueries == Spec => []HandlersMatchQueries
<1>1. Inv => HandlersMatchQueries
  BY DEF Inv, HandlerInv, AnswerFindsHandler, HandlersMatchQueries
<1> QED
  BY <1>1, AlwaysInv, PTL

-----------------------------------------------------------------------------
(* The refinement: what a step does to the promises and to the soundness   *)
(* of the process.                                                         *)
Asked == {q \in QueryId : promise[q] # "none"}
Answered == {q \in QueryId : promise[q] = "set"}
Sound == Up /\ ~ raced

(* A step that touches no promise is a stutter or a failure. *)
LEMMA QuietStep ==
    ASSUME promise' = promise, Sound' => Sound
    PROVE  [QS!Next]_(QS!vars)
  BY DEF QS!Next, QS!vars, QS!Fail, Sound

(* Asking and answering are steps of the service. *)
LEMMA AskOrAnswerStep ==
    ASSUME NEW q \in QueryId, QS!Ask(q) \/ QS!Answer(q)
    PROVE  [QS!Next]_(QS!vars)
  BY DEF QS!Next

(* The client starts as the service does. *)
LEMMA RefinesInit == Init => QS!Init
  BY DEF Init, QS!Init, Up

(* Every step is a step of the service or a stutter. *)
LEMMA RefinesNext == Inv /\ [Next]_vars => [QS!Next]_(QS!vars)
<1> SUFFICES ASSUME Inv, [Next]_vars PROVE [QS!Next]_(QS!vars)
  OBVIOUS
<1>0. CASE UNCHANGED vars
  BY <1>0, QuietStep DEF vars, tableVars, Sound, Up
<1>1. ASSUME NEW t \in Threads, TakeId(t), Watch, Up PROVE [QS!Next]_(QS!vars)
  <2>1. Sound' => Sound
    BY <1>1 DEF Watch, Sound
  <2>2. CASE t # "main"
    BY <1>1, <2>1, <2>2, QuietStep DEF TakeId
  <2>3. CASE t = "main"
    <3>0. current_query_id + 1 \in QueryId
      BY <1>1 DEF TakeId, Inv, TypeOK, QueryId
    <3>1. PICK p \in QueryId :
             /\ p = current_query_id + 1 /\ phase' = phase
             /\ promise' = [promise EXCEPT ![p] = "unset"]
      BY <1>1, <2>3, <3>0 DEF TakeId
    <3>2. /\ promise[p] = "none"
          /\ promise \in [QueryId -> {"none", "unset", "set"}]
      BY <3>1 DEF Inv, TypeOK, QueryInv, QueryId
    <3>3. /\ Asked' = Asked \cup {p} /\ p \notin Asked
          /\ Answered' = Answered
      BY <3>1, <3>2 DEF Asked, Answered
    <3>4. CASE Sound' = Sound
      <4>1. QS!Ask(p)
        BY <3>1, <3>3, <3>4 DEF QS!Ask, Asked, Answered, Sound
      <4> QED
        BY <4>1, AskOrAnswerStep
    <3>5. CASE Sound /\ ~ Sound'
      <4>1. QS!Fail
        BY <3>1, <3>3, <3>5 DEF QS!Fail, Asked, Answered, Sound
      <4> QED
        BY <4>1 DEF QS!Next
    <3> QED
      BY <2>1, <3>4, <3>5 DEF Sound
  <2> QED
    BY <2>2, <2>3
<1>2. ASSUME RunHandler, Watch, Up PROVE [QS!Next]_(QS!vars)
  <2>0. PICK q \in QueryId : q = thread["tg"].id
    BY <1>2 DEF RunHandler, InMap, Inv, TypeOK, Threads
  <2>1. InMap("tg") /\ InMap("tg")' /\ phase' = phase
    BY <1>2 DEF RunHandler, InMap, Inv, TypeOK, Threads, ThreadState
  <2>2. InMap("main")' = InMap("main")
    BY <1>2 DEF RunHandler, InMap, Inv, TypeOK, Threads
  <2>3. Sound' = Sound
    BY <1>2, <2>1, <2>2 DEF Watch, Sound, Up, Inv, PromiseInv, TypeOK, Threads
  <2>4. CASE handlers[q] # "main" \/ promise[q] = "set"
    <3>1. promise' = promise
      BY <1>2, <2>0, <2>4 DEF RunHandler, Inv, TypeOK
    <3> QED
      BY <2>3, <3>1, QuietStep
  <2>5. CASE handlers[q] = "main" /\ promise[q] # "set"
    <3>1. promise' = [promise EXCEPT ![q] = "set"] /\ promise[q] = "unset"
      BY <1>2, <2>0, <2>5 DEF RunHandler, Inv, TypeOK, PromiseInv
    <3>2. promise \in [QueryId -> {"none", "unset", "set"}]
      BY DEF Inv, TypeOK
    <3>3. /\ Asked' = Asked /\ q \in Asked /\ q \notin Answered
          /\ Answered' = Answered \cup {q}
      BY <3>1, <3>2 DEF Asked, Answered
    <3>4. QS!Answer(q)
      BY <2>3, <3>3 DEF QS!Answer, Asked, Answered, Sound
    <3> QED
      BY <3>4, AskOrAnswerStep
  <2> QED
    BY <2>4, <2>5
<1>3. ASSUME Up, promise' = promise, raced => raced'
      PROVE  [QS!Next]_(QS!vars)
  BY <1>3, QuietStep DEF Sound
<1>4. ASSUME TgThread PROVE [QS!Next]_(QS!vars)
  <2>1. CASE RunHandler \/ TakeId("tg")
    BY <1>1, <1>2, <1>4, <2>1 DEF TgThread, Threads
  <2>2. CASE ~ RunHandler /\ ~ TakeId("tg")
    <3>1. promise' = promise
      BY <1>4, <2>2 DEF TgThread, LoopTest, ReceiveTimeout, SendQuery, Emplace,
           Transmit, ReceiveAnswer, NoHandler, Erase, OnAuthorizationWait,
           OnAuthorizationVerdict, tableVars
    <3> QED
      BY <1>3, <1>4, <3>1 DEF TgThread, Watch
  <2> QED
    BY <2>1, <2>2
<1>5. ASSUME Main PROVE [QS!Next]_(QS!vars)
  <2>1. CASE TakeId("main")
    BY <1>1, <1>5, <2>1 DEF Main, Threads
  <2>2. CASE ~ TakeId("main")
    <3>1. promise' = promise
      BY <1>5, <2>2 DEF Main, SignedOn, StartFails, SendQuery, Emplace,
           Transmit, GotSearch, GotContact, CacheLoaded, GotReply, Get, Join,
           tableVars
    <3> QED
      BY <1>3, <1>5, <3>1 DEF Main, Watch
  <2> QED
    BY <2>1, <2>2
<1>6. ASSUME Environment PROVE [QS!Next]_(QS!vars)
  <2>1. promise' = promise
    BY <1>6 DEF Environment, HandlerQuery, Stop, TdAuthorization, Crash,
                tableVars
  <2> QED
    BY <1>3, <1>6, <2>1 DEF Environment
<1>7. ASSUME NEW q \in QueryId, Answers(q) PROVE [QS!Next]_(QS!vars)
  BY <1>3, <1>7 DEF Answers, TdAnswer, tableVars
<1> QED
  BY <1>0, <1>4, <1>5, <1>6, <1>7 DEF Next

(* The safety of QueryService: a query asked through send_query_async gets *)
(* at most one answer, and only if it was asked; whatever TDLib and the    *)
(* threads do, a promise is fulfilled once (tg.cpp:104, 143).          *)
THEOREM Implements_Safety == Spec => QS!Spec
  BY RefinesInit, RefinesNext, AlwaysInv, PTL DEF Spec, QS!Spec

=============================================================================
