---------------------------- MODULE GenDbProofs ----------------------------
(***************************************************************************)
(* Proofs about GenDb, for any number of queries, refusals and expiries.   *)
(***************************************************************************)
EXTENDS GenDb, TLAPS

(* An id belongs to one query, which is at TDLib or whose answer is in the *)
(* inbox, once.                                                            *)
QueryIds ==
    /\ \A q \in QueryId : handlers[q] # NoHandler => q <= current_query_id
    /\ \A m \in td : m.id <= current_query_id
    /\ \A i \in DOMAIN inbox : inbox[i].id <= current_query_id
    /\ \A m, n \in td : m.id = n.id => m = n
    /\ \A i \in DOMAIN inbox : \A m \in td : inbox[i].id # m.id
    /\ \A i, j \in DOMAIN inbox :
          inbox[i].id # 0 /\ inbox[i].id = inbox[j].id => i = j

(* A handler with the present authentication_query_id is that of the last  *)
(* question alone: it is stored when the one query that asks is sent.      *)
LastQuery ==
    /\ todo # << >> => authentication_query_id >= 1
    /\ \A i \in DOMAIN todo : todo[i] # "proxy" =>
          /\ i = 1
          /\ \A q \in QueryId : handlers[q] # authentication_query_id
    /\ \A q, r \in QueryId :
          /\ authentication_query_id >= 1
          /\ handlers[q] = authentication_query_id
          /\ handlers[r] = authentication_query_id
          => q = r

(* Neither part keeps itself: that an answer is the last query's needs the *)
(* ids to be told apart, and the ids say nothing of the states.            *)
GenInv == TypeOK /\ QueryIds /\ LastQuery

LEMMA MovesType ==
    /\ AuthState =
          {"WaitTdlibParameters", "WaitEncryptionKey", "WaitPhoneNumber",
           "WaitCode", "WaitRegistration", "WaitPassword", "Closing", "Ready",
           "WaitOtherDeviceConfirmation", "LoggingOut", "Closed"}
    /\ \A s \in AuthState : Moves[s] \subseteq AuthState
  BY DEF AuthState, Moves

LEMMA RepliesType ==
    ASSUME NEW s
    PROVE  /\ Replies(s) \in Seq(Purpose)
           /\ \A i \in DOMAIN Replies(s) : Replies(s)[i] # "proxy" => i = 1
<1>1. CASE s = "WaitEncryptionKey"
  <2>1. Replies(s) = <<s, "proxy">>
    BY <1>1 DEF Replies, Asks
  <2>2. s \in Purpose /\ "proxy" \in Purpose
    BY <1>1 DEF Purpose, Asks
  <2> QED  BY <2>1, <2>2
<1>2. CASE s \in Asks \ {"WaitEncryptionKey"}
  <2>1. Replies(s) = <<s>>
    BY <1>2 DEF Replies, Asks
  <2>2. s \in Purpose
    BY <1>2 DEF Purpose
  <2> QED  BY <2>1, <2>2
<1>3. CASE s \notin Asks
  <2>1. Replies(s) = << >>
    BY <1>3 DEF Replies, Asks
  <2> QED  BY <2>1
<1> QED  BY <1>1, <1>2, <1>3

LEMMA InitGen == Init => GenInv
<1> SUFFICES ASSUME Init
             PROVE  GenInv
  OBVIOUS
<1>1. Update("WaitTdlibParameters") \in Response
  BY MovesType DEF Update, Response
<1>2. inbox \in Seq(Response) /\ DOMAIN inbox = {1} /\ inbox[1].id = 0
  BY <1>1 DEF Init, Update
<1>3. handlers = [q \in QueryId |-> NoHandler] /\ td = {} /\ todo = << >>
  BY DEF Init
<1>4. TypeOK
  <2>1. "WaitTdlibParameters" \in AuthState
    BY MovesType
  <2>2. handlers \in [QueryId -> {NoHandler, Ignore} \cup
                                 1 .. authentication_query_id]
    BY <1>3
  <2>3. sequence_done \in BOOLEAN
    BY DEF Init
  <2> QED  BY <1>2, <1>3, <2>1, <2>2, <2>3, GenDbAssumption DEF Init, TypeOK
<1>5. QueryIds
  BY <1>2, <1>3 DEF Init, QueryIds
<1>6. LastQuery
  BY <1>3 DEF Init, LastQuery
<1> QED  BY <1>4, <1>5, <1>6 DEF GenInv

(* A new state, or the same put again, is newer than every handler. *)
LEMMA StateStep ==
    ASSUME GenInv, NEW s \in AuthState \cup {"none"},
           OnAuthorizationStateUpdate(s)
    PROVE  /\ authorization_state' \in AuthState \cup {"none"}
           /\ sequence_done' \in BOOLEAN
           /\ authentication_query_id' \in Nat
           /\ authentication_query_id' = authentication_query_id + 1
           /\ todo' \in Seq(Purpose)
           /\ \A i \in DOMAIN todo' : todo'[i] # "proxy" => i = 1
           /\ \A q \in QueryId : handlers[q] # authentication_query_id'
  BY RepliesType
     DEF GenInv, TypeOK, OnAuthorizationStateUpdate, NoHandler, Ignore, Final

LEMMA InboxTail ==
    ASSUME GenInv, Received
    PROVE  /\ Head(inbox) = inbox[1] /\ 1 \in DOMAIN inbox
           /\ inbox[1] \in Response
           /\ inbox' \in Seq(Response)
           /\ DOMAIN inbox' = 1 .. (Len(inbox) - 1)
           /\ \A i \in DOMAIN inbox' :
                 i + 1 \in DOMAIN inbox /\ inbox'[i] = inbox[i + 1]
  BY DEF GenInv, TypeOK, Received

LEMMA ReceivedIds ==
    ASSUME GenInv, Received, NEW q \in QueryId,
           \/ handlers' = handlers
           \/ handlers' = [handlers EXCEPT ![q] = NoHandler]
    PROVE  QueryIds'
<1>1. inbox \in Seq(Response)
  BY DEF GenInv, TypeOK
<1>2. \A p \in QueryId : handlers'[p] # NoHandler => handlers[p] # NoHandler
  BY DEF GenInv, TypeOK
<1>3. current_query_id' = current_query_id /\ td' = td
  BY DEF Received
<1>4. \A i, j \in DOMAIN inbox' :
          inbox'[i].id # 0 /\ inbox'[i].id = inbox'[j].id => i = j
  <2> SUFFICES ASSUME NEW i \in DOMAIN inbox', NEW j \in DOMAIN inbox',
                      inbox'[i].id # 0, inbox'[i].id = inbox'[j].id
               PROVE  i = j
    OBVIOUS
  <2>1. i + 1 = j + 1
    BY InboxTail DEF GenInv, QueryIds
  <2> QED  BY <2>1, <1>1, InboxTail
<1> QED  BY <1>2, <1>3, <1>4, InboxTail DEF GenInv, QueryIds

LEMMA UpdateStep ==
    ASSUME GenInv, ProcessUpdate
    PROVE  GenInv'
<1>1. inbox[1] \in Response /\ inbox[1].id = 0
  BY InboxTail DEF ProcessUpdate
<1>2. inbox[1].what \in AuthState
  BY <1>1 DEF Response, QueryId
<1>3. OnAuthorizationStateUpdate(inbox[1].what)
  BY InboxTail DEF ProcessUpdate
<1>4. TypeOK'
  BY <1>2, <1>3, StateStep, InboxTail
     DEF GenInv, TypeOK, ProcessUpdate, Received
<1>5. QueryIds'
  <2>1. CASE QueryId = {}
    BY <2>1, InboxTail, GenDbAssumption
       DEF GenInv, TypeOK, QueryIds, ProcessUpdate, Received, Response,
           QueryId
  <2>2. CASE QueryId # {}
    BY <2>2, ReceivedIds DEF ProcessUpdate
  <2> QED  BY <2>1, <2>2
<1>6. LastQuery'
  BY <1>2, <1>3, StateStep DEF GenInv, TypeOK, LastQuery, ProcessUpdate
<1> QED  BY <1>4, <1>5, <1>6 DEF GenInv

LEMMA ResponseStep ==
    ASSUME GenInv, NEW q \in QueryId, ProcessResponse(q)
    PROVE  GenInv'
<1>1. handlers' = [handlers EXCEPT ![q] = NoHandler]
  BY DEF ProcessResponse
<1>2. QueryIds'
  BY <1>1, ReceivedIds DEF ProcessResponse
<1>3. CASE OnAuthorizationStateUpdate(authorization_state)
  <2>1. TypeOK'
    BY <1>1, <1>3, StateStep, InboxTail
       DEF GenInv, TypeOK, ProcessResponse, Received, NoHandler, Ignore
  <2>2. LastQuery'
    BY <1>1, <1>3, StateStep DEF GenInv, TypeOK, LastQuery, NoHandler
  <2> QED  BY <2>1, <2>2, <1>2 DEF GenInv
<1>4. CASE UNCHANGED <<clientVars, todo>>
  <2>1. TypeOK'
    BY <1>1, <1>4, InboxTail
       DEF GenInv, TypeOK, ProcessResponse, Received, NoHandler, Ignore,
           clientVars
  <2>2. LastQuery'
    BY <1>1, <1>4, InboxTail
       DEF GenInv, TypeOK, LastQuery, NoHandler, clientVars, Received,
           ProcessResponse
  <2> QED  BY <2>1, <2>2, <1>2 DEF GenInv
<1> QED  BY <1>3, <1>4 DEF ProcessResponse, AuthenticationError

LEMMA SendStep ==
    ASSUME GenInv, SendQuery
    PROVE  GenInv'
<1> DEFINE q == current_query_id + 1
           f == Head(todo)
           h == IF f = "proxy" THEN Ignore ELSE authentication_query_id
<1>1. /\ q \in QueryId /\ current_query_id' = q
      /\ handlers' = [handlers EXCEPT ![q] = h]
      /\ td' = td \cup {[id |-> q, for |-> f]}
      /\ UNCHANGED <<clientVars, td_state, inbox, trouble>>
  BY GenDbAssumption DEF GenInv, TypeOK, SendQuery, QueryId
<1>2. /\ f = todo[1] /\ f \in Purpose /\ todo' \in Seq(Purpose)
      /\ 1 \in DOMAIN todo
      /\ \A i \in DOMAIN todo' :
            i + 1 \in DOMAIN todo /\ todo'[i] = todo[i + 1] /\ i >= 1
  BY DEF GenInv, TypeOK, SendQuery
<1>3. authentication_query_id \in Nat /\ authentication_query_id >= 1
  BY DEF GenInv, TypeOK, LastQuery, SendQuery
<1> HIDE DEF f
<1>4. h \in {NoHandler, Ignore} \cup 1 .. authentication_query_id
  BY <1>3
<1>5. TypeOK'
  <2>1. [id |-> q, for |-> f] \in [id : QueryId, for : Purpose]
    BY <1>1, <1>2
  <2> HIDE DEF h
  <2>2. handlers' \in [QueryId -> {NoHandler, Ignore} \cup
                                  1 .. authentication_query_id]
    BY <1>1, <1>4 DEF GenInv, TypeOK
  <2> QED
    BY <1>1, <1>2, <2>1, <2>2 DEF GenInv, TypeOK, clientVars, QueryId
<1>6. QueryIds'
  <2>1. \A m \in td : m.id <= current_query_id /\ m.id # q
    BY DEF GenInv, TypeOK, QueryIds, QueryId
  <2>2. \A i \in DOMAIN inbox : inbox[i].id # q /\ inbox[i].id <= q
    BY DEF GenInv, TypeOK, QueryIds, QueryId, Response
  <2>3. \A p \in QueryId : handlers'[p] # NoHandler => p <= q
    BY <1>1 DEF GenInv, TypeOK, QueryIds, QueryId
  <2>4. \A m \in td' : m \in td \/ m = [id |-> q, for |-> f]
    BY <1>1
  <2>5. \A m \in td' : m.id <= q
    BY <2>1, <2>4 DEF GenInv, TypeOK, QueryId
  <2>6. \A m, n \in td' : m.id = n.id => m = n
    BY <2>1, <2>4 DEF GenInv, QueryIds
  <2>7. \A i \in DOMAIN inbox : \A m \in td' : inbox[i].id # m.id
    BY <2>2, <2>4 DEF GenInv, QueryIds
  <2>8. inbox' = inbox /\ current_query_id' = q
    BY <1>1
  <2>9. \A i, j \in DOMAIN inbox :
          inbox[i].id # 0 /\ inbox[i].id = inbox[j].id => i = j
    BY DEF GenInv, QueryIds
  <2> HIDE DEF q
  <2> QED  BY <2>2, <2>3, <2>5, <2>6, <2>7, <2>8, <2>9 DEF QueryIds
<1>7. LastQuery'
  <2>0. authentication_query_id' = authentication_query_id
    BY <1>1 DEF clientVars
  <2>1. \A i \in DOMAIN todo' : todo'[i] = "proxy"
    BY <1>2 DEF GenInv, LastQuery, TypeOK
  <2>2. handlers \in [QueryId -> Int]
    BY DEF GenInv, TypeOK, NoHandler, Ignore
  <2>3. CASE f = "proxy"
    <3>1. \A p \in QueryId : handlers'[p] = authentication_query_id =>
             handlers[p] = authentication_query_id
      BY <1>1, <1>3, <2>2, <2>3 DEF Ignore
    <3> QED  BY <2>0, <2>1, <3>1, <1>3 DEF GenInv, LastQuery
  <2>4. CASE f # "proxy"
    <3>1. \A p \in QueryId : handlers[p] # authentication_query_id
      BY <1>2, <2>4 DEF GenInv, LastQuery
    <3>2. \A p \in QueryId : handlers'[p] = authentication_query_id => p = q
      BY <1>1, <2>2, <3>1
    <3> QED  BY <2>0, <2>1, <3>2, <1>3 DEF LastQuery
  <2> QED  BY <2>3, <2>4
<1> QED  BY <1>5, <1>6, <1>7 DEF GenInv

(* TDLib takes query k away, or none (k = 0), and adds its answer and      *)
(* updates.                                                                *)
LEMMA TdlibIds ==
    ASSUME GenInv, NEW k \in 0 .. MaxQuery, k <= current_query_id,
           inbox' \in Seq(Response),
           \A n \in td' : n \in td /\ n.id # k,
           \A i \in DOMAIN inbox : inbox[i].id # 0 => inbox[i].id # k,
           \A i \in DOMAIN inbox' :
              \/ i \in DOMAIN inbox /\ inbox'[i] = inbox[i]
              \/ i \notin DOMAIN inbox /\ inbox'[i].id \in {0, k},
           \A i, j \in DOMAIN inbox' :
              i \notin DOMAIN inbox /\ j \notin DOMAIN inbox
              /\ inbox'[i].id = k /\ inbox'[j].id = k /\ k # 0 => i = j,
           UNCHANGED queryVars
    PROVE  QueryIds'
<1>1. UNCHANGED <<current_query_id, handlers>>
  BY DEF queryVars
<1>2. current_query_id \in Nat
  BY GenDbAssumption DEF GenInv, TypeOK
<1>3. \A i \in DOMAIN inbox' : inbox'[i].id <= current_query_id
  BY <1>2 DEF GenInv, QueryIds
<1>4. \A i \in DOMAIN inbox' : \A n \in td' : inbox'[i].id # n.id
  BY DEF GenInv, TypeOK, QueryIds, QueryId
<1>5. \A i, j \in DOMAIN inbox' :
          inbox'[i].id # 0 /\ inbox'[i].id = inbox'[j].id => i = j
  BY DEF GenInv, QueryIds
<1> QED  BY <1>1, <1>3, <1>4, <1>5 DEF GenInv, QueryIds

(* A step of TDLib leaves the client alone. *)
LEMMA TdlibStep ==
    ASSUME GenInv, QueryIds', UNCHANGED <<clientVars, queryVars, todo>>,
           td' \subseteq td, inbox' \in Seq(Response),
           td_state' \in AuthState, trouble' \in 0 .. MaxTrouble
    PROVE  GenInv'
<1>1. TypeOK'
  BY DEF GenInv, TypeOK, clientVars, queryVars
<1>2. LastQuery'
  BY DEF GenInv, LastQuery, clientVars, queryVars
<1> QED  BY <1>1, <1>2 DEF GenInv

LEMMA AnswerType ==
    ASSUME NEW q \in QueryId, NEW r \in {"ok", "error"}
    PROVE  Answer(q, r) \in Response /\ Answer(q, r).id = q
  BY DEF Answer, Response

LEMMA UpdateType ==
    ASSUME NEW s \in AuthState
    PROVE  Update(s) \in Response /\ Update(s).id = 0
  BY DEF Update, Response

LEMMA AcceptStep ==
    ASSUME GenInv, NEW m \in td, Accept(m)
    PROVE  GenInv'
<1>1. /\ m.id \in QueryId /\ m.id \in 0 .. MaxQuery
      /\ m.id <= current_query_id
      /\ inbox \in Seq(Response) /\ td_state \in AuthState
      /\ trouble \in 0 .. MaxTrouble
  BY DEF GenInv, TypeOK, QueryIds, QueryId
<1>2. PICK s \in Moves[td_state] :
        /\ td_state' = s
        /\ \/ inbox' = inbox \o <<Update(s), Answer(m.id, "ok")>>
           \/ inbox' = inbox \o <<Answer(m.id, "ok"), Update(s)>>
  BY DEF Accept
<1>3. s \in AuthState
  BY <1>1, MovesType
<1>4. PICK a \in Response, b \in Response :
        /\ inbox' = inbox \o <<a, b>>
        /\ \/ a.id = 0 /\ b.id = m.id
           \/ b.id = 0 /\ a.id = m.id
  BY <1>1, <1>2, <1>3, AnswerType, UpdateType
<1>5. /\ inbox' \in Seq(Response)
      /\ \A i \in DOMAIN inbox' :
           \/ i \in DOMAIN inbox /\ inbox'[i] = inbox[i]
           \/ i = Len(inbox) + 1 /\ i \notin DOMAIN inbox /\ inbox'[i] = a
           \/ i = Len(inbox) + 2 /\ i \notin DOMAIN inbox /\ inbox'[i] = b
  BY <1>1, <1>4
<1>6. \A n \in td' : n \in td /\ n.id # m.id
  BY DEF Accept, GenInv, QueryIds
<1>7. \A i, j \in DOMAIN inbox' :
        i \notin DOMAIN inbox /\ j \notin DOMAIN inbox
        /\ inbox'[i].id = m.id /\ inbox'[j].id = m.id /\ m.id # 0 => i = j
  BY <1>4, <1>5
<1>8. QueryIds'
  <2>1. \A i \in DOMAIN inbox : inbox[i].id # m.id
    BY DEF GenInv, QueryIds
  <2>2. \A i \in DOMAIN inbox' :
           \/ i \in DOMAIN inbox /\ inbox'[i] = inbox[i]
           \/ i \notin DOMAIN inbox /\ inbox'[i].id \in {0, m.id}
    BY <1>4, <1>5
  <2> QED  BY <1>1, <1>5, <1>6, <1>7, <2>1, <2>2, TdlibIds DEF Accept
<1> QED  BY <1>1, <1>2, <1>3, <1>5, <1>8, TdlibStep DEF Accept

LEMMA ReplyIds ==
    ASSUME GenInv, NEW m \in td, NEW r \in {"ok", "error"}, Reply(m, r)
    PROVE  QueryIds' /\ inbox' \in Seq(Response)
<1>1. /\ m.id \in QueryId /\ m.id \in 0 .. MaxQuery
      /\ m.id <= current_query_id
      /\ inbox \in Seq(Response)
  BY DEF GenInv, TypeOK, QueryIds, QueryId
<1>2. Answer(m.id, r) \in Response /\ Answer(m.id, r).id = m.id
  BY <1>1, AnswerType
<1>3. /\ inbox' \in Seq(Response)
      /\ \A i \in DOMAIN inbox' :
           \/ i \in DOMAIN inbox /\ inbox'[i] = inbox[i]
           \/ /\ i = Len(inbox) + 1 /\ i \notin DOMAIN inbox
              /\ inbox'[i].id = m.id
  BY <1>1, <1>2 DEF Reply
<1>4. \A n \in td' : n \in td /\ n.id # m.id
  BY DEF Reply, GenInv, QueryIds
<1>5. \A i \in DOMAIN inbox : inbox[i].id # m.id
  BY DEF GenInv, QueryIds
<1> QED  BY <1>1, <1>3, <1>4, <1>5, TdlibIds DEF Reply

LEMMA ServeStep ==
    ASSUME GenInv, NEW m \in td, Serve(m)
    PROVE  GenInv'
<1>1. /\ trouble \in 0 .. MaxTrouble /\ MaxTrouble \in Nat
      /\ td_state \in AuthState
  BY GenDbAssumption DEF GenInv, TypeOK
<1>2. CASE Accept(m)
  BY <1>2, AcceptStep
<1>3. ASSUME NEW r \in {"ok", "error"}, Reply(m, r),
             trouble' \in 0 .. MaxTrouble
      PROVE  GenInv'
  BY <1>1, <1>3, ReplyIds, TdlibStep DEF Reply
<1>4. CASE Refuse(m)
  BY <1>1, <1>3, <1>4 DEF Refuse
<1>5. CASE Late(m)
  BY <1>1, <1>3, <1>5 DEF Late
<1>6. CASE Proxy(m)
  BY <1>1, <1>3, <1>6 DEF Proxy
<1> QED  BY <1>2, <1>4, <1>5, <1>6 DEF Serve

LEMMA BecomeStep ==
    ASSUME GenInv, NEW s \in AuthState, Become(s),
           trouble' \in 0 .. MaxTrouble
    PROVE  GenInv'
<1>1. /\ inbox \in Seq(Response) /\ current_query_id \in Nat
      /\ 0 \in 0 .. MaxQuery
  BY GenDbAssumption DEF GenInv, TypeOK
<1>2. Update(s) \in Response /\ Update(s).id = 0
  BY UpdateType
<1>3. /\ inbox' \in Seq(Response)
      /\ \A i \in DOMAIN inbox' :
           \/ i \in DOMAIN inbox /\ inbox'[i] = inbox[i]
           \/ i = Len(inbox) + 1 /\ i \notin DOMAIN inbox /\ inbox'[i].id = 0
  BY <1>1, <1>2 DEF Become
<1>4. td' = td /\ \A n \in td' : n \in td /\ n.id # 0
  BY DEF Become, GenInv, TypeOK, QueryId
<1>5. QueryIds'
  BY <1>1, <1>3, <1>4, TdlibIds DEF Become
<1> QED  BY <1>3, <1>4, <1>5, TdlibStep DEF Become

LEMMA GenStep ==
    ASSUME GenInv, [Next]_vars
    PROVE  GenInv'
<1>1. /\ trouble \in 0 .. MaxTrouble /\ MaxTrouble \in Nat
      /\ td_state \in AuthState
  BY GenDbAssumption DEF GenInv, TypeOK
<1>2. CASE Client
  BY <1>2, UpdateStep, SendStep, ResponseStep DEF Client
<1>3. CASE MoveByItself
  BY <1>1, <1>3, MovesType, BecomeStep DEF MoveByItself
<1>4. CASE \E m \in td : Serve(m)
  BY <1>4, ServeStep
<1>5. CASE Expire
  BY <1>1, <1>5, MovesType, BecomeStep DEF Expire
<1>6. CASE UNCHANGED vars
  BY <1>6 DEF vars, clientVars, queryVars, tdVars, GenInv, TypeOK, QueryIds,
              LastQuery
<1> QED  BY <1>2, <1>3, <1>4, <1>5, <1>6 DEF Next, Tdlib

(* Whatever TDLib refuses, lets expire or answers late, the tool's state   *)
(* keeps its type, and every query has an id of its own (gen_db.cpp:81,    *)
(* 121): no two queries at TDLib and no two answers share one, and no      *)
(* answer carries the id of a query still at TDLib, so an answer finds the *)
(* handler stored for its query or none.                                   *)
THEOREM GenDb_QueryIds == Spec => [](TypeOK /\ QueryIds)
<1>1. Spec => []GenInv
  BY InitGen, GenStep, PTL DEF Spec
<1>2. GenInv => TypeOK /\ QueryIds
  BY DEF GenInv
<1> QED  BY <1>1, <1>2, PTL

(* Only an answer makes a question be put again, and only the answer to    *)
(* the last one.                                                           *)
LEMMA AskedStep ==
    ASSUME GenInv, Next, todo = << >>, todo' # << >>, Head(inbox).id # 0
    PROVE  ~ Outstanding
<1>1. ~ SendQuery
  BY DEF SendQuery
<1>2. ~ ProcessUpdate
  BY DEF ProcessUpdate
<1>3. ~ (Tdlib \/ Expire)
  BY DEF Tdlib, Expire, MoveByItself, Become, Serve, Accept, Refuse, Late,
         Proxy, Reply
<1>4. PICK q \in QueryId : ProcessResponse(q)
  BY <1>1, <1>2, <1>3 DEF Next, Client
<1>5. inbox[1].id = q /\ 1 \in DOMAIN inbox
  BY <1>4, InboxTail DEF ProcessResponse
<1>6. /\ handlers[q] = authentication_query_id
      /\ handlers[q] \notin {NoHandler, Ignore}
  BY <1>4 DEF ProcessResponse, AuthenticationError
<1>7. authentication_query_id >= 1
  BY <1>6 DEF GenInv, TypeOK, NoHandler
<1>8. \A p \in QueryId : handlers[p] = authentication_query_id => p = q
  BY <1>6, <1>7 DEF GenInv, LastQuery
<1>9. /\ \A m \in td : m.id # q
      /\ \A i \in DOMAIN inbox : inbox[i].id = q => i = 1
  BY <1>5 DEF GenInv, QueryIds, QueryId
<1> QED  BY <1>8, <1>9 DEF Outstanding

(* The user is asked a second time only when the last answer given has     *)
(* failed: a late error of an earlier step's query is told apart by        *)
(* authentication_query_id (gen_db.cpp:121), since no two queries of one   *)
(* value are under way.                                                    *)
THEOREM GenDb_AsksOnce == Spec => AskedAgainOnFailure
<1>1. Spec => []GenInv
  BY InitGen, GenStep, PTL DEF Spec
<1>2. GenInv /\ [Next]_vars =>
        [(todo = << >> /\ todo' # << >> /\ Head(inbox).id # 0)
            => ~ Outstanding]_vars
  BY AskedStep
<1> QED  BY <1>1, <1>2, PTL DEF Spec, AskedAgainOnFailure
=============================================================================
