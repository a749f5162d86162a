-------------------------------- MODULE GenDb --------------------------------
(***************************************************************************)
(* gen_db.cpp: the sign-on dialogue that makes the TDLib database the      *)
(* gateway starts from.                                                    *)
(*                                                                         *)
(* One thread receives, and answers each authorization state with a query, *)
(* most of them after asking the user at the terminal, which blocks it.  A *)
(* query that fails is asked for again, unless the state has been answered *)
(* anew since: authentication_query_id tells.  TDLib moves on meanwhile.   *)
(***************************************************************************)
EXTENDS Integers, Sequences

CONSTANTS
    MaxQuery,    \* bound: queries sent in one behaviour
    MaxTrouble   \* bound: refusals and expiries on TDLib's side

ASSUME GenDbAssumption == MaxQuery \in Nat /\ MaxTrouble \in Nat

VARIABLES
    authorization_state,      \* TDClient::authorization_state
    sequence_done,            \* TDClient::sequence_done
    current_query_id,         \* TDClient::current_query_id
    authentication_query_id,  \* TDClient::authentication_query_id
    handlers,   \* TDClient::handlers: the authentication id the handler captured
    todo,       \* queries the running handler has still to send
    td_state,   \* TDLib: the authorization state
    td,         \* TDLib: queries not yet answered, each with what it is for
    inbox,      \* TDLib: what receive() will return
    trouble     \* TDLib: refusals and expiries so far

clientVars == <<authorization_state, sequence_done, authentication_query_id>>
queryVars == <<current_query_id, handlers>>
tdVars == <<td_state, td, inbox, trouble>>
vars == <<clientVars, queryVars, todo, tdVars>>

QueryId == 1 .. MaxQuery

(* TDLib's way from state to state.  A state of Asks moves when its query  *)
(* is accepted, WaitOtherDeviceConfirmation by itself.                     *)
Moves ==
    [WaitTdlibParameters |-> {"WaitEncryptionKey"},
     WaitEncryptionKey |-> {"WaitPhoneNumber", "Ready"},
     WaitPhoneNumber |-> {"WaitCode", "WaitOtherDeviceConfirmation"},
     WaitCode |-> {"WaitRegistration", "WaitPassword", "Ready"},
     WaitRegistration |-> {"Ready"},
     WaitPassword |-> {"Ready"},
     WaitOtherDeviceConfirmation |-> {"WaitPassword", "Ready"},
     Closing |-> {"Closed"},
     Ready |-> {}, LoggingOut |-> {}, Closed |-> {}]

AuthState == DOMAIN Moves
Asks == {"WaitTdlibParameters", "WaitEncryptionKey", "WaitPhoneNumber",
         "WaitCode", "WaitRegistration", "WaitPassword"}
Final == {"Ready", "LoggingOut", "Closed"}

Update(s) == [id |-> 0, what |-> s]
Answer(q, r) == [id |-> q, what |-> r]
Response == [id : {0}, what : AuthState] \cup
            [id : QueryId, what : {"ok", "error"}]
NoHandler == 0
Ignore == -1    \* the empty handler of the proxy's query
Purpose == Asks \cup {"proxy"}

TypeOK ==
    /\ authorization_state \in AuthState \cup {"none"}
    /\ sequence_done \in BOOLEAN
    /\ current_query_id \in 0 .. MaxQuery
    /\ authentication_query_id \in Nat
    /\ handlers \in [QueryId -> {NoHandler, Ignore} \cup
                                1 .. authentication_query_id]
    /\ todo \in Seq(Purpose)
    /\ td_state \in AuthState
    /\ td \in SUBSET [id : QueryId, for : Purpose]
    /\ inbox \in Seq(Response)
    /\ trouble \in 0 .. MaxTrouble

Init ==
    /\ authorization_state = "none"
    /\ sequence_done = FALSE
    /\ current_query_id = 0
    /\ authentication_query_id = 0
    /\ handlers = [q \in QueryId |-> NoHandler]
    /\ todo = << >>
    /\ td_state = "WaitTdlibParameters"
    /\ td = {}
    /\ inbox = <<Update("WaitTdlibParameters")>>
    /\ trouble = 0

-----------------------------------------------------------------------------
(* The client *)

(* The queries a state is answered with. *)
Replies(s) == CASE s = "WaitEncryptionKey" -> <<s, "proxy">>
                [] s \in Asks \ {"WaitEncryptionKey"} -> <<s>>
                [] OTHER -> << >>

OnAuthorizationStateUpdate(s) ==
    /\ authorization_state' = s
    /\ authentication_query_id' = authentication_query_id + 1
    /\ sequence_done' = (sequence_done \/ s \in Final)
    /\ todo' = Replies(s)

(* receive(), between two handlers and until the sequence is done *)
Received ==
    /\ ~ sequence_done /\ todo = << >>
    /\ inbox # << >>
    /\ inbox' = Tail(inbox)
    /\ UNCHANGED <<current_query_id, td_state, td, trouble>>

ProcessUpdate ==
    /\ Received
    /\ Head(inbox).id = 0
    /\ OnAuthorizationStateUpdate(Head(inbox).what)
    /\ UNCHANGED handlers

(* mutant: a failed query is only reported *)
AuthenticationErrorReported(q) == UNCHANGED <<clientVars, todo>>

(* mutant: any failed query is asked for again *)
AuthenticationErrorAny(q) == OnAuthorizationStateUpdate(authorization_state)

(* create_authentication_query_handler and check_authentication_error, for *)
(* a response that is an error                                             *)
AuthenticationError(q) ==
    IF handlers[q] = authentication_query_id
    THEN OnAuthorizationStateUpdate(authorization_state)
    ELSE UNCHANGED <<clientVars, todo>>

ProcessResponse(q) ==
    /\ Received
    /\ Head(inbox).id = q
    /\ IF Head(inbox).what = "error" /\ handlers[q] \notin {NoHandler, Ignore}
       THEN AuthenticationError(q)
       ELSE UNCHANGED <<clientVars, todo>>
    /\ handlers' = [handlers EXCEPT ![q] = NoHandler]

(* mutant: the id before the increment *)
SendQueryPost ==
    LET q == current_query_id
        f == Head(todo)
    IN  /\ todo # << >> /\ q < MaxQuery
        /\ current_query_id' = q + 1
        /\ handlers' = [handlers EXCEPT
                ![q] = IF f = "proxy" THEN Ignore ELSE authentication_query_id]
        /\ td' = td \cup {[id |-> q, for |-> f]}
        /\ todo' = Tail(todo)
        /\ UNCHANGED <<clientVars, td_state, inbox, trouble>>

(* The user has answered, where the state asks; the query goes out. *)
SendQuery ==
    LET q == current_query_id + 1
        f == Head(todo)
    IN  /\ todo # << >> /\ q <= MaxQuery
        /\ current_query_id' = q
        /\ handlers' = [handlers EXCEPT
                ![q] = IF f = "proxy" THEN Ignore ELSE authentication_query_id]
        /\ td' = td \cup {[id |-> q, for |-> f]}
        /\ todo' = Tail(todo)
        /\ UNCHANGED <<clientVars, td_state, inbox, trouble>>

-----------------------------------------------------------------------------
(* TDLib *)

(* A query for the present state is accepted: the answer and the update    *)
(* come in either order.                                                   *)
Accept(m) ==
    /\ m.for = td_state
    /\ td' = td \ {m}
    /\ \E s \in Moves[td_state] :
        /\ td_state' = s
        /\ \/ inbox' = inbox \o <<Update(s), Answer(m.id, "ok")>>
           \/ inbox' = inbox \o <<Answer(m.id, "ok"), Update(s)>>
    /\ UNCHANGED <<clientVars, queryVars, todo, trouble>>

Reply(m, r) ==
    /\ td' = td \ {m}
    /\ inbox' = Append(inbox, Answer(m.id, r))
    /\ UNCHANGED <<clientVars, queryVars, todo, td_state>>

(* A wrong code, number or password. *)
Refuse(m) ==
    /\ m.for = td_state
    /\ trouble < MaxTrouble /\ trouble' = trouble + 1
    /\ Reply(m, "error")

(* A query for a state that is past is an error; the proxy's may be one. *)
Late(m) == m.for \notin {td_state, "proxy"} /\ Reply(m, "error") /\ UNCHANGED trouble
Proxy(m) ==
    /\ m.for = "proxy"
    /\ \E r \in {"ok", "error"} : Reply(m, r)
    /\ UNCHANGED trouble

Serve(m) == Accept(m) \/ Refuse(m) \/ Late(m) \/ Proxy(m)

Become(s) ==
    /\ td_state' = s
    /\ inbox' = Append(inbox, Update(s))
    /\ UNCHANGED <<clientVars, queryVars, todo, td>>

(* The code has expired, or the session is ended from elsewhere. *)
Expire ==
    /\ trouble < MaxTrouble /\ trouble' = trouble + 1
    /\ \/ td_state \in {"WaitCode", "WaitRegistration", "WaitPassword"}
          /\ Become("WaitPhoneNumber")
       \/ td_state \in Asks
          /\ \E s \in {"Closing", "LoggingOut"} : Become(s)

MoveByItself ==
    /\ td_state \in {"WaitOtherDeviceConfirmation", "Closing"}
    /\ \E s \in Moves[td_state] : Become(s)
    /\ UNCHANGED trouble

-----------------------------------------------------------------------------
Client == ProcessUpdate \/ SendQuery \/ \E q \in QueryId : ProcessResponse(q)
Tdlib == MoveByItself \/ \E m \in td : Serve(m)
Next == Client \/ Tdlib \/ Expire

Spec == Init /\ [][Next]_vars

(* The user answers, TDLib serves what it is sent. *)
FairSpec == Spec /\ WF_vars(Client) /\ WF_vars(Tdlib)

-----------------------------------------------------------------------------
(* Properties *)

(* The last query sent for the present state is not answered yet. *)
Outstanding ==
    \E q \in QueryId :
        /\ handlers[q] = authentication_query_id
        /\ \/ \E m \in td : m.id = q
           \/ \E i \in DOMAIN inbox : inbox[i].id = q /\ i > 1

(* gen_db.cpp:121: a late failure of an earlier step's query does not make *)
(* the user answer a second time: on a response, the question is put again *)
(* only when the last answer given to it has failed.                       *)
AskedAgainOnFailure ==
    [][(todo = << >> /\ todo' # << >> /\ Head(inbox).id # 0) => ~ Outstanding]_vars

(* gen_db.cpp:131: whatever fails or expires, a state that waits for an    *)
(* answer gets one, so that TDLib is not left waiting for a query nobody   *)
(* sends; and the tool ends (gen_db.cpp:63) once TDLib is signed on,       *)
(* logging out or closed.                                                  *)
AnswersEveryState ==
    /\ \A s \in Asks : (td_state = s) ~> (td_state # s \/ \E m \in td : m.for = s)
    /\ (td_state \in Final) ~> sequence_done
=============================================================================
