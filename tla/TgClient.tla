------------------------------ MODULE TgClient ------------------------------
(***************************************************************************)
(* tg::Client of tg2sip/tg.cpp and its use by main.cpp: the sign-on main   *)
(* waits for, queries with their table of handlers, and the end.           *)
(*                                                                         *)
(* Two threads run.  Main waits for the verdict on the sign-on, then sends *)
(* queries and waits on their futures: load_cache sends one query per      *)
(* contact before it waits for the first, every other handler waits at     *)
(* once.  The Telegram thread receives one object at a time, runs the      *)
(* handler of a response or answers an authorization update with queries   *)
(* of its own.  Both go through send_query, which takes an id, stores the  *)
(* handler and only then sends.                                            *)
(*                                                                         *)
(* The table of handlers is a std::map without a lock.  An access is an    *)
(* interval: a thread is at "emplace", "find" or "erase" until the access  *)
(* is over.  Once two accesses have overlapped (raced) the map may be      *)
(* broken: an entry may be lost or not found, or the process may crash.    *)
(*                                                                         *)
(* Call and message updates, which process_update only queues, are in      *)
(* module TgCalls.                                                         *)
(***************************************************************************)
EXTENDS Integers, Sequences

CONSTANTS
    MaxQuery,   \* bound: queries sent in one behaviour
    Contacts    \* how many users searchContacts returns

(* Room for the sign-on and for load_cache. *)
ASSUME TgClientAssumption ==
    Contacts \in Nat /\ MaxQuery \in Nat /\ MaxQuery >= 4 + Contacts

VARIABLES
    current_query_id,  \* Client::current_query_id
    handlers,          \* Client::handlers: the thread whose handler it is
    is_ready,          \* Client::is_ready_, a promise
    is_closed,         \* Client::is_closed
    promise,           \* the promises of send_query_async, by query id
    thread,            \* where a thread is, queries it has to send, its query
    phase,             \* what main is doing
    futures,           \* the futures main still has to get
    raced,             \* two accesses to handlers have overlapped
    auth,              \* TDLib: the authorization state
    td,                \* TDLib: what has become of a query
    inbox              \* TDLib: what receive() will return, in order

tableVars == <<current_query_id, handlers, promise>>
tdVars == <<auth, td, inbox>>
vars == <<tableVars, is_ready, is_closed, thread, phase, futures, raced, tdVars>>

QueryId == 1 .. MaxQuery
Threads == {"main", "tg"}
AuthState == {"WaitTdlibParameters", "WaitEncryptionKey", "Ready",
              "WaitPhoneNumber", "LoggingOut"}

(* What receive() returns: an update (id 0) or the answer to a query. *)
Update(a) == [id |-> 0, auth |-> a]
Answer(q) == [id |-> q, auth |-> "none"]
Response == [id : {0}, auth : AuthState] \cup [id : QueryId, auth : {"none"}]

(* "emplace" and "send" are inside send_query, the others are the Telegram *)
(* thread's: in receive, looking up and erasing a handler, out of loop().  *)
ThreadState ==
    [pc : {"idle", "emplace", "send", "receive", "find", "erase", "ended"},
     n : Nat, id : 0 .. MaxQuery]

InMap(t) == thread[t].pc \in {"emplace", "find", "erase"}
InSend(t) == thread[t].pc \in {"emplace", "send"}

(* Id 0 is what TDLib marks updates with: no query has it. *)
TypeOK ==
    /\ current_query_id \in 0 .. MaxQuery
    /\ handlers \in [QueryId -> Threads \cup {"none"}]
    /\ is_ready \in {"unset", "true", "false"}
    /\ is_closed \in BOOLEAN
    /\ promise \in [QueryId -> {"none", "unset", "set"}]
    /\ thread \in [Threads -> ThreadState]
    /\ \A t \in Threads : (InMap(t) \/ InSend(t)) => thread[t].id \in QueryId
    /\ phase \in {"wait_ready", "search", "contacts", "loop", "joining",
                  "exited", "aborted"}
    /\ futures \in Seq(QueryId)
    /\ raced \in BOOLEAN
    /\ auth \in AuthState
    /\ td \in [QueryId -> {"none", "sent", "answered"}]
    /\ inbox \in Seq(Response)

Init ==
    /\ current_query_id = 0
    /\ handlers = [q \in QueryId |-> "none"]
    /\ is_ready = "unset"
    /\ is_closed = FALSE
    /\ promise = [q \in QueryId |-> "none"]
    /\ thread = [t \in Threads |-> [pc |-> "idle", n |-> 0, id |-> 0]]
    /\ phase = "wait_ready"
    /\ futures = << >>
    /\ raced = FALSE
    /\ auth = "WaitTdlibParameters"
    /\ td = [q \in QueryId |-> "none"]
    /\ inbox = <<Update("WaitTdlibParameters")>>

Up == phase \notin {"exited", "aborted"}
Free(t) == thread[t].pc = "idle" /\ thread[t].n = 0
Done(t) == thread' = [thread EXCEPT ![t].pc = "idle", ![t].id = 0]

(* std::map is not synchronised: this goes with every step of a thread. *)
Watch == raced' = (raced \/ \A t \in Threads : InMap(t)')

-----------------------------------------------------------------------------
(* send_query, on either thread *)

(* mutant: the query is sent before its handler is stored *)
TakeIdSends(t) ==
    LET q == current_query_id + 1
    IN  /\ thread[t].pc = "idle" /\ thread[t].n > 0
        /\ q <= MaxQuery
        /\ current_query_id' = q
        /\ promise' = IF t = "main" THEN [promise EXCEPT ![q] = "unset"]
                                    ELSE promise
        /\ td' = [td EXCEPT ![q] = "sent"]
        /\ thread' = [thread EXCEPT
                ![t] = [pc |-> "emplace", n |-> @.n - 1, id |-> q]]
        /\ UNCHANGED <<handlers, is_ready, is_closed, phase, futures, auth, inbox>>

(* The promise of send_query_async exists before the id is taken. *)
TakeId(t) ==
    LET q == current_query_id + 1
    IN  /\ thread[t].pc = "idle" /\ thread[t].n > 0
        /\ q <= MaxQuery
        /\ current_query_id' = q
        /\ promise' = IF t = "main" THEN [promise EXCEPT ![q] = "unset"]
                                    ELSE promise
        /\ thread' = [thread EXCEPT
                ![t] = [pc |-> "emplace", n |-> @.n - 1, id |-> q]]
        /\ UNCHANGED <<handlers, is_ready, is_closed, phase, futures, tdVars>>

Emplace(t) ==
    /\ thread[t].pc = "emplace"
    /\ \/ handlers' = [handlers EXCEPT ![thread[t].id] = t]
       \/ raced /\ UNCHANGED handlers
    /\ thread' = [thread EXCEPT ![t].pc = "send"]
    /\ UNCHANGED <<current_query_id, promise, is_ready, is_closed, phase,
                   futures, tdVars>>

Transmit(t) ==
    /\ thread[t].pc = "send"
    /\ td' = [td EXCEPT ![thread[t].id] = "sent"]
    /\ futures' = IF t = "main" THEN Append(futures, thread[t].id) ELSE futures
    /\ Done(t)
    /\ UNCHANGED <<tableVars, is_ready, is_closed, phase, auth, inbox>>

SendQuery(t) == TakeId(t) \/ Emplace(t) \/ Transmit(t)

-----------------------------------------------------------------------------
(* The Telegram thread: Client::loop *)

(* is_closed is only looked at between two receives. *)
LoopTest ==
    /\ Free("tg")
    /\ thread' = [thread EXCEPT
            !["tg"].pc = IF is_closed THEN "ended" ELSE "receive"]
    /\ UNCHANGED <<tableVars, is_ready, is_closed, phase, futures, tdVars>>

(* receive() returns nothing after WAIT_TIMEOUT. *)
ReceiveTimeout ==
    /\ thread["tg"].pc = "receive" /\ inbox = << >>
    /\ thread' = [thread EXCEPT !["tg"].pc = "idle"]
    /\ UNCHANGED <<tableVars, is_ready, is_closed, phase, futures, tdVars>>

Received(id) ==
    /\ thread["tg"].pc = "receive"
    /\ inbox # << >> /\ Head(inbox).id = id
    /\ inbox' = Tail(inbox)

(* mutant: the entry is erased before its handler is looked up *)
ReceiveAnswerErases(q) ==
    /\ Received(q)
    /\ handlers' = [handlers EXCEPT ![q] = "none"]
    /\ thread' = [thread EXCEPT !["tg"].pc = "find", !["tg"].id = q]
    /\ UNCHANGED <<current_query_id, promise, is_ready, is_closed, phase,
                   futures, auth, td>>

ReceiveAnswer(q) ==
    /\ Received(q)
    /\ thread' = [thread EXCEPT !["tg"].pc = "find", !["tg"].id = q]
    /\ UNCHANGED <<tableVars, is_ready, is_closed, phase, futures, auth, td>>

(* An authorization handler only logs; a promise that has its value keeps  *)
(* it.  The entry is erased after its handler has run.                     *)
RunHandler ==
    LET q == thread["tg"].id
    IN  /\ thread["tg"].pc = "find"
        /\ handlers[q] # "none"
        /\ promise' = IF handlers[q] = "main" THEN [promise EXCEPT ![q] = "set"]
                                              ELSE promise
        /\ thread' = [thread EXCEPT !["tg"].pc = "erase"]
        /\ UNCHANGED <<current_query_id, handlers, is_ready, is_closed, phase,
                       futures, tdVars>>

NoHandler ==
    /\ thread["tg"].pc = "find"
    /\ raced \/ handlers[thread["tg"].id] = "none"
    /\ Done("tg")
    /\ UNCHANGED <<tableVars, is_ready, is_closed, phase, futures, tdVars>>

Erase ==
    /\ thread["tg"].pc = "erase"
    /\ handlers' = [handlers EXCEPT ![thread["tg"].id] = "none"]
    /\ Done("tg")
    /\ UNCHANGED <<current_query_id, promise, is_ready, is_closed, phase,
                   futures, tdVars>>

(* How many queries on_authorization_state_update sends: the parameters,   *)
(* or the encryption key and the proxy.                                    *)
Replies(a) == CASE a = "WaitTdlibParameters" -> 1
                [] a = "WaitEncryptionKey" -> 2
                [] OTHER -> 0

(* mutant: ready as soon as the key is asked for *)
OnAuthorizationWaitReady(a) ==
    /\ Received(0) /\ Head(inbox).auth = a
    /\ a \in {"WaitTdlibParameters", "WaitEncryptionKey"}
    /\ is_ready' = IF a = "WaitEncryptionKey" THEN "true" ELSE is_ready
    /\ thread' = [thread EXCEPT !["tg"].pc = "idle", !["tg"].n = Replies(a)]
    /\ UNCHANGED <<tableVars, is_closed, phase, futures, auth, td>>

OnAuthorizationWait(a) ==
    /\ Received(0) /\ Head(inbox).auth = a
    /\ a \in {"WaitTdlibParameters", "WaitEncryptionKey"}
    /\ thread' = [thread EXCEPT !["tg"].pc = "idle", !["tg"].n = Replies(a)]
    /\ UNCHANGED <<tableVars, is_ready, is_closed, phase, futures, auth, td>>

(* mutant: a second verdict is ignored *)
SetReadyOnce(verdict) ==
    /\ is_ready' = IF is_ready = "unset" THEN verdict ELSE is_ready
    /\ UNCHANGED phase

(* is_ready_.set_value: a second value throws future_error on this thread, *)
(* nothing catches it and the process is aborted.                          *)
SetReady(verdict) ==
    IF is_ready = "unset"
    THEN is_ready' = verdict /\ UNCHANGED phase
    ELSE phase' = "aborted" /\ UNCHANGED is_ready

OnAuthorizationVerdict(a) ==
    /\ Received(0) /\ Head(inbox).auth = a
    /\ a \notin {"WaitTdlibParameters", "WaitEncryptionKey"}
    /\ SetReady(IF a = "Ready" THEN "true" ELSE "false")
    /\ thread' = [thread EXCEPT !["tg"].pc = "idle"]
    /\ UNCHANGED <<tableVars, is_closed, futures, auth, td>>

-----------------------------------------------------------------------------
(* Main *)

SignedOn ==
    /\ phase = "wait_ready" /\ is_ready = "true"
    /\ phase' = "search"
    /\ thread' = [thread EXCEPT !["main"].n = 1]
    /\ UNCHANGED <<tableVars, is_ready, is_closed, futures, tdVars>>

(* mutant: the thread is not told *)
CloseUntold == phase' = "joining" /\ UNCHANGED is_closed

(* Client::~Client up to the join. *)
Close == is_closed' = TRUE /\ phase' = "joining"

(* The verdict is false, or there is none after five seconds. *)
StartFails ==
    /\ phase = "wait_ready" /\ is_ready # "true"
    /\ Close
    /\ UNCHANGED <<tableVars, is_ready, thread, futures, tdVars>>

Get ==
    /\ Free("main") /\ futures # << >>
    /\ promise[Head(futures)] = "set"
    /\ UNCHANGED <<tableVars, is_ready, is_closed, tdVars>>

(* load_cache: searchContacts fails, or names the users to ask for. *)
GotSearch ==
    /\ phase = "search" /\ Get
    /\ futures' = << >>
    /\ \/ phase' = "loop" /\ UNCHANGED thread
       \/ phase' = "contacts"
          /\ thread' = [thread EXCEPT !["main"].n = Contacts]

(* A user without access ends load_cache, the other answers not awaited. *)
GotContact ==
    /\ phase = "contacts" /\ Get
    /\ \/ futures' = Tail(futures) /\ UNCHANGED phase
       \/ futures' = << >> /\ phase' = "loop"
    /\ UNCHANGED thread

CacheLoaded ==
    /\ phase = "contacts" /\ Free("main") /\ futures = << >>
    /\ phase' = "loop"
    /\ UNCHANGED <<tableVars, is_ready, is_closed, thread, futures, tdVars>>

GotReply ==
    /\ phase = "loop" /\ Get
    /\ futures' = << >>
    /\ UNCHANGED <<phase, thread>>

(* A handler of the gateway asks. *)
HandlerQuery ==
    /\ phase = "loop" /\ Free("main") /\ futures = << >>
    /\ current_query_id < MaxQuery
    /\ thread' = [thread EXCEPT !["main"].n = 1]
    /\ UNCHANGED <<tableVars, is_ready, is_closed, phase, futures, tdVars>>

(* A signal has ended the gateway's loop and main returns. *)
Stop ==
    /\ phase = "loop" /\ Free("main") /\ futures = << >>
    /\ Close
    /\ UNCHANGED <<tableVars, is_ready, thread, futures, tdVars>>

Join ==
    /\ phase = "joining" /\ thread["tg"].pc = "ended"
    /\ phase' = "exited"
    /\ UNCHANGED <<tableVars, is_ready, is_closed, thread, futures, tdVars>>

-----------------------------------------------------------------------------
(* TDLib: answers every query once, in any order, and signs on once it has *)
(* its parameters (query 1) and the key (query 2).                         *)

TdAnswer(q) ==
    /\ td[q] = "sent"
    /\ td' = [td EXCEPT ![q] = "answered"]
    /\ inbox' = Append(inbox, Answer(q))
    /\ UNCHANGED <<tableVars, is_ready, is_closed, thread, phase, futures, auth>>

AuthStep ==
    [WaitTdlibParameters |-> IF td[1] # "none" THEN {"WaitEncryptionKey"} ELSE {},
     WaitEncryptionKey |->
        IF td[2] # "none" THEN {"Ready", "WaitPhoneNumber"} ELSE {},
     Ready |-> {"LoggingOut"},
     WaitPhoneNumber |-> {},
     LoggingOut |-> {}]

TdAuthorization ==
    \E a \in AuthStep[auth] :
        /\ auth' = a
        /\ inbox' = Append(inbox, Update(a))
        /\ UNCHANGED <<tableVars, is_ready, is_closed, thread, phase, futures, td>>

(* A broken map brings the process down. *)
Crash ==
    /\ raced
    /\ phase' = "aborted"
    /\ UNCHANGED <<tableVars, is_ready, is_closed, thread, futures, tdVars>>

-----------------------------------------------------------------------------
TgThread ==
    /\ Up
    /\ \/ LoopTest \/ ReceiveTimeout \/ SendQuery("tg")
       \/ \E q \in QueryId : ReceiveAnswer(q)
       \/ RunHandler \/ NoHandler \/ Erase
       \/ \E a \in AuthState :
            OnAuthorizationWait(a) \/ OnAuthorizationVerdict(a)
    /\ Watch

Main ==
    /\ Up
    /\ \/ SignedOn \/ StartFails \/ SendQuery("main") \/ GotSearch
       \/ GotContact \/ CacheLoaded \/ GotReply \/ Join
    /\ Watch

Environment ==
    /\ Up
    /\ HandlerQuery \/ Stop \/ TdAuthorization \/ Crash
    /\ UNCHANGED raced

Answers(q) == Up /\ TdAnswer(q) /\ UNCHANGED raced

Next == TgThread \/ Main \/ Environment \/ \E q \in QueryId : Answers(q)

Spec == Init /\ [][Next]_vars

(* Both threads are scheduled and TDLib answers; nobody need ever call,    *)
(* stop the process, sign on or off.                                       *)
FairSpec ==
    /\ Spec
    /\ WF_vars(TgThread) /\ WF_vars(Main)
    /\ \A q \in QueryId : WF_vars(Answers(q))

-----------------------------------------------------------------------------
(* Properties *)

(* next_query_id (tg.cpp:164) increments a plain integer and send_query    *)
(* stores under it: the threads are never inside send_query at the same    *)
(* time, so no two queries get one id.  Only the order of sign-on and      *)
(* load_cache keeps them apart, not a lock.                                *)
SendersExclude == ~ (InSend("main") /\ InSend("tg"))

(* process_response drops an answer without a handler (tg.cpp:104), and    *)
(* its caller would wait for ever: unless the map is broken, every answer  *)
(* finds its handler, however fast TDLib is.                               *)
AnswerFindsHandler ==
    thread["tg"].pc = "find" /\ ~ raced => handlers[thread["tg"].id] # "none"

(* The table holds the handlers of queries under way and of no others:     *)
(* an entry goes when its answer has been handled.                         *)
NoStaleHandler ==
    \A q \in QueryId : handlers[q] # "none" =>
        \/ td[q] # "answered"
        \/ \E i \in DOMAIN inbox : inbox[i].id = q
        \/ thread["tg"].id = q /\ thread["tg"].pc \in {"find", "erase"}
        \/ raced

(* The handler table matches the queries under way, in both directions.    *)
HandlersMatchQueries == TypeOK /\ AnswerFindsHandler /\ NoStaleHandler

(* main's wait and the futures of send_query_async: a query gets at most   *)
(* one answer, and gets it unless the process ends or handlers was raced.  *)
QS == INSTANCE QueryService WITH
    Queries <- QueryId,
    asked <- {q \in QueryId : promise[q] # "none"},
    answered <- {q \in QueryId : promise[q] = "set"},
    sound <- Up /\ ~ raced
Implements == QS!LiveSpec

(* A session that is revoked does not leave a gateway behind that looks    *)
(* alive: the second is_ready_.set_value (tg.cpp:198) ends the process.    *)
SessionLossEndsProcess == (auth = "LoggingOut") ~> ~ Up

(* ~Client joins a thread that may sit in receive() or be about to send:   *)
(* the join comes to an end (tg.cpp:31).                                   *)
JoinEnds == (phase = "joining") ~> ~ Up
=============================================================================
