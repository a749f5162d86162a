------------------------------ MODULE Gateway ------------------------------
(***************************************************************************)
(* The gateway of tg2sip/gateway.cpp: one thread that pops at most one     *)
(* internal, one Telegram and one SIP event per tick and runs the          *)
(* boost::sml state machine of the bridge the event belongs to, against    *)
(* the SIP client and TDLib that move on their own threads.                *)
(*                                                                         *)
(* A step is one pop together with everything its handler does up to the   *)
(* next send_query_async(...).get(); the continuation of that wait is a    *)
(* step of its own, so both networks may change while a handler waits.     *)
(* Between two waits a handler calls the SIP client at most once, so       *)
(* nothing is lost by taking the rest of the handler as atomic.            *)
(*                                                                         *)
(* DialTg's directory lookups and flood block are in module DialTg; here   *)
(* it either pushes an InternalError or waits for createCall.              *)
(***************************************************************************)
EXTENDS SipClient, TgCalls

CONSTANTS
    MaxCtx,        \* bound: contexts made in one behaviour
    CallbackUri,   \* BOOLEAN: settings.callback_uri() is not empty
    Signals        \* BOOLEAN: SIGINT or SIGTERM may be delivered

ASSUME GatewayAssumption ==
    MaxCtx \in Nat /\ CallbackUri \in BOOLEAN /\ Signals \in BOOLEAN

VARIABLES
    bridges,          \* Gateway::bridges, by context id
    ctx_counter,      \* Context::next_ctx_id's counter
    internal_events,  \* queued InternalErrors: the ids of their contexts
    stage,            \* where in its tick the gateway thread is
    query,            \* the TDLib query its handler waits for
    e_flag,           \* SIGINT or SIGTERM was delivered
    undiscarded       \* history: calls whose discardCall failed

gwVars == <<bridges, ctx_counter, internal_events, stage, query, e_flag,
            undiscarded>>
vars == <<sipVars, tgVars, gwVars>>

Ctx == 1 .. MaxCtx

(* A bridge that waits for discardCall in CleanUp is in state X; only then *)
(* is it deleted.  `init' is left for good by the first event, so a bridge *)
(* is in it only while DialSip waits for getUser.  `wired' says that its   *)
(* BridgeAudio succeeded, not that the media it connected is still there.  *)
Bridge ==
    [from  : {"none", "tg", "sip"},
     state : {"init", "sip_wait_confirm", "sip_wait_media", "wait_tg",
              "wait_dtmf", "X"},
     sip_call_id : SipId \cup {InvalidId},
     tg_call_id  : TgId \cup {NoTg},
     controller  : BOOLEAN,
     wired       : BOOLEAN]

NoBridge == [from |-> "none", state |-> "X", sip_call_id |-> InvalidId,
             tg_call_id |-> NoTg, controller |-> FALSE, wired |-> FALSE]

NoQuery == [op |-> "none", ctx |-> 0]
Query(op, c) == [op |-> op, ctx |-> c]

TypeOK ==
    /\ SipTypeOK
    /\ TgTypeOK
    /\ bridges \in [Ctx -> Bridge]
    /\ ctx_counter \in 0 .. MaxCtx
    /\ internal_events \in Seq(Ctx)
    /\ stage \in {"internal", "tg", "sip", "exited", "aborted"}
    /\ query \in [op : {"none", "getUser", "acceptCall", "createCall",
                        "discardCall"},
                  ctx : 0 .. MaxCtx]
    /\ e_flag \in BOOLEAN
    /\ undiscarded \in SUBSET TgId

Init ==
    /\ SipInit
    /\ TgInit
    /\ bridges = [c \in Ctx |-> NoBridge]
    /\ ctx_counter = 0
    /\ internal_events = << >>
    /\ stage = "internal"
    /\ query = NoQuery
    /\ e_flag = FALSE
    /\ undiscarded = {}

-----------------------------------------------------------------------------
(* Looking a bridge up, and the ends of a handler. *)

Exists(c) == bridges[c].from # "none"

(* search_call: the first bridge, in order of creation, the predicate      *)
(* holds for.                                                              *)
Owners(field, id) == {c \in Ctx : Exists(c) /\ bridges[c][field] = id}
(* mutant: the predicate forgets to compare the id *)
IsOwnerAny(c, field, id) ==
    Exists(c) /\ bridges[c][field] \notin {NoTg, InvalidId}

IsOwner(c, field, id) ==
    /\ c \in Owners(field, id)
    /\ \A d \in Owners(field, id) : c <= d
Unowned(field, id) == Owners(field, id) = {}

(* A bridge made for an event that takes it straight to X is deleted in    *)
(* the same call and its id goes nowhere, so only the others use up an id. *)
(* mutant: ctx_counter++ *)
NewCtxPost == ctx_counter

NewCtx == ctx_counter + 1
Create(b) ==
    /\ ctx_counter < MaxCtx
    /\ ctx_counter' = NewCtx
    /\ bridges' = [bridges EXCEPT ![NewCtx] = b]

(* mutant: the Telegram queue is never polled *)
NextStageNoTg == CASE stage = "internal" -> "sip"
                   [] stage = "tg" -> "sip"
                   [] stage = "sip" -> "internal"

NextStage == CASE stage = "internal" -> "tg"
               [] stage = "tg" -> "sip"
               [] stage = "sip" -> "internal"

(* The handler returns to the loop in Gateway::start. *)
Return == stage' = NextStage /\ query' = NoQuery

(* The handler blocks in send_query_async(...).get(). *)
Await(op, c) == query' = Query(op, c) /\ UNCHANGED stage

PushError(c) == internal_events' = Append(internal_events, c)

Running == stage \in {"internal", "tg", "sip"}
AtStage(s) == stage = s /\ query = NoQuery

(* mutant: process_event does not delete the bridge that reached X *)
CleanUpNoDelete(c, b, q) ==
    IF b.tg_call_id # NoTg
    THEN /\ bridges' = [bridges EXCEPT ![c] = [b EXCEPT !.state = "X"]]
         /\ Await("discardCall", c)
         /\ SipSkip(q)
    ELSE /\ bridges' = [bridges EXCEPT ![c] = [b EXCEPT !.state = "X"]]
         /\ Return
         /\ Hangup(q, b.sip_call_id)

(* CleanUp, entered with context b: stop the controller; a Telegram leg    *)
(* that is still set is discarded first and the handler waits for that; a  *)
(* SIP leg that is still set is hung up; then process_event deletes the    *)
(* bridge.  q is the SIP queue after the pop.                              *)
CleanUp(c, b, q) ==
    IF b.tg_call_id # NoTg
    THEN /\ bridges' = [bridges EXCEPT ![c] =
                          [b EXCEPT !.state = "X", !.controller = FALSE,
                                    !.wired = FALSE]]
         /\ Await("discardCall", c)
         /\ SipSkip(q)
    ELSE /\ bridges' = [bridges EXCEPT ![c] = NoBridge]
         /\ Return
         /\ Hangup(q, b.sip_call_id)

-----------------------------------------------------------------------------
(* The internal queue. *)

TickStart(empty) ==
    AtStage("internal") /\ ~e_flag /\ (internal_events = << >>) = empty

(* while (!e_flag): main then returns; no bridge is cleaned up. *)
Exit ==
    /\ AtStage("internal")
    /\ e_flag
    /\ stage' = "exited"
    /\ UNCHANGED <<sipVars, tgVars, bridges, ctx_counter, internal_events,
                   query, e_flag, undiscarded>>

NoInternalEvent ==
    /\ TickStart(TRUE)
    /\ Return
    /\ UNCHANGED <<sipVars, tgVars, bridges, ctx_counter, internal_events,
                   e_flag, undiscarded>>

(* process_event(InternalError): the bridge may be gone already. *)
InternalError ==
    /\ TickStart(FALSE)
    /\ internal_events' = Tail(internal_events)
    /\ LET c == Head(internal_events)
       IN  IF Exists(c)
           THEN CleanUp(c, bridges[c], sip_events)
           ELSE Return /\ SipSkip(sip_events) /\ UNCHANGED bridges
    /\ UNCHANGED <<tgVars, ctx_counter, e_flag, undiscarded>>

-----------------------------------------------------------------------------
(* The Telegram queue: process_event(updateCall). *)

NoTgEvent ==
    /\ AtStage("tg")
    /\ tg_events = << >>
    /\ Return
    /\ UNCHANGED <<sipVars, tgVars, bridges, ctx_counter, internal_events,
                   e_flag, undiscarded>>

PopTg ==
    /\ AtStage("tg")
    /\ tg_events # << >>
    /\ tg_events' = Tail(tg_events)
    /\ UNCHANGED <<tg_call, e_flag, undiscarded>>

(* mutant: a new bridge for every callStatePending *)
PendingDialSipAlways ==
    /\ PopTg
    /\ LET u == Head(tg_events)
       IN  /\ u.id \in TgIn /\ u.state = "Pending" /\ CallbackUri
           /\ Create([NoBridge EXCEPT !.from = "tg", !.state = "init",
                                      !.tg_call_id = u.id])
    /\ Await("getUser", NewCtx)
    /\ UNCHANGED <<sipVars, internal_events>>

(* init: an incoming call and a callback URI: StoreTgId, StoreTgUserId,    *)
(* DialSip as far as its getUser.                                          *)
PendingDialSip ==
    /\ PopTg
    /\ LET u == Head(tg_events)
       IN  /\ Unowned("tg_call_id", u.id)
           /\ u.id \in TgIn /\ u.state = "Pending" /\ CallbackUri
           /\ Create([NoBridge EXCEPT !.from = "tg", !.state = "init",
                                      !.tg_call_id = u.id])
    /\ Await("getUser", NewCtx)
    /\ UNCHANGED <<sipVars, internal_events>>

(* mutant: no StoreTgId, so CleanUp discards nothing *)
PendingRejectNoId ==
    /\ PopTg
    /\ LET u == Head(tg_events)
       IN  /\ Unowned("tg_call_id", u.id)
           /\ u.id \in TgIn /\ u.state = "Pending" /\ ~CallbackUri
    /\ Return
    /\ UNCHANGED <<sipVars, bridges, ctx_counter, internal_events>>

(* init: an incoming call and no callback URI: StoreTgId, then CleanUp. *)
PendingReject ==
    /\ PopTg
    /\ LET u == Head(tg_events)
       IN  /\ Unowned("tg_call_id", u.id)
           /\ u.id \in TgIn /\ u.state = "Pending" /\ ~CallbackUri
           /\ Create([NoBridge EXCEPT !.from = "tg", !.tg_call_id = u.id])
    /\ Await("discardCall", NewCtx)
    /\ UNCHANGED <<sipVars, internal_events>>

(* init: any other update goes to X, where CleanUp finds nothing to do. *)
StrayUpdate ==
    /\ PopTg
    /\ LET u == Head(tg_events)
       IN  /\ Unowned("tg_call_id", u.id)
           /\ ~(u.id \in TgIn /\ u.state = "Pending")
    /\ Return
    /\ UNCHANGED <<sipVars, bridges, ctx_counter, internal_events>>

(* mutant: the exception of BridgeAudio is swallowed *)
ReadyFromTgSilent(c) ==
    /\ PopTg
    /\ LET b == bridges[c]
       IN  /\ IsOwner(c, "tg_call_id", Head(tg_events).id)
           /\ Head(tg_events).state = "Ready"
           /\ b.from = "tg" /\ b.state = "wait_tg"
           /\ bridges' = [bridges EXCEPT
                 ![c].state = "wait_dtmf", ![c].controller = TRUE,
                 ![c].wired = CanBridgeAudio(b.sip_call_id)]
    /\ Return
    /\ UNCHANGED <<sipVars, ctx_counter, internal_events>>

(* from_tg, wait_tg: CreateTgVoip, BridgeAudio. *)
ReadyFromTg(c) ==
    /\ PopTg
    /\ LET b == bridges[c]
           ok == CanBridgeAudio(b.sip_call_id)
       IN  /\ IsOwner(c, "tg_call_id", Head(tg_events).id)
           /\ Head(tg_events).state = "Ready"
           /\ b.from = "tg" /\ b.state = "wait_tg"
           /\ bridges' = [bridges EXCEPT ![c].state = "wait_dtmf",
                                         ![c].controller = TRUE,
                                         ![c].wired = ok]
           /\ IF ok THEN UNCHANGED internal_events ELSE PushError(c)
    /\ Return
    /\ UNCHANGED <<sipVars, ctx_counter>>

(* from_sip, wait_tg: StoreTgUserId, CreateTgVoip, AnswerSip. *)
ReadyFromSip(c) ==
    /\ PopTg
    /\ LET b == bridges[c]
       IN  /\ IsOwner(c, "tg_call_id", Head(tg_events).id)
           /\ Head(tg_events).state = "Ready"
           /\ b.from = "sip" /\ b.state = "wait_tg"
           /\ bridges' = [bridges EXCEPT ![c].state = "sip_wait_media",
                                         ![c].controller = TRUE]
           /\ \/ /\ AnswerOK(sip_events, b.sip_call_id)
                 /\ UNCHANGED internal_events
              \/ /\ ~CanAnswer(b.sip_call_id)
                 /\ PushError(c)
                 /\ SipSkip(sip_events)
    /\ Return
    /\ UNCHANGED ctx_counter

(* mutant: the row cleans both ids before CleanUp *)
TgEndedCleansBoth(c) ==
    /\ PopTg
    /\ IsOwner(c, "tg_call_id", Head(tg_events).id)
    /\ Head(tg_events).state = "Ended"
    /\ CleanUp(c, [bridges[c] EXCEPT !.tg_call_id = NoTg,
                                     !.sip_call_id = InvalidId], sip_events)
    /\ UNCHANGED <<ctx_counter, internal_events>>

(* from_tg, from_sip: Discarded or Error: CleanTgId, then CleanUp. *)
TgEnded(c) ==
    /\ PopTg
    /\ IsOwner(c, "tg_call_id", Head(tg_events).id)
    /\ Head(tg_events).state = "Ended"
    /\ CleanUp(c, [bridges[c] EXCEPT !.tg_call_id = NoTg], sip_events)
    /\ UNCHANGED <<ctx_counter, internal_events>>

(* No row for this update in this state. *)
TgIgnored(c) ==
    /\ PopTg
    /\ IsOwner(c, "tg_call_id", Head(tg_events).id)
    /\ \/ Head(tg_events).state = "Pending"
       \/ Head(tg_events).state = "Ready" /\ bridges[c].state # "wait_tg"
    /\ Return
    /\ UNCHANGED <<sipVars, bridges, ctx_counter, internal_events>>

-----------------------------------------------------------------------------
(* The SIP queue: process_event(TSipEvent). *)

NoSipEvent ==
    /\ AtStage("sip")
    /\ sip_events = << >>
    /\ Return
    /\ UNCHANGED <<sipVars, tgVars, bridges, ctx_counter, internal_events,
                   e_flag, undiscarded>>

PopSip(type) ==
    /\ AtStage("sip")
    /\ sip_events # << >>
    /\ Head(sip_events).type = type
    /\ UNCHANGED <<tgVars, e_flag, undiscarded>>

(* init: StoreSipId, AcceptIncomingSip. *)
AcceptIncomingSip ==
    /\ PopSip("IncomingCall")
    /\ LET e == Head(sip_events)
       IN  /\ Unowned("sip_call_id", e.id)
           /\ Create([NoBridge EXCEPT !.from = "sip",
                                      !.state = "sip_wait_confirm",
                                      !.sip_call_id = e.id])
           /\ \/ /\ e.arg = "valid"
                 /\ AnswerRinging(Tail(sip_events), e.id)
                 /\ UNCHANGED internal_events
              \/ /\ e.arg = "invalid" \/ ~CanAnswer(e.id)
                 /\ PushError(NewCtx)
                 /\ SipSkip(Tail(sip_events))
    /\ Return

(* init: a state or media update of a call no bridge knows goes to X. *)
StraySipEvent(type) ==
    /\ type # "IncomingCall"
    /\ PopSip(type)
    /\ Unowned("sip_call_id", Head(sip_events).id)
    /\ SipSkip(Tail(sip_events))
    /\ Return
    /\ UNCHANGED <<bridges, ctx_counter, internal_events>>

(* from_tg, sip_wait_media: AnswerTg as far as its acceptCall. *)
MediaFromTg(c) ==
    /\ PopSip("CallMediaStateUpdate")
    /\ IsOwner(c, "sip_call_id", Head(sip_events).id)
    /\ Head(sip_events).arg = "has_media"
    /\ bridges[c].from = "tg" /\ bridges[c].state = "sip_wait_media"
    /\ Await("acceptCall", c)
    /\ SipSkip(Tail(sip_events))
    /\ UNCHANGED <<bridges, ctx_counter, internal_events>>

(* from_sip, sip_wait_confirm: DialTg.  It may drop the call (a flood      *)
(* block, an unknown name or number) or wait for createCall.               *)
EarlyFromSip(c) ==
    /\ PopSip("CallStateUpdate")
    /\ IsOwner(c, "sip_call_id", Head(sip_events).id)
    /\ Head(sip_events).arg = "EARLY"
    /\ bridges[c].from = "sip" /\ bridges[c].state = "sip_wait_confirm"
    /\ \/ /\ PushError(c)
          /\ bridges' = [bridges EXCEPT ![c].state = "wait_tg"]
          /\ Return
       \/ /\ Await("createCall", c)
          /\ UNCHANGED <<bridges, internal_events>>
    /\ SipSkip(Tail(sip_events))
    /\ UNCHANGED ctx_counter

(* mutant: the exception of BridgeAudio is swallowed *)
MediaFromSipSilent(c) ==
    /\ PopSip("CallMediaStateUpdate")
    /\ IsOwner(c, "sip_call_id", Head(sip_events).id)
    /\ Head(sip_events).arg = "has_media"
    /\ bridges[c].from = "sip" /\ bridges[c].state = "sip_wait_media"
    /\ bridges' = [bridges EXCEPT ![c].state = "wait_dtmf",
                                  ![c].wired =
                                      CanBridgeAudio(bridges[c].sip_call_id)]
    /\ SipSkip(Tail(sip_events))
    /\ Return
    /\ UNCHANGED <<ctx_counter, internal_events>>

(* from_sip, sip_wait_media: BridgeAudio. *)
MediaFromSip(c) ==
    /\ PopSip("CallMediaStateUpdate")
    /\ IsOwner(c, "sip_call_id", Head(sip_events).id)
    /\ Head(sip_events).arg = "has_media"
    /\ bridges[c].from = "sip" /\ bridges[c].state = "sip_wait_media"
    /\ LET ok == CanBridgeAudio(bridges[c].sip_call_id)
       IN  /\ bridges' = [bridges EXCEPT ![c].state = "wait_dtmf",
                                         ![c].wired = ok]
           /\ IF ok THEN UNCHANGED internal_events ELSE PushError(c)
    /\ SipSkip(Tail(sip_events))
    /\ Return
    /\ UNCHANGED ctx_counter

(* from_tg, from_sip: DISCONNECTED: CleanSipId, then CleanUp. *)
SipDisconnected(c) ==
    /\ PopSip("CallStateUpdate")
    /\ IsOwner(c, "sip_call_id", Head(sip_events).id)
    /\ Head(sip_events).arg = "DISCONNECTED"
    /\ CleanUp(c, [bridges[c] EXCEPT !.sip_call_id = InvalidId],
               Tail(sip_events))
    /\ UNCHANGED <<ctx_counter, internal_events>>

(* No row for this event in this state: an IncomingCall on an id a bridge  *)
(* still holds, a progress report, media that is off or not waited for.    *)
SipIgnored(c) ==
    /\ \E type \in {"IncomingCall", "CallStateUpdate",
                    "CallMediaStateUpdate"} : PopSip(type)
    /\ LET e == Head(sip_events)
           b == bridges[c]
       IN  /\ IsOwner(c, "sip_call_id", e.id)
           /\ \/ e.arg \in {"valid", "invalid", "CONFIRMED", "no_media"}
              \/ e.arg = "EARLY"
                 /\ ~(b.from = "sip" /\ b.state = "sip_wait_confirm")
              \/ e.arg = "has_media" /\ b.state # "sip_wait_media"
    /\ SipSkip(Tail(sip_events))
    /\ Return
    /\ UNCHANGED <<bridges, ctx_counter, internal_events>>

-----------------------------------------------------------------------------
(* What a handler does when the TDLib query it waits for is answered. *)

Answered(op) ==
    /\ Running
    /\ query.op = op
    /\ UNCHANGED <<ctx_counter, e_flag>>

(* DialSip after getUser: Dial the callback URI, or catch its pj::Error. *)
UserFound ==
    /\ Answered("getUser")
    /\ LET c == query.ctx
       IN  \/ \E i \in SipId :
                /\ Dial(sip_events, i)
                /\ bridges' = [bridges EXCEPT ![c].state = "sip_wait_media",
                                              ![c].sip_call_id = i]
                /\ UNCHANGED internal_events
           \/ /\ bridges' = [bridges EXCEPT ![c].state = "sip_wait_media"]
              /\ PushError(c)
              /\ SipSkip(sip_events)
    /\ Return
    /\ UNCHANGED <<tgVars, undiscarded>>

(* DialSip throws std::runtime_error and nothing up to main catches it. *)
UserFailed ==
    /\ Answered("getUser")
    /\ stage' = "aborted"
    /\ query' = NoQuery
    /\ UNCHANGED <<sipVars, tgVars, bridges, internal_events, undiscarded>>

(* AnswerTg after acceptCall. *)
CallAccepted ==
    /\ Answered("acceptCall")
    /\ LET c == query.ctx
       IN  /\ bridges' = [bridges EXCEPT ![c].state = "wait_tg"]
           /\ \/ /\ AcceptCall(bridges[c].tg_call_id)
                 /\ UNCHANGED internal_events
              \/ /\ PushError(c)
                 /\ UNCHANGED tgVars
    /\ Return
    /\ UNCHANGED <<sipVars, undiscarded>>

(* mutant: a failed createCall is not reported *)
CallCreatedSilent ==
    /\ Answered("createCall")
    /\ LET c == query.ctx
       IN  \/ \E t \in TgOut :
                /\ CreateCall(t)
                /\ bridges' = [bridges EXCEPT ![c].state = "wait_tg",
                                              ![c].tg_call_id = t]
           \/ /\ bridges' = [bridges EXCEPT ![c].state = "wait_tg"]
              /\ UNCHANGED tgVars
    /\ Return
    /\ UNCHANGED <<sipVars, internal_events, undiscarded>>

(* dial_by_id after createCall: the id is stored, or the error reported. *)
CallCreated ==
    /\ Answered("createCall")
    /\ LET c == query.ctx
       IN  \/ \E t \in TgOut :
                /\ CreateCall(t)
                /\ bridges' = [bridges EXCEPT ![c].state = "wait_tg",
                                              ![c].tg_call_id = t]
                /\ UNCHANGED internal_events
           \/ /\ bridges' = [bridges EXCEPT ![c].state = "wait_tg"]
              /\ PushError(c)
              /\ UNCHANGED tgVars
    /\ Return
    /\ UNCHANGED <<sipVars, undiscarded>>

(* CleanUp after discardCall.  An error is logged and the call forgotten;  *)
(* the SIP leg is hung up and the bridge deleted either way.               *)
CallDiscarded ==
    /\ Answered("discardCall")
    /\ LET c == query.ctx
           t == bridges[c].tg_call_id
       IN  /\ \/ DiscardCall(t) /\ UNCHANGED undiscarded
              \/ /\ undiscarded' = undiscarded \cup {t}
                 /\ UNCHANGED tgVars
           /\ Hangup(sip_events, bridges[c].sip_call_id)
           /\ bridges' = [bridges EXCEPT ![c] = NoBridge]
    /\ Return
    /\ UNCHANGED internal_events

-----------------------------------------------------------------------------
(* The signal handler Gateway::start installs. *)
Signal ==
    /\ Signals /\ Running
    /\ ~e_flag
    /\ e_flag' = TRUE
    /\ UNCHANGED <<sipVars, tgVars, bridges, ctx_counter, internal_events,
                   stage, query, undiscarded>>

(* The two networks move on their own threads while the gateway runs. *)
Network ==
    /\ Running
    /\ \/ SipRemote /\ UNCHANGED <<tgVars, gwVars>>
       \/ TgRemote /\ UNCHANGED <<sipVars, gwVars>>

Loop ==
    \/ Exit
    \/ NoInternalEvent \/ InternalError
    \/ NoTgEvent \/ PendingDialSip \/ PendingReject \/ StrayUpdate
    \/ NoSipEvent \/ AcceptIncomingSip
    \/ \E type \in {"CallStateUpdate", "CallMediaStateUpdate"} :
          StraySipEvent(type)
    \/ \E c \in Ctx :
          \/ ReadyFromTg(c) \/ ReadyFromSip(c) \/ TgEnded(c) \/ TgIgnored(c)
          \/ MediaFromTg(c) \/ EarlyFromSip(c) \/ MediaFromSip(c)
          \/ SipDisconnected(c) \/ SipIgnored(c)

Response ==
    UserFound \/ UserFailed \/ CallAccepted \/ CallCreated \/ CallDiscarded

Next == Network \/ Signal \/ Loop \/ Response

Spec == Init /\ [][Next]_vars

(* The loop never blocks between waits, and TDLib answers every query;     *)
(* peers and signals owe nothing.                                          *)
FairSpec == Spec /\ WF_vars(Loop) /\ WF_vars(Response)
-----------------------------------------------------------------------------
(* Correctness. *)

SipQueued(e) == \E n \in 1 .. Len(sip_events) : sip_events[n] = e
TgQueued(u) == \E n \in 1 .. Len(tg_events) : tg_events[n] = u
ErrorQueued(c) ==
    \E n \in 1 .. Len(internal_events) : internal_events[n] = c

(* No two bridges own the same Telegram call, so search_call's first match *)
(* is the only one: an update never reaches the wrong conversation, and a  *)
(* repeated callStatePending never starts a second one.                    *)
UniqueTgLeg ==
    \A c, d \in Ctx :
        /\ Exists(c) /\ Exists(d)
        /\ bridges[c].tg_call_id = bridges[d].tg_call_id
        /\ bridges[c].tg_call_id # NoTg
        => c = d

(* No Telegram call is orphaned: one that rings or talks has a bridge, or  *)
(* its first update is still queued, or the discard of it failed.          *)
NoOrphanedTgCall ==
    Running =>
        \A t \in TgId :
            TgLive(t) => \/ ~Unowned("tg_call_id", t)
                         \/ TgQueued(UpdateCall(t, "Pending"))
                         \/ t \in undiscarded

(* No SIP call is orphaned: one in the call table has a bridge, or its     *)
(* IncomingCall is still queued.                                           *)
NoOrphanedSipCall ==
    Running =>
        \A i \in SipId :
            Alive(i) => \/ ~Unowned("sip_call_id", i)
                        \/ \E x \in {"valid", "invalid"} :
                               SipQueued(IncomingCall(i, x))

(* Neither leg is left behind: no handler, failed query or clean-up ends   *)
(* with a call of either network that nothing will ever end.               *)
NoOrphanedCall == NoOrphanedTgCall /\ NoOrphanedSipCall

(* A bridge never waits on a SIP leg that is over, or that was never       *)
(* dialled, unless an event that removes the bridge is on its way.         *)
SipLegAccounted ==
    \A c \in Ctx :
        bridges[c].state \in {"sip_wait_confirm", "sip_wait_media", "wait_tg",
                              "wait_dtmf"} =>
            LET i == bridges[c].sip_call_id
            IN  \/ ErrorQueued(c)
                \/ /\ i # InvalidId
                   /\ Alive(i) \/ SipQueued(CallStateUpdate(i, "DISCONNECTED"))

(* The same for the Telegram leg; a bridge from SIP has one only from      *)
(* wait_tg on.  A call whose discard TDLib accepted will still report its  *)
(* end.                                                                    *)
TgLegAccounted ==
    \A c \in Ctx :
        Exists(c) /\ bridges[c].state \notin {"sip_wait_confirm", "X"} =>
            LET t == bridges[c].tg_call_id
            IN  \/ ErrorQueued(c)
                \/ /\ t # NoTg
                   /\ \/ TgLive(t) \/ tg_call[t] = "discarding"
                      \/ TgQueued(UpdateCall(t, "Ended"))

(* Both legs of every bridge are accounted for (gateway.cpp:672-707): none *)
(* waits for a network that has nothing more to say.                       *)
LegsAccounted == SipLegAccounted /\ TgLegAccounted

(* No bridge enters the conversation without BridgeAudio: in wait_dtmf its *)
(* controller runs and BridgeAudio has succeeded, or the InternalError of  *)
(* its failure is queued, though the media may go between the event that   *)
(* announced it and the handler that connects it (gateway.cpp:372-399).    *)
(* Media lost later is not noticed, since wait_dtmf has no row for it.     *)
TalkingWasWired ==
    \A c \in Ctx :
        bridges[c].state = "wait_dtmf" =>
            \/ ErrorQueued(c)
            \/ bridges[c].controller /\ bridges[c].wired

(* An established conversation is torn down only for a cause: a leg that   *)
(* has ended, or an error of its own context.                              *)
TornDownForCause ==
    [][\A c \in Ctx :
          bridges[c].state = "wait_dtmf" /\ bridges'[c].state = "X" =>
              \/ ErrorQueued(c)
              \/ ~Alive(bridges[c].sip_call_id)
              \/ tg_call[bridges[c].tg_call_id] = "ended"]_vars

(* When one leg of a bridge is over, the gateway removes the bridge (and   *)
(* so, by the invariants, the other leg), unless the process ends first.   *)
LegOver(c) ==
    /\ Exists(c)
    /\ \/ bridges[c].sip_call_id # InvalidId /\ ~Alive(bridges[c].sip_call_id)
       \/ bridges[c].tg_call_id # NoTg /\ tg_call[bridges[c].tg_call_id] = "ended"
LegOverEndsBridge == \A c \in Ctx : LegOver(c) ~> ~Exists(c) \/ ~Running

(* A Telegram call that rings is taken up by a bridge, or is over.         *)
RingIsTakenUp ==
    \A t \in TgIn :
        tg_call[t] = "pending" ~>
            ~Unowned("tg_call_id", t) \/ ~TgLive(t) \/ ~Running
                \/ t \in undiscarded
=============================================================================
