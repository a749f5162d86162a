----------------------------- MODULE GoGateway -----------------------------
(***************************************************************************)
(* The gateway of the Go rewrite (go/gateway.go with context.go,           *)
(* telegram_calls.go and sipclient.go).                                    *)
(*                                                                         *)
(* gosip runs the handler of every SIP request on a goroutine of its own;  *)
(* the handlers talk to the goroutine in Gateway.Start, the loop, over two *)
(* channels of capacity 16.  Telegram updates are handled by the loop      *)
(* itself, which then writes to the channels only it reads.                *)
(*                                                                         *)
(* A step is one channel operation, one Telegram request, or the code      *)
(* between two of them.  The flood block of handleInvite and the contact   *)
(* cache are left out: an INVITE may be refused before its createCall.     *)
(* `events' is only logged, so its length is kept.                         *)
(* Updates of calls that are not incoming and pending return at once.      *)
(***************************************************************************)
EXTENDS Integers, Sequences

CONSTANTS
    SipCalls,   \* Call-IDs of the INVITEs the PBX sends
    TgIds,      \* ids of the calls Telegram users place
    NoCall,     \* an empty SIPCallID, a zero TGCallID
    Methods,    \* bound: the methods peers use within a dialog
    Cap,        \* capacity of the two channels (16)
    Cancel      \* BOOLEAN: ctx may be cancelled

(* The Call-ID SIPClient.Dial gets from the request builder. *)
Dialled(t) == <<"dial", t>>

(* Call-IDs are made to be unique, and Telegram's ids are numbers. *)
ASSUME GoAssumption ==
    /\ SipCalls \cap TgIds = {} /\ NoCall \notin SipCalls \cup TgIds
    /\ \A t \in TgIds : Dialled(t) \notin SipCalls \cup TgIds \cup {NoCall}
    /\ Methods \subseteq {"ACK", "INFO", "BYE"}
    /\ Cap \in Nat \ {0}
    /\ Cancel \in BOOLEAN

Legs == SipCalls \cup {Dialled(t) : t \in TgIds}
Ids == SipCalls \cup TgIds

Context == [SIPCallID : SipCalls \cup {NoCall}, TGCallID : TgIds \cup {NoCall},
            State : {"Incoming", "Outgoing", "WaitMedia", "WaitDTMF"}]
NoContext == [SIPCallID |-> NoCall, TGCallID |-> NoCall, State |-> "Cleanup"]

(* What a peer can send: an INVITE and its ACK on legs of its own, INFO    *)
(* and BYE on every leg.                                                   *)
Requests ==
    (({"INVITE"} \cup Methods) \X SipCalls)
    \cup ((Methods \ {"ACK"}) \X {Dialled(t) : t \in TgIds})

VARIABLES
    calls,           \* Gateway.calls
    sessions,        \* SIPClient.calls: Call-IDs with a session
    events,          \* length of the channel Gateway.events
    internalEvents,  \* the channel Gateway.internalEvents
    handler,         \* where the goroutine of each request is
    loop,            \* where Gateway.Start is, and the update it handles
    tgOut,           \* Telegram calls created for INVITEs
    tgIn,            \* Telegram calls that users placed
    canceled,        \* ctx is done
    unhung           \* history: legs whose Hangup returned an error

vars == <<calls, sessions, events, internalEvents, handler, loop, tgOut, tgIn,
          canceled, unhung>>

Event(id, typ) == [ctxID |-> id, typ |-> typ]
AtSelect == [pc |-> "select", id |-> NoCall]

TypeOK ==
    /\ calls \in [Ids -> Context \cup {NoContext}]
    /\ sessions \subseteq Legs
    /\ events \in 0 .. Cap
    /\ internalEvents \in Seq([ctxID : Ids \cup Legs,
                               typ : {"Incoming", "Outgoing", "WaitMedia",
                                      "WaitDTMF", "Cleanup"}])
    /\ Len(internalEvents) <= Cap
    /\ handler \in [Requests -> {"idle", "create", "events", "internal",
                                 "track", "done", "refused"}]
    /\ loop \in [pc : {"select", "events", "internal", "dial", "returned"},
                 id : TgIds \cup {NoCall}]
    /\ tgOut \in [SipCalls -> {"none", "up"}]
    /\ tgIn \in [TgIds -> {"none", "pending", "ignored", "accepted",
                           "discarded"}]
    /\ canceled \in BOOLEAN
    /\ unhung \subseteq Legs

Init ==
    /\ calls = [i \in Ids |-> NoContext]
    /\ sessions = {}
    /\ events = 0
    /\ internalEvents = << >>
    /\ handler = [r \in Requests |-> "idle"]
    /\ loop = AtSelect
    /\ tgOut = [c \in SipCalls |-> "none"]
    /\ tgIn = [t \in TgIds |-> "none"]
    /\ canceled = FALSE
    /\ unhung = {}

HasContext(i) == calls[i] # NoContext
Goto(r, pc) == handler' = [handler EXCEPT ![r] = pc]

-----------------------------------------------------------------------------
(* The goroutine of an INVITE. *)

(* handleInvite up to createTelegramCall; a flood block, a failed lookup   *)
(* or an unknown extension answers 503, 500 or 404 and returns.            *)
Invite(c) ==
    LET r == <<"INVITE", c>>
    IN  /\ handler[r] = "idle"
        /\ Goto(r, "create") \/ Goto(r, "refused")
        /\ UNCHANGED <<calls, sessions, events, internalEvents, loop, tgOut,
                       tgIn, canceled, unhung>>

(* createTelegramCall was answered.  A flood error returns; any other      *)
(* error is logged and the context is made all the same.  The id of the    *)
(* new Telegram call is not kept.                                          *)
CreateCall(c) ==
    LET r == <<"INVITE", c>>
    IN  /\ handler[r] = "create"
        /\ \/ Goto(r, "refused") /\ UNCHANGED <<calls, tgOut>>
           \/ /\ Goto(r, "events")
              /\ calls' = [calls EXCEPT ![c] =
                             [SIPCallID |-> c, TGCallID |-> NoCall,
                              State |-> "Incoming"]]
              /\ \E s \in {"none", "up"} : tgOut' = [tgOut EXCEPT ![c] = s]
        /\ UNCHANGED <<sessions, events, internalEvents, loop, tgIn, canceled,
                       unhung>>

(* mutant: TrackInvite before the context is announced *)
TrackInviteEarly(c) ==
    LET r == <<"INVITE", c>>
    IN  /\ handler[r] \in {"create", "track"}
        /\ IF handler[r] = "track" THEN Goto(r, "done") ELSE UNCHANGED handler
        /\ sessions' = sessions \cup {c}
        /\ UNCHANGED <<calls, events, internalEvents, loop, tgOut, tgIn,
                       canceled, unhung>>

(* SIPClient.TrackInvite, and the 100 Trying. *)
TrackInvite(c) ==
    LET r == <<"INVITE", c>>
    IN  /\ handler[r] = "track"
        /\ Goto(r, "done")
        /\ sessions' = sessions \cup {c}
        /\ UNCHANGED <<calls, events, internalEvents, loop, tgOut, tgIn,
                       canceled, unhung>>

-----------------------------------------------------------------------------
(* handleAck, handleInfo, handleBye, and the two sends of handleInvite. *)

(* A dialog the peer may send requests in: it has sent the INVITE, which   *)
(* gosip is handling or has handled, or the gateway has dialled it.  No    *)
(* handler waits for that of the INVITE.                                   *)
InDialog(l) ==
    IF l \in SipCalls
    THEN handler[<<"INVITE", l>>] # "idle"
    ELSE l \in sessions \/ (loop.pc = "dial" /\ l = Dialled(loop.id))

Arrive(r) ==
    /\ r[1] # "INVITE"
    /\ handler[r] = "idle"
    /\ InDialog(r[2])
    /\ Goto(r, "events")
    /\ UNCHANGED <<calls, sessions, events, internalEvents, loop, tgOut, tgIn,
                   canceled, unhung>>

(* g.events <- ... blocks while the channel is full. *)
SendEvent(r) ==
    /\ handler[r] = "events"
    /\ events < Cap
    /\ events' = events + 1
    /\ Goto(r, "internal")
    /\ UNCHANGED <<calls, sessions, internalEvents, loop, tgOut, tgIn,
                   canceled, unhung>>

EventType(method) == CASE method = "INVITE" -> "Incoming"
                       [] method = "ACK" -> "WaitMedia"
                       [] method = "INFO" -> "WaitDTMF"
                       [] method = "BYE" -> "Cleanup"

(* g.internalEvents <- ..., then the answer to the request. *)
SendInternal(r) ==
    /\ handler[r] = "internal"
    /\ Len(internalEvents) < Cap
    /\ internalEvents' = Append(internalEvents, Event(r[2], EventType(r[1])))
    /\ Goto(r, IF r[1] = "INVITE" THEN "track" ELSE "done")
    /\ UNCHANGED <<calls, sessions, events, loop, tgOut, tgIn, canceled,
                   unhung>>

-----------------------------------------------------------------------------
(* Gateway.Start: one case of the select at a time. *)

Selecting == loop = AtSelect

LogEvent ==
    /\ Selecting
    /\ events > 0
    /\ events' = events - 1
    /\ UNCHANGED <<calls, sessions, internalEvents, handler, loop, tgOut, tgIn,
                   canceled, unhung>>

(* cleanUp for the contexts in C: SIPClient.Hangup for those with a        *)
(* SIPCallID, whose error is dropped: there is no session of that name, or *)
(* the BYE cannot be sent and the session is kept.  discardTelegramCall    *)
(* for those with a TGCallID, whose failure is logged.  No code sets       *)
(* Controller.                                                             *)
CleanUp(C) ==
    LET legs == {calls[c].SIPCallID : c \in C} \ {NoCall}
    IN  /\ \E failed \in SUBSET (legs \cap sessions) :
             /\ sessions' = sessions \ (legs \ failed)
             /\ unhung' = unhung \cup failed \cup (legs \ sessions)
        /\ \E ended \in SUBSET {t \in TgIds :
                                 \E c \in C : calls[c].TGCallID = t} :
             tgIn' = [t \in TgIds |->
                        IF t \in ended THEN "discarded" ELSE tgIn[t]]

Known(e) == e.ctxID \in Ids /\ HasContext(e.ctxID)

(* mutant: processInternalEvent forgets to delete the context *)
ProcessInternalEventKeeps ==
    /\ Selecting
    /\ internalEvents # << >>
    /\ internalEvents' = Tail(internalEvents)
    /\ LET e == Head(internalEvents)
       IN  \/ ~Known(e) /\ UNCHANGED <<calls, sessions, unhung, tgIn>>
           \/ /\ Known(e) /\ e.typ = "Cleanup"
              /\ CleanUp({e.ctxID}) /\ UNCHANGED calls
           \/ /\ Known(e) /\ e.typ # "Cleanup"
              /\ calls' = [calls EXCEPT ![e.ctxID].State = e.typ]
              /\ UNCHANGED <<sessions, unhung, tgIn>>
    /\ UNCHANGED <<events, handler, loop, tgOut, canceled>>

(* processInternalEvent: an event without a context is ignored. *)
ProcessInternalEvent ==
    /\ Selecting
    /\ internalEvents # << >>
    /\ internalEvents' = Tail(internalEvents)
    /\ LET e == Head(internalEvents)
       IN  \/ ~Known(e) /\ UNCHANGED <<calls, sessions, unhung, tgIn>>
           \/ /\ Known(e) /\ e.typ = "Cleanup"
              /\ CleanUp({e.ctxID})
              /\ calls' = [calls EXCEPT ![e.ctxID] = NoContext]
           \/ /\ Known(e) /\ e.typ # "Cleanup"
              /\ calls' = [calls EXCEPT ![e.ctxID].State = e.typ]
              /\ UNCHANGED <<sessions, unhung, tgIn>>
    /\ UNCHANGED <<events, handler, loop, tgOut, canceled>>

(* handleTelegramCall up to its first send: acceptCall fails; or getUser   *)
(* fails, and the accepted call is left as it is; or the context is made.  *)
HandleTelegramCall(t) ==
    /\ Selecting
    /\ tgIn[t] = "pending"
    /\ \/ /\ \E s \in {"ignored", "accepted"} : tgIn' = [tgIn EXCEPT ![t] = s]
          /\ UNCHANGED <<calls, loop>>
       \/ /\ tgIn' = [tgIn EXCEPT ![t] = "accepted"]
          /\ calls' = [calls EXCEPT ![t] =
                         [SIPCallID |-> NoCall, TGCallID |-> t,
                          State |-> "Outgoing"]]
          /\ loop' = [pc |-> "events", id |-> t]
    /\ UNCHANGED <<sessions, events, internalEvents, handler, tgOut, canceled,
                   unhung>>

(* The loop itself sends to the channels it reads. *)
LoopSendEvent ==
    /\ loop.pc = "events"
    /\ events < Cap
    /\ events' = events + 1
    /\ loop' = [loop EXCEPT !.pc = "internal"]
    /\ UNCHANGED <<calls, sessions, internalEvents, handler, tgOut, tgIn,
                   canceled, unhung>>

LoopSendInternal ==
    /\ loop.pc = "internal"
    /\ Len(internalEvents) < Cap
    /\ internalEvents' = Append(internalEvents, Event(loop.id, "Outgoing"))
    /\ loop' = [loop EXCEPT !.pc = "dial"]
    /\ UNCHANGED <<calls, sessions, events, handler, tgOut, tgIn, canceled,
                   unhung>>

(* SIPClient.Dial: a session under a Call-ID the context never learns, or  *)
(* an error that is only logged.                                           *)
Dial ==
    /\ loop.pc = "dial"
    /\ loop' = AtSelect
    /\ \/ sessions' = sessions \cup {Dialled(loop.id)}
       \/ UNCHANGED sessions
    /\ UNCHANGED <<calls, events, internalEvents, handler, tgOut, tgIn,
                   canceled, unhung>>

(* ctx.Done(): every context is cleaned up, none deleted, and the loop     *)
(* returns; requests that arrive from then on find nobody reading.         *)
Shutdown ==
    /\ Selecting
    /\ canceled
    /\ CleanUp({i \in Ids : HasContext(i)})
    /\ loop' = [loop EXCEPT !.pc = "returned"]
    /\ UNCHANGED <<calls, events, internalEvents, handler, tgOut, canceled>>

-----------------------------------------------------------------------------
(* Telegram users call, and SIGTERM cancels ctx. *)
TgRing(t) ==
    /\ tgIn[t] = "none"
    /\ tgIn' = [tgIn EXCEPT ![t] = "pending"]
    /\ UNCHANGED <<calls, sessions, events, internalEvents, handler, loop,
                   tgOut, canceled, unhung>>

Sigterm ==
    /\ Cancel /\ ~canceled
    /\ canceled' = TRUE
    /\ UNCHANGED <<calls, sessions, events, internalEvents, handler, loop,
                   tgOut, tgIn, unhung>>

(* mutant: the select lacks the case that drains the events *)
LoopWithoutEvents ==
    \/ ProcessInternalEvent
    \/ \E t \in TgIds : HandleTelegramCall(t)
    \/ LoopSendEvent \/ LoopSendInternal \/ Dial \/ Shutdown

Loop ==
    \/ LogEvent \/ ProcessInternalEvent
    \/ \E t \in TgIds : HandleTelegramCall(t)
    \/ LoopSendEvent \/ LoopSendInternal \/ Dial \/ Shutdown

Handle(r) ==
    \/ SendEvent(r) \/ SendInternal(r)
    \/ r[1] = "INVITE" /\ (CreateCall(r[2]) \/ TrackInvite(r[2]))

Environment ==
    \/ \E c \in SipCalls : Invite(c)
    \/ \E r \in Requests : Arrive(r)
    \/ \E t \in TgIds : TgRing(t)
    \/ Sigterm

Next == Loop \/ Environment \/ \E r \in Requests : Handle(r)

Spec == Init /\ [][Next]_vars

(* Every goroutine that can run is run, and Telegram answers every         *)
(* request; peers, users and signals owe nothing.                          *)
FairSpec == Spec /\ WF_vars(Loop) /\ \A r \in Requests : WF_vars(Handle(r))
-----------------------------------------------------------------------------
(* Correctness. *)

Returned == loop.pc = "returned"

(* A SIP session belongs to a context in Gateway.calls, so that its end    *)
(* can be found, whatever the order in which INVITE, BYE and the loop go   *)
(* through the two tables, but for one case: cleanUp dropped an error of   *)
(* Hangup for this leg (gateway.go:314), as it does when the BYE is        *)
(* applied before TrackInvite.                                             *)
SessionHasContext ==
    /\ TypeOK
    /\ \A c \in SipCalls \cap sessions : HasContext(c) \/ c \in unhung
    /\ \A t \in TgIds : Dialled(t) \in sessions => HasContext(t)

(* The loop writes to a full channel that only it reads (gateway.go:243).  *)
Wedged ==
    \/ loop.pc = "events" /\ events = Cap
    \/ loop.pc = "internal" /\ Len(internalEvents) = Cap

(* Back-pressure holds nobody up for ever but for that one case: a request *)
(* whose handler has started is answered, however full the channels are    *)
(* (gateway.go:451-452, 481-482).                                          *)
HandlersReturn ==
    \A r \in Requests :
        handler[r] # "idle" ~>
            handler[r] \in {"done", "refused"} \/ Returned \/ Wedged

ByeUnderWay(c) ==
    \/ handler[<<"BYE", c>>] \in {"events", "internal"}
    \/ \E n \in 1 .. Len(internalEvents) :
          internalEvents[n] = Event(c, "Cleanup")

(* A BYE that arrives before its context is there may be lost; any other   *)
(* removes the context in the end, though its event waits for two full     *)
(* channels and is applied by another goroutine (gateway.go:474-486).  The *)
(* Telegram call of the INVITE stays up: its id is never stored.           *)
ByeRemovesContext ==
    \A c \in SipCalls :
        HasContext(c) /\ ByeUnderWay(c) ~>
            ~HasContext(c) \/ Returned \/ Wedged
=============================================================================
