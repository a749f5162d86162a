--------------------------- MODULE GatewayProofs ---------------------------
(***************************************************************************)
(* Proofs about Gateway and DtmfRouting, for every call table size, every  *)
(* set of Telegram calls and every number of contexts.                     *)
(***************************************************************************)
EXTENDS DtmfRouting, TLAPS

(* A queued update names a call TDLib has made. *)
TgInv ==
    /\ TgTypeOK
    /\ \A n \in 1 .. Len(tg_events) : tg_call[tg_events[n].id] # "none"

(* A Telegram leg belongs to an existing bridge, to one only, and is a     *)
(* call TDLib has made: so an id createCall returns is new to all bridges. *)
BridgeInv ==
    /\ bridges \in [Ctx -> Bridge]
    /\ \A c \in Ctx : bridges[c].tg_call_id # NoTg =>
           Exists(c) /\ tg_call[bridges[c].tg_call_id] # "none"
    /\ \A c, d \in Ctx :
           /\ bridges[c].tg_call_id = bridges[d].tg_call_id
           /\ bridges[c].tg_call_id # NoTg
           => c = d

(* The handler that waits is some context's; CleanUp only waits for the    *)
(* discard of a call, and DialTg only on behalf of a bridge that exists.   *)
WaitInv ==
    /\ stage \in {"internal", "tg", "sip", "exited", "aborted"}
    /\ query \in [op : {"none", "getUser", "acceptCall", "createCall",
                        "discardCall"},
                  ctx : 0 .. MaxCtx]
    /\ query.op # "none" => query.ctx \in Ctx
    /\ query.op = "discardCall" => bridges[query.ctx].tg_call_id # NoTg
    /\ query.op = "createCall" => Exists(query.ctx)

(* The rest of the loop's state. *)
LoopType ==
    /\ ctx_counter \in 0 .. MaxCtx
    /\ internal_events \in Seq(Ctx)
    /\ e_flag \in BOOLEAN
    /\ undiscarded \in SUBSET TgId

Inv == SipTypeOK /\ TgInv /\ BridgeInv /\ WaitInv /\ LoopType

USE DEF SipId, InvalidId, TgId, Ctx

-----------------------------------------------------------------------------
(* The first element of a queue, and the queue after a pop. *)
LEMMA HeadTail ==
    ASSUME NEW E, NEW q \in Seq(E), q # << >>
    PROVE  Head(q) \in E /\ Tail(q) \in Seq(E)
  OBVIOUS

(* A queue after a push. *)
LEMMA Pushed ==
    ASSUME NEW E, NEW q \in Seq(E), NEW e \in E
    PROVE  Append(q, e) \in Seq(E)
  OBVIOUS

-----------------------------------------------------------------------------
(* Types of the SIP client. *)

(* The fragments that leave the client alone. *)
LEMMA SipSkipType ==
    ASSUME SipTypeOK, NEW q \in Seq(SipEvent), SipSkip(q)
    PROVE  SipTypeOK'
  BY DEF SipTypeOK, SipSkip

(* A state update of a slot is an event. *)
LEMMA StateEvent ==
    ASSUME NEW i \in SipId, NEW s \in {"EARLY", "CONFIRMED", "DISCONNECTED"},
           NEW q \in Seq(SipEvent)
    PROVE  Append(q, CallStateUpdate(i, s)) \in Seq(SipEvent)
<1>1. CallStateUpdate(i, s) \in SipEvent
  BY DEF CallStateUpdate, SipEvent
<1> QED
  BY <1>1

(* Storing a new call keeps the table's types. *)
LEMMA EmplaceType ==
    ASSUME SipTypeOK, NEW i \in SipId, NEW s \in InvState,
           NEW r \in {"UAC", "UAS"}, Emplace(i, s, r)
    PROVE  /\ calls' \in [SipId -> {"none", "live", "stale"}]
           /\ inv' \in [SipId -> InvState]
           /\ media' \in [SipId -> MediaState]
           /\ role' \in [SipId -> {"UAC", "UAS"}]
           /\ next_call_id' \in SipId
<1>1. next_call_id' \in SipId
  BY SipAssumption DEF Emplace
<1> QED
  BY <1>1 DEF SipTypeOK, Emplace

(* Client::Dial keeps the types. *)
LEMMA DialType ==
    ASSUME SipTypeOK, NEW q \in Seq(SipEvent), NEW i \in SipId, Dial(q, i)
    PROVE  SipTypeOK'
<1>1. Emplace(i, "CALLING", "UAC") /\ "CALLING" \in InvState
  BY DEF Dial, InvState
<1> QED
  BY <1>1, EmplaceType DEF SipTypeOK, Dial

(* Client::Answer keeps the types; it throws for an id that is no slot. *)
LEMMA AnswerType ==
    ASSUME SipTypeOK, NEW q \in Seq(SipEvent),
           NEW i \in SipId \cup {InvalidId},
           AnswerRinging(q, i) \/ AnswerOK(q, i)
    PROVE  SipTypeOK'
<1>1. i \in SipId
  BY DEF AnswerRinging, AnswerOK, CanAnswer
<1>2. sip_events' \in Seq(SipEvent)
  BY <1>1, StateEvent DEF AnswerRinging, AnswerOK
<1> QED
  BY <1>1, <1>2 DEF SipTypeOK, AnswerRinging, AnswerOK, InvState

(* Client::Hangup keeps the types, with or without a leg to hang up. *)
LEMMA HangupType ==
    ASSUME SipTypeOK, NEW q \in Seq(SipEvent),
           NEW i \in SipId \cup {InvalidId},
           Hangup(q, i)
    PROVE  SipTypeOK'
<1>1. CASE i # InvalidId /\ calls[i] = "live"
  <2>1. i \in SipId
    BY <1>1
  <2>2. sip_events' \in Seq(SipEvent)
    BY <1>1, <2>1, StateEvent DEF Hangup
  <2> QED
    BY <1>1, <2>1, <2>2 DEF Hangup, SipTypeOK, InvState, MediaState
<1>2. CASE ~(i # InvalidId /\ calls[i] = "live")
  BY <1>2, SipSkipType DEF Hangup
<1> QED
  BY <1>1, <1>2

(* The callbacks keep the types. *)
LEMMA SipRemoteType == SipTypeOK /\ SipRemote => SipTypeOK'
<1> SUFFICES ASSUME SipTypeOK, NEW i \in SipId,
                    \/ OnIncomingCall(i) \/ OnEarly(i) \/ OnConfirmed(i)
                    \/ OnDisconnected(i)
                    \/ \E m \in MediaState : OnMediaState(i, m)
             PROVE  SipTypeOK'
  BY DEF SipRemote
<1>1. CASE OnIncomingCall(i)
  <2>1. PICK ext \in {"valid", "invalid"} :
          sip_events' = Append(sip_events, IncomingCall(i, ext))
    BY <1>1 DEF OnIncomingCall
  <2>2. IncomingCall(i, ext) \in SipEvent
    BY DEF IncomingCall, SipEvent
  <2>3. sip_events' \in Seq(SipEvent)
    BY <2>1, <2>2 DEF SipTypeOK
  <2>4. Emplace(i, "INCOMING", "UAS") /\ "INCOMING" \in InvState
    BY <1>1 DEF OnIncomingCall, InvState
  <2>5. incoming' \in 0 .. MaxIncoming
    BY <1>1, SipAssumption DEF OnIncomingCall, SipTypeOK
  <2> QED
    BY <2>3, <2>4, <2>5, EmplaceType DEF SipTypeOK
<1>2. CASE OnEarly(i) \/ OnConfirmed(i)
  <2>1. sip_events' \in Seq(SipEvent)
    BY <1>2, StateEvent DEF OnEarly, OnConfirmed, SipTypeOK
  <2> QED
    BY <1>2, <2>1 DEF OnEarly, OnConfirmed, SipTypeOK, InvState
<1>3. CASE OnDisconnected(i)
  <2>1. sip_events' \in Seq(SipEvent)
    BY <1>3, StateEvent DEF OnDisconnected, SipTypeOK
  <2> QED
    BY <1>3, <2>1 DEF OnDisconnected, SipTypeOK, InvState, MediaState
<1>4. ASSUME NEW m \in MediaState, OnMediaState(i, m)
      PROVE  SipTypeOK'
  <2>1. CallMediaStateUpdate(i, m) \in SipEvent
    BY DEF CallMediaStateUpdate, SipEvent
  <2>2. sip_events' \in Seq(SipEvent)
    BY <1>4, <2>1 DEF OnMediaState, SipTypeOK
  <2> QED
    BY <1>4, <2>2 DEF OnMediaState, SipTypeOK
<1> QED
  BY <1>1, <1>2, <1>3, <1>4

-----------------------------------------------------------------------------
(* Telegram's calls and updates. *)

(* A call that exists goes on existing. *)
TgKeeps == \A t \in TgId : tg_call[t] # "none" => tg_call'[t] # "none"

(* A move of TDLib keeps the types and reports a call that exists. *)
LEMMA TgMoveInv ==
    ASSUME TgInv, NEW t \in TgId, NEW s \in TgCallState \ {"none"},
           NEW u \in {"Pending", "Ready", "Ended"}, TgMove(t, s, u)
    PROVE  TgInv' /\ TgKeeps /\ tg_call'[t] # "none"
<1>1. UpdateCall(t, u) \in TgEvent /\ UpdateCall(t, u).id = t
  BY DEF UpdateCall, TgEvent
<1>2. tg_call' \in [TgId -> TgCallState] /\ tg_call'[t] = s
  BY DEF TgInv, TgTypeOK, TgMove
<1>3. TgKeeps
  BY <1>2 DEF TgInv, TgTypeOK, TgMove, TgKeeps
<1>4. tg_events' = Append(tg_events, UpdateCall(t, u))
  BY DEF TgMove
<1>5. tg_events' \in Seq(TgEvent)
  BY <1>1, <1>4 DEF TgInv, TgTypeOK
<1>6. ASSUME NEW n \in 1 .. Len(tg_events')
      PROVE  tg_call'[tg_events'[n].id] # "none"
  <2>1. CASE n \in 1 .. Len(tg_events)
    <3>1. tg_events'[n] = tg_events[n] /\ tg_events[n] \in TgEvent
      BY <1>4, <2>1 DEF TgInv, TgTypeOK
    <3>2. tg_events[n].id \in TgId /\ tg_call[tg_events[n].id] # "none"
      BY <2>1, <3>1 DEF TgInv, TgEvent
    <3> QED
      BY <1>3, <3>1, <3>2 DEF TgKeeps
  <2>2. CASE n \notin 1 .. Len(tg_events)
    <3>1. tg_events'[n] = UpdateCall(t, u)
      BY <1>1, <1>4, <1>6, <2>2 DEF TgInv, TgTypeOK
    <3> QED
      BY <1>1, <1>2, <3>1
  <2> QED
    BY <2>1, <2>2
<1> QED
  BY <1>2, <1>3, <1>5, <1>6 DEF TgInv, TgTypeOK

(* A query that moves a call without an update. *)
LEMMA TgSetInv ==
    ASSUME TgInv, NEW t, NEW s \in TgCallState \ {"none"},
           tg_call' = [tg_call EXCEPT ![t] = s], UNCHANGED tg_events
    PROVE  TgInv' /\ TgKeeps
<1>1. TgTypeOK'
  BY DEF TgInv, TgTypeOK
<1>2. TgKeeps
  BY DEF TgInv, TgTypeOK, TgKeeps
<1>3. \A n \in 1 .. Len(tg_events) : tg_events[n].id \in TgId
  <2>1. \A n \in 1 .. Len(tg_events) : tg_events[n] \in TgEvent
    BY DEF TgInv, TgTypeOK
  <2> QED
    BY <2>1 DEF TgEvent
<1> QED
  BY <1>1, <1>2, <1>3 DEF TgInv, TgKeeps

(* TDLib's own steps keep the types and end no call's existence. *)
LEMMA TgRemoteInv == TgInv /\ TgRemote => TgInv' /\ TgKeeps
<1> SUFFICES ASSUME TgInv, NEW t \in TgId,
                    TgRing(t) \/ TgReceived(t) \/ TgReady(t) \/ TgEnd(t)
             PROVE  TgInv' /\ TgKeeps
  BY DEF TgRemote
<1>1. \/ TgMove(t, "pending", "Pending") \/ TgMove(t, "received", "Pending")
      \/ TgMove(t, "ready", "Ready") \/ TgMove(t, "ended", "Ended")
  BY DEF TgRing, TgReceived, TgReady, TgEnd
<1>2. {"pending", "received", "ready", "ended"}
         \subseteq TgCallState \ {"none"}
  BY DEF TgCallState
<1> QED
  BY <1>1, <1>2, TgMoveInv

(* Popping an update: what is popped is about a call that exists. *)
LEMMA PopTgInv ==
    ASSUME TgInv, PopTg
    PROVE  /\ TgInv' /\ TgKeeps /\ tg_call' = tg_call
           /\ Head(tg_events).id \in TgId
           /\ tg_call[Head(tg_events).id] # "none"
<1>1. tg_events \in Seq(TgEvent) /\ tg_events # << >>
      /\ tg_events' = Tail(tg_events) /\ tg_call' = tg_call
  BY DEF TgInv, TgTypeOK, PopTg
<1>2. Head(tg_events) \in TgEvent /\ Head(tg_events) = tg_events[1]
      /\ 1 \in 1 .. Len(tg_events)
  BY <1>1
<1>3. Tail(tg_events) \in Seq(TgEvent)
      /\ \A n \in 1 .. Len(Tail(tg_events)) :
            /\ n + 1 \in 1 .. Len(tg_events)
            /\ Tail(tg_events)[n] = tg_events[n + 1]
  BY <1>1
<1> QED
  BY <1>1, <1>2, <1>3 DEF TgInv, TgTypeOK, TgEvent, TgKeeps

-----------------------------------------------------------------------------
(* Changes to one bridge. *)

(* Replacing a bridge by one with the same Telegram leg or none. *)
LEMMA Touch ==
    ASSUME BridgeInv, TgTypeOK, TgKeeps, NEW c \in Ctx, NEW b \in Bridge,
           bridges' = [bridges EXCEPT ![c] = b],
           b.tg_call_id \in {NoTg, bridges[c].tg_call_id},
           b.from # "none" \/ b.tg_call_id = NoTg
    PROVE  BridgeInv'
<1>1. /\ bridges' \in [Ctx -> Bridge]
      /\ bridges'[c] = b
      /\ \A d \in Ctx \ {c} : bridges'[d] = bridges[d]
      /\ \A d \in Ctx : bridges[d].tg_call_id \in TgId \cup {NoTg}
  BY DEF BridgeInv, Bridge
<1>2. \A d \in Ctx : bridges'[d].tg_call_id # NoTg =>
         /\ bridges'[d].tg_call_id = bridges[d].tg_call_id
         /\ Exists(d)' /\ tg_call'[bridges'[d].tg_call_id] # "none"
  BY <1>1 DEF BridgeInv, Exists, TgKeeps
<1> QED
  BY <1>1, <1>2 DEF BridgeInv

(* Giving a bridge a Telegram leg no bridge has. *)
LEMMA Adopt ==
    ASSUME BridgeInv, TgTypeOK, TgKeeps, NEW c \in Ctx, NEW b \in Bridge,
           bridges' = [bridges EXCEPT ![c] = b],
           b.from # "none", b.tg_call_id # NoTg,
           tg_call'[b.tg_call_id] # "none",
           \A d \in Ctx : bridges[d].tg_call_id # b.tg_call_id
    PROVE  BridgeInv'
<1>1. /\ bridges' \in [Ctx -> Bridge]
      /\ bridges'[c] = b
      /\ \A d \in Ctx \ {c} : bridges'[d] = bridges[d]
      /\ \A d \in Ctx : bridges[d].tg_call_id \in TgId \cup {NoTg}
  BY DEF BridgeInv, Bridge
<1>2. \A d \in Ctx : bridges'[d].tg_call_id # NoTg =>
         Exists(d)' /\ tg_call'[bridges'[d].tg_call_id] # "none"
  BY <1>1 DEF BridgeInv, Exists, TgKeeps
<1> QED
  BY <1>1, <1>2 DEF BridgeInv

(* Returning to the loop. *)
LEMMA ReturnInv ==
    ASSUME Running, Return
    PROVE  WaitInv'
<1>1. stage' \in {"internal", "tg", "sip"}
  BY DEF Running, Return, NextStage
<1>2. query' = NoQuery
  BY DEF Return
<1> QED
  BY <1>1, <1>2, GatewayAssumption DEF WaitInv, NoQuery

(* CleanUp of a bridge, whichever of its legs are still set. *)
LEMMA CleanUpInv ==
    ASSUME Inv, Running, TgKeeps, NEW c \in Ctx, NEW b \in Bridge,
           NEW q \in Seq(SipEvent), CleanUp(c, b, q),
           b.from # "none",
           b.tg_call_id \in {NoTg, bridges[c].tg_call_id}
    PROVE  SipTypeOK' /\ BridgeInv' /\ WaitInv'
<1> USE DEF Inv
<1>1. CASE b.tg_call_id # NoTg
  <2> DEFINE d == [b EXCEPT !.state = "X", !.controller = FALSE,
                            !.wired = FALSE]
  <2>1. d \in Bridge /\ d.tg_call_id = b.tg_call_id /\ d.from = b.from
    BY DEF Bridge
  <2>2. bridges' = [bridges EXCEPT ![c] = d] /\ SipSkip(q)
        /\ query' = Query("discardCall", c) /\ stage' = stage
    BY <1>1 DEF CleanUp, Await
  <2>3. BridgeInv'
    BY <2>1, <2>2, Touch DEF TgInv
  <2>4. bridges'[c].tg_call_id # NoTg
    BY <1>1, <2>1, <2>2 DEF BridgeInv
  <2>5. WaitInv'
    BY <2>2, <2>4, GatewayAssumption DEF WaitInv, Query
  <2> QED
    BY <2>2, <2>3, <2>5, SipSkipType
<1>2. CASE b.tg_call_id = NoTg
  <2>1. NoBridge \in Bridge /\ NoBridge.tg_call_id = NoTg
    BY DEF NoBridge, Bridge
  <2>2. bridges' = [bridges EXCEPT ![c] = NoBridge] /\ Return
        /\ Hangup(q, b.sip_call_id)
    BY <1>2 DEF CleanUp
  <2>3. b.sip_call_id \in SipId \cup {InvalidId}
    BY DEF Bridge
  <2> QED
    BY <2>1, <2>2, <2>3, Touch, ReturnInv, HangupType DEF TgInv
<1> QED
  BY <1>1, <1>2

(* Popping a SIP event leaves a queue of events. *)
LEMMA PopSipFacts ==
    ASSUME SipTypeOK, NEW type, PopSip(type)
    PROVE  /\ Tail(sip_events) \in Seq(SipEvent)
           /\ Head(sip_events).id \in SipId
           /\ Running /\ UNCHANGED <<tgVars, e_flag, undiscarded>>
<1>1. sip_events \in Seq(SipEvent) /\ sip_events # << >>
  BY DEF SipTypeOK, PopSip
<1>2. Head(sip_events) \in SipEvent /\ Tail(sip_events) \in Seq(SipEvent)
  BY <1>1
<1> QED
  BY <1>2 DEF SipEvent, PopSip, AtStage, Running

(* Steps that leave Telegram alone. *)
LEMMA TgUnchanged ==
    ASSUME TgInv, UNCHANGED tgVars
    PROVE  TgInv' /\ TgKeeps /\ tg_call' = tg_call
  BY DEF TgInv, TgTypeOK, tgVars, TgKeeps

(* An owner is an existing bridge; an unowned call is no bridge's leg. *)
LEMMA OwnerFacts ==
    ASSUME BridgeInv
    PROVE  /\ \A c \in Ctx : \A f, id : IsOwner(c, f, id) => Exists(c)
           /\ \A t \in TgId : Unowned("tg_call_id", t) =>
                 \A c \in Ctx : bridges[c].tg_call_id # t
<1>1. ASSUME NEW t \in TgId, Unowned("tg_call_id", t), NEW c \in Ctx
      PROVE  bridges[c].tg_call_id # t
  BY <1>1, TgAssumption DEF BridgeInv, Unowned, Owners
<1> QED
  BY <1>1 DEF IsOwner, Owners

(* The internal queue and the loop's idle steps. *)
LEMMA InternalStep ==
    ASSUME Inv,
           \/ Exit \/ NoInternalEvent \/ InternalError
           \/ NoTgEvent \/ NoSipEvent
    PROVE  Inv'
<1> USE DEF Inv
<1>1. CASE Exit
  <2>1. UNCHANGED <<sipVars, tgVars, bridges, query>> /\ stage' = "exited"
    BY <1>1 DEF Exit
  <2>2. WaitInv'
    BY <2>1 DEF WaitInv, Exists
  <2> QED
    BY <1>1, <2>1, <2>2 DEF Exit, sipVars, SipTypeOK, tgVars, TgInv, TgTypeOK,
                            BridgeInv, Exists, LoopType
<1>2. CASE NoInternalEvent \/ NoTgEvent \/ NoSipEvent
  <2>1. /\ Running /\ Return
        /\ UNCHANGED <<sipVars, tgVars, bridges, ctx_counter,
                       internal_events, e_flag, undiscarded>>
    BY <1>2 DEF NoInternalEvent, NoTgEvent, NoSipEvent, TickStart, AtStage,
                Running
  <2> QED
    BY <2>1, ReturnInv DEF sipVars, SipTypeOK, tgVars, TgInv, TgTypeOK,
                           BridgeInv, Exists, LoopType
<1>3. CASE InternalError
  <2> DEFINE c == Head(internal_events)
  <2>1. /\ Running
        /\ internal_events' = Tail(internal_events)
        /\ UNCHANGED <<tgVars, ctx_counter, e_flag, undiscarded>>
    BY <1>3 DEF InternalError, TickStart, AtStage, Running
  <2>2. internal_events # << >> /\ internal_events \in Seq(Ctx)
    BY <1>3 DEF InternalError, TickStart, LoopType
  <2>3. c \in Ctx /\ Tail(internal_events) \in Seq(Ctx)
    BY <2>2, HeadTail
  <2>4. LoopType'
    BY <2>1, <2>3 DEF LoopType
  <2>5. CASE Exists(c)
    <3>1. CleanUp(c, bridges[c], sip_events)
      BY <1>3, <2>5 DEF InternalError
    <3>2. bridges[c] \in Bridge /\ sip_events \in Seq(SipEvent)
      BY <2>3 DEF BridgeInv, SipTypeOK
    <3>3. bridges[c].from # "none"
      BY <2>5 DEF Exists
    <3> HIDE DEF c
    <3> QED
      BY <2>1, <2>3, <2>4, <3>1, <3>2, <3>3, CleanUpInv, TgUnchanged
  <2>6. CASE ~Exists(c)
    <3>1. Return /\ SipSkip(sip_events) /\ UNCHANGED bridges
      BY <1>3, <2>6 DEF InternalError
    <3> QED
      BY <2>1, <2>4, <3>1, ReturnInv, SipSkipType, TgUnchanged
      DEF SipTypeOK, BridgeInv, Exists
  <2> QED
    BY <2>5, <2>6
<1> QED
  BY <1>1, <1>2, <1>3

(* Making a bridge for a Telegram call no bridge has. *)
LEMMA CreateStep ==
    ASSUME Inv, PendingDialSip \/ PendingReject
    PROVE  Inv'
<1> USE DEF Inv
<1>1. PopTg /\ Running /\ UNCHANGED <<sipVars, internal_events>>
  BY DEF PendingDialSip, PendingReject, PopTg, AtStage, Running
<1> DEFINE t == Head(tg_events).id
<1>2. /\ TgInv' /\ TgKeeps /\ tg_call' = tg_call
      /\ t \in TgId /\ tg_call[t] # "none" /\ t # NoTg
  BY <1>1, PopTgInv, TgAssumption
<1>3. PICK b \in Bridge, op \in {"getUser", "discardCall"} :
        /\ b.from = "tg" /\ b.tg_call_id = t
        /\ Create(b) /\ Await(op, NewCtx) /\ Unowned("tg_call_id", t)
  <2> DEFINE b1 == [NoBridge EXCEPT !.from = "tg", !.state = "init",
                                    !.tg_call_id = t]
             b2 == [NoBridge EXCEPT !.from = "tg", !.tg_call_id = t]
  <2>1. b1 \in Bridge /\ b2 \in Bridge
        /\ b1.from = "tg" /\ b1.tg_call_id = t
        /\ b2.from = "tg" /\ b2.tg_call_id = t
    BY <1>2 DEF NoBridge, Bridge
  <2>2. CASE PendingDialSip
    BY <2>1, <2>2 DEF PendingDialSip
  <2>3. CASE PendingReject
    BY <2>1, <2>3 DEF PendingReject
  <2> QED
    BY <2>2, <2>3
<1>4. NewCtx \in Ctx /\ ctx_counter' \in 0 .. MaxCtx
      /\ bridges' = [bridges EXCEPT ![NewCtx] = b]
  BY <1>3, GatewayAssumption DEF Create, NewCtx, LoopType
<1>5. BridgeInv'
  <2> HIDE DEF t
  <2> QED
    BY <1>2, <1>3, <1>4, OwnerFacts, Adopt DEF TgInv
<1>6. bridges'[NewCtx].tg_call_id # NoTg
  BY <1>2, <1>3, <1>4 DEF BridgeInv
<1>7. WaitInv'
  BY <1>3, <1>4, <1>6, GatewayAssumption DEF Await, Query, WaitInv
<1>8. LoopType'
  BY <1>1, <1>4 DEF PopTg, LoopType
<1> QED
  BY <1>1, <1>2, <1>5, <1>7, <1>8 DEF sipVars, SipTypeOK

(* The updates of calls a bridge has, or that go nowhere. *)
LEMMA TgEventStep ==
    ASSUME Inv,
           \/ StrayUpdate
           \/ \E c \in Ctx : ReadyFromTg(c) \/ ReadyFromSip(c) \/ TgEnded(c)
                             \/ TgIgnored(c)
    PROVE  Inv'
<1> USE DEF Inv
<1>1. PopTg
  BY DEF StrayUpdate, ReadyFromTg, ReadyFromSip, TgEnded, TgIgnored
<1>2. Running /\ UNCHANGED <<e_flag, undiscarded>>
  BY <1>1 DEF PopTg, AtStage, Running
<1>3. TgInv' /\ TgKeeps /\ tg_call' = tg_call
  BY <1>1, PopTgInv
<1>4. CASE \/ StrayUpdate \/ \E c \in Ctx : TgIgnored(c)
  <2>1. Return /\ UNCHANGED <<sipVars, bridges, ctx_counter, internal_events>>
    BY <1>4 DEF StrayUpdate, TgIgnored
  <2> QED
    BY <1>2, <1>3, <2>1, ReturnInv
    DEF sipVars, SipTypeOK, BridgeInv, Exists, LoopType
<1>5. ASSUME NEW c \in Ctx, ReadyFromTg(c) PROVE Inv'
  <2> DEFINE ok == CanBridgeAudio(bridges[c].sip_call_id)
  <2>0. ok \in BOOLEAN
    BY DEF CanBridgeAudio
  <2>1. /\ bridges' = [bridges EXCEPT ![c].state = "wait_dtmf",
                                      ![c].controller = TRUE,
                                      ![c].wired = ok]
        /\ IF ok THEN UNCHANGED internal_events ELSE PushError(c)
        /\ IsOwner(c, "tg_call_id", Head(tg_events).id)
    BY <1>5 DEF ReadyFromTg
  <2> HIDE DEF ok
  <2>2. bridges[c] \in Bridge
    BY DEF BridgeInv
  <2> DEFINE b == [bridges[c] EXCEPT !.state = "wait_dtmf",
                                     !.controller = TRUE, !.wired = ok]
  <2>3. b \in Bridge /\ b.from = bridges[c].from
        /\ b.tg_call_id = bridges[c].tg_call_id
    BY <2>0, <2>2 DEF Bridge
  <2>4. bridges' = [bridges EXCEPT ![c] = b]
    BY <2>1, <2>2 DEF BridgeInv, Bridge
  <2>5. b.from # "none"
    BY <2>1, <2>3, OwnerFacts DEF Exists
  <2>6. BridgeInv'
    <3> HIDE DEF b
    <3> QED
      BY <1>3, <2>3, <2>4, <2>5, Touch DEF TgInv
  <2>7. LoopType'
    <3>1. internal_events' \in Seq(Ctx)
      BY <2>1, Pushed DEF PushError, LoopType
    <3> QED
      BY <1>2, <1>5, <3>1 DEF ReadyFromTg, LoopType
  <2> QED
    BY <1>2, <1>3, <1>5, <2>6, <2>7, ReturnInv
    DEF ReadyFromTg, sipVars, SipTypeOK
<1>6. ASSUME NEW c \in Ctx, ReadyFromSip(c) PROVE Inv'
  <2>1. /\ bridges' = [bridges EXCEPT ![c].state = "sip_wait_media",
                                      ![c].controller = TRUE]
        /\ IsOwner(c, "tg_call_id", Head(tg_events).id)
        /\ \/ /\ AnswerOK(sip_events, bridges[c].sip_call_id)
              /\ UNCHANGED internal_events
           \/ PushError(c) /\ SipSkip(sip_events)
        /\ Return /\ UNCHANGED ctx_counter
    BY <1>6 DEF ReadyFromSip
  <2>2. /\ bridges[c] \in Bridge /\ sip_events \in Seq(SipEvent)
        /\ bridges[c].sip_call_id \in SipId \cup {InvalidId}
    BY DEF BridgeInv, Bridge, SipTypeOK
  <2> DEFINE b == [bridges[c] EXCEPT !.state = "sip_wait_media",
                                     !.controller = TRUE]
  <2>3. b \in Bridge /\ b.from = bridges[c].from
        /\ b.tg_call_id = bridges[c].tg_call_id
    BY <2>2 DEF Bridge
  <2>4. bridges' = [bridges EXCEPT ![c] = b]
    BY <2>1, <2>2 DEF BridgeInv, Bridge
  <2>5. b.from # "none"
    BY <2>1, <2>3, OwnerFacts DEF Exists
  <2>6. BridgeInv'
    <3> HIDE DEF b
    <3> QED
      BY <1>3, <2>3, <2>4, <2>5, Touch DEF TgInv
  <2>7. SipTypeOK'
    BY <2>1, <2>2, AnswerType, SipSkipType
  <2>8. LoopType'
    <3>1. internal_events' \in Seq(Ctx)
      BY <2>1, Pushed DEF PushError, LoopType
    <3> QED
      BY <1>2, <2>1, <3>1 DEF LoopType
  <2> QED
    BY <1>2, <1>3, <2>1, <2>6, <2>7, <2>8, ReturnInv
<1>7. ASSUME NEW c \in Ctx, TgEnded(c) PROVE Inv'
  <2> DEFINE b == [bridges[c] EXCEPT !.tg_call_id = NoTg]
  <2>1. CleanUp(c, b, sip_events) /\ UNCHANGED <<ctx_counter, internal_events>>
        /\ IsOwner(c, "tg_call_id", Head(tg_events).id)
    BY <1>7 DEF TgEnded
  <2>2. bridges[c] \in Bridge /\ sip_events \in Seq(SipEvent)
    BY DEF BridgeInv, SipTypeOK
  <2>3. b \in Bridge /\ b.from = bridges[c].from /\ b.tg_call_id = NoTg
    BY <2>2 DEF Bridge
  <2>4. b.from # "none"
    BY <2>1, <2>3, OwnerFacts DEF Exists
  <2> HIDE DEF b
  <2>5. SipTypeOK' /\ BridgeInv' /\ WaitInv'
    BY <1>2, <1>3, <2>1, <2>2, <2>3, <2>4, CleanUpInv
  <2> QED
    BY <1>2, <1>3, <2>1, <2>5 DEF LoopType
<1> QED
  BY <1>4, <1>5, <1>6, <1>7

-----------------------------------------------------------------------------
(* A call the PBX places gets a bridge of its own. *)
LEMMA AcceptStep ==
    ASSUME Inv, AcceptIncomingSip
    PROVE  Inv'
<1> USE DEF Inv
<1> DEFINE e == Head(sip_events)
           b == [NoBridge EXCEPT !.from = "sip", !.state = "sip_wait_confirm",
                                 !.sip_call_id = e.id]
<1>1. PopSip("IncomingCall")
  BY DEF AcceptIncomingSip
<1>2. /\ Tail(sip_events) \in Seq(SipEvent) /\ e.id \in SipId
      /\ Running /\ UNCHANGED <<tgVars, e_flag, undiscarded>>
  BY <1>1, PopSipFacts
<1>3. TgInv' /\ TgKeeps
  BY <1>2, TgUnchanged
<1>4. /\ Create(b) /\ Return
      /\ \/ /\ AnswerRinging(Tail(sip_events), e.id)
            /\ UNCHANGED internal_events
         \/ PushError(NewCtx) /\ SipSkip(Tail(sip_events))
  BY DEF AcceptIncomingSip
<1>5. b \in Bridge /\ b.tg_call_id = NoTg
  BY <1>2 DEF NoBridge, Bridge
<1> HIDE DEF e, b
<1>6. NewCtx \in Ctx /\ ctx_counter' \in 0 .. MaxCtx
      /\ bridges' = [bridges EXCEPT ![NewCtx] = b]
  BY <1>4, GatewayAssumption DEF Create, NewCtx, LoopType
<1>7. BridgeInv'
  BY <1>3, <1>5, <1>6, Touch DEF TgInv
<1>8. SipTypeOK'
  BY <1>2, <1>4, AnswerType, SipSkipType
<1>9. LoopType'
  <2>1. internal_events' \in Seq(Ctx)
    BY <1>4, <1>6, Pushed DEF PushError, LoopType
  <2> QED
    BY <1>2, <1>6, <2>1 DEF LoopType
<1> QED
  BY <1>2, <1>3, <1>4, <1>7, <1>8, <1>9, ReturnInv

(* The events of calls a bridge has, or that go nowhere. *)
LEMMA SipEventStep ==
    ASSUME Inv,
           \/ \E type \in {"CallStateUpdate", "CallMediaStateUpdate"} :
                 StraySipEvent(type)
           \/ \E c \in Ctx : \/ MediaFromTg(c) \/ EarlyFromSip(c)
                             \/ MediaFromSip(c) \/ SipDisconnected(c)
                             \/ SipIgnored(c)
    PROVE  Inv'
<1> USE DEF Inv
<1>1. \E type : PopSip(type)
  BY DEF StraySipEvent, MediaFromTg, EarlyFromSip, MediaFromSip,
         SipDisconnected, SipIgnored
<1>2. /\ Tail(sip_events) \in Seq(SipEvent)
      /\ Running /\ UNCHANGED <<tgVars, e_flag, undiscarded>>
  BY <1>1, PopSipFacts
<1>3. TgInv' /\ TgKeeps
  BY <1>2, TgUnchanged
<1>4. CASE \/ \E type \in {"CallStateUpdate", "CallMediaStateUpdate"} :
                 StraySipEvent(type)
           \/ \E c \in Ctx : SipIgnored(c)
  <2>1. SipSkip(Tail(sip_events)) /\ Return
        /\ UNCHANGED <<bridges, ctx_counter, internal_events>>
    BY <1>4 DEF StraySipEvent, SipIgnored
  <2>2. BridgeInv'
    BY <1>2, <2>1 DEF BridgeInv, Exists, tgVars
  <2> QED
    BY <1>2, <1>3, <2>1, <2>2, SipSkipType, ReturnInv DEF LoopType
<1>5. ASSUME NEW c \in Ctx, MediaFromTg(c) PROVE Inv'
  <2>1. SipSkip(Tail(sip_events)) /\ Await("acceptCall", c)
        /\ UNCHANGED <<bridges, ctx_counter, internal_events>>
    BY <1>5 DEF MediaFromTg
  <2>2. BridgeInv'
    BY <1>2, <2>1 DEF BridgeInv, Exists, tgVars
  <2>3. WaitInv'
    BY <2>1, GatewayAssumption DEF WaitInv, Await, Query
  <2> QED
    BY <1>2, <1>3, <2>1, <2>2, <2>3, SipSkipType DEF LoopType
<1>6. ASSUME NEW c \in Ctx, EarlyFromSip(c) PROVE Inv'
  <2>1. /\ SipSkip(Tail(sip_events)) /\ UNCHANGED ctx_counter
        /\ Exists(c)
        /\ \/ /\ PushError(c)
              /\ bridges' = [bridges EXCEPT ![c].state = "wait_tg"]
              /\ Return
           \/ /\ Await("createCall", c)
              /\ UNCHANGED <<bridges, internal_events>>
    BY <1>6 DEF EarlyFromSip, Exists
  <2>2. CASE PushError(c) /\ bridges' = [bridges EXCEPT ![c].state = "wait_tg"]
             /\ Return
    <3> DEFINE b == [bridges[c] EXCEPT !.state = "wait_tg"]
    <3>1. bridges[c] \in Bridge
      BY DEF BridgeInv
    <3>2. b \in Bridge /\ b.from = bridges[c].from
          /\ b.tg_call_id = bridges[c].tg_call_id
      BY <3>1 DEF Bridge
    <3>3. bridges' = [bridges EXCEPT ![c] = b]
      BY <2>2, <3>1 DEF BridgeInv, Bridge
    <3> HIDE DEF b
    <3>4. BridgeInv'
      BY <1>3, <2>1, <3>2, <3>3, Touch DEF TgInv, Exists
    <3>5. internal_events' \in Seq(Ctx)
      BY <2>2, Pushed DEF PushError, LoopType
    <3> QED
      BY <1>2, <1>3, <2>1, <2>2, <3>4, <3>5, SipSkipType, ReturnInv
         DEF LoopType
  <2>3. CASE Await("createCall", c) /\ UNCHANGED <<bridges, internal_events>>
    <3>1. BridgeInv'
      BY <1>2, <2>3 DEF BridgeInv, Exists, tgVars
    <3>2. WaitInv'
      BY <2>1, <2>3, GatewayAssumption DEF WaitInv, Await, Query, Exists
    <3> QED
      BY <1>2, <1>3, <2>1, <2>3, <3>1, <3>2, SipSkipType DEF LoopType
  <2> QED
    BY <2>1, <2>2, <2>3
<1>7. ASSUME NEW c \in Ctx, MediaFromSip(c) PROVE Inv'
  <2> DEFINE ok == CanBridgeAudio(bridges[c].sip_call_id)
  <2>1. ok \in BOOLEAN
    BY DEF CanBridgeAudio
  <2>2. /\ bridges' = [bridges EXCEPT ![c].state = "wait_dtmf",
                                      ![c].wired = ok]
        /\ IF ok THEN UNCHANGED internal_events ELSE PushError(c)
        /\ SipSkip(Tail(sip_events)) /\ Return /\ UNCHANGED ctx_counter
        /\ Exists(c)
    BY <1>7 DEF MediaFromSip, Exists
  <2> HIDE DEF ok
  <2> DEFINE b == [bridges[c] EXCEPT !.state = "wait_dtmf", !.wired = ok]
  <2>3. bridges[c] \in Bridge
    BY DEF BridgeInv
  <2>4. b \in Bridge /\ b.from = bridges[c].from
        /\ b.tg_call_id = bridges[c].tg_call_id
    BY <2>1, <2>3 DEF Bridge
  <2>5. bridges' = [bridges EXCEPT ![c] = b]
    BY <2>2, <2>3 DEF BridgeInv, Bridge
  <2> HIDE DEF b
  <2>6. BridgeInv'
    BY <1>3, <2>2, <2>4, <2>5, Touch DEF TgInv, Exists
  <2>7. internal_events' \in Seq(Ctx)
    BY <2>2, Pushed DEF PushError, LoopType
  <2> QED
    BY <1>2, <1>3, <2>2, <2>6, <2>7, SipSkipType, ReturnInv DEF LoopType
<1>8. ASSUME NEW c \in Ctx, SipDisconnected(c) PROVE Inv'
  <2> DEFINE b == [bridges[c] EXCEPT !.sip_call_id = InvalidId]
  <2>1. /\ CleanUp(c, b, Tail(sip_events))
        /\ UNCHANGED <<ctx_counter, internal_events>>
        /\ IsOwner(c, "sip_call_id", Head(sip_events).id)
    BY <1>8 DEF SipDisconnected
  <2>2. bridges[c] \in Bridge
    BY DEF BridgeInv
  <2>3. b \in Bridge /\ b.from = bridges[c].from
        /\ b.tg_call_id = bridges[c].tg_call_id
    BY <2>2 DEF Bridge
  <2>4. b.from # "none"
    BY <2>1, <2>3, OwnerFacts DEF Exists
  <2> HIDE DEF b
  <2>5. SipTypeOK' /\ BridgeInv' /\ WaitInv'
    BY <1>2, <1>3, <2>1, <2>3, <2>4, CleanUpInv
  <2> QED
    BY <1>2, <1>3, <2>1, <2>5 DEF LoopType
<1> QED
  BY <1>4, <1>5, <1>6, <1>7, <1>8

-----------------------------------------------------------------------------
(* A bridge that only moves to its next state. *)
LEMMA AdvanceInv ==
    ASSUME Inv, TgTypeOK, TgKeeps, NEW c \in Ctx,
           NEW st \in {"sip_wait_media", "wait_tg"},
           bridges' = [bridges EXCEPT ![c].state = st]
    PROVE  BridgeInv'
<1> USE DEF Inv
<1> DEFINE b == [bridges[c] EXCEPT !.state = st]
<1>1. bridges[c] \in Bridge
  BY DEF BridgeInv
<1>2. b \in Bridge /\ b.from = bridges[c].from
      /\ b.tg_call_id = bridges[c].tg_call_id
  BY <1>1 DEF Bridge
<1>3. bridges' = [bridges EXCEPT ![c] = b]
  BY <1>1 DEF BridgeInv, Bridge
<1>4. b.from # "none" \/ b.tg_call_id = NoTg
  BY <1>2 DEF BridgeInv, Exists
<1> HIDE DEF b
<1> QED
  BY <1>2, <1>3, <1>4, Touch

(* The continuations of the handlers that wait for TDLib. *)
LEMMA ResponseStep == ASSUME Inv, Response PROVE Inv'
<1> USE DEF Inv
<1> DEFINE c == query.ctx
<1>1. Running /\ UNCHANGED <<ctx_counter, e_flag>> /\ query.op # "none"
  BY DEF Response, UserFound, UserFailed, CallAccepted, CallCreated,
         CallDiscarded, Answered
<1>2. c \in Ctx /\ bridges[c] \in Bridge /\ sip_events \in Seq(SipEvent)
  BY <1>1 DEF WaitInv, BridgeInv, SipTypeOK
<1>3. CASE UserFound
  <2>1. Return /\ UNCHANGED <<tgVars, undiscarded>>
    BY <1>3 DEF UserFound
  <2>2. TgInv' /\ TgKeeps
    BY <2>1, TgUnchanged
  <2>3. ASSUME NEW i \in SipId, Dial(sip_events, i), UNCHANGED internal_events,
               bridges' = [bridges EXCEPT ![c].state = "sip_wait_media",
                                          ![c].sip_call_id = i]
        PROVE  Inv'
    <3> DEFINE b == [bridges[c] EXCEPT !.state = "sip_wait_media",
                                       !.sip_call_id = i]
    <3>1. b \in Bridge /\ b.from = bridges[c].from
          /\ b.tg_call_id = bridges[c].tg_call_id
      BY <1>2 DEF Bridge
    <3>2. bridges' = [bridges EXCEPT ![c] = b]
      BY <1>2, <2>3 DEF BridgeInv, Bridge
    <3>3. b.from # "none" \/ b.tg_call_id = NoTg
      BY <1>2, <3>1 DEF BridgeInv, Exists
    <3> HIDE DEF b, c
    <3>4. BridgeInv'
      BY <1>2, <2>2, <3>1, <3>2, <3>3, Touch DEF TgInv
    <3> QED
      BY <1>1, <1>2, <2>1, <2>2, <2>3, <3>4, DialType, ReturnInv DEF LoopType
  <2>4. ASSUME bridges' = [bridges EXCEPT ![c].state = "sip_wait_media"],
               PushError(c), SipSkip(sip_events)
        PROVE  Inv'
    <3> HIDE DEF c
    <3>1. BridgeInv'
      BY <1>2, <2>2, <2>4, AdvanceInv DEF TgInv
    <3>2. internal_events' \in Seq(Ctx)
      BY <1>2, <2>4, Pushed DEF PushError, LoopType
    <3> QED
      BY <1>1, <1>2, <2>1, <2>2, <2>4, <3>1, <3>2, SipSkipType, ReturnInv
      DEF LoopType
  <2> QED
    BY <1>3, <2>3, <2>4 DEF UserFound
<1>4. CASE UserFailed
  <2>1. stage' = "aborted" /\ query' = NoQuery
        /\ UNCHANGED <<sipVars, tgVars, bridges, internal_events, undiscarded>>
    BY <1>4 DEF UserFailed
  <2>2. WaitInv'
    BY <2>1, GatewayAssumption DEF WaitInv, NoQuery
  <2> QED
    BY <1>1, <2>1, <2>2 DEF sipVars, SipTypeOK, tgVars, TgInv, TgTypeOK,
                            BridgeInv, Exists, LoopType
<1>5. CASE CallAccepted
  <2>1. /\ bridges' = [bridges EXCEPT ![c].state = "wait_tg"]
        /\ Return /\ UNCHANGED <<sipVars, undiscarded>>
        /\ \/ AcceptCall(bridges[c].tg_call_id) /\ UNCHANGED internal_events
           \/ PushError(c) /\ UNCHANGED tgVars
    BY <1>5 DEF CallAccepted
  <2>2. TgInv' /\ TgKeeps
    <3>1. CASE AcceptCall(bridges[c].tg_call_id)
      BY <3>1, TgSetInv DEF AcceptCall, TgCallState
    <3>2. CASE UNCHANGED tgVars
      BY <3>2, TgUnchanged
    <3> QED
      BY <2>1, <3>1, <3>2
  <2> HIDE DEF c
  <2>3. BridgeInv'
    BY <1>2, <2>1, <2>2, AdvanceInv DEF TgInv
  <2>4. internal_events' \in Seq(Ctx)
    BY <1>2, <2>1, Pushed DEF PushError, LoopType
  <2> QED
    BY <1>1, <2>1, <2>2, <2>3, <2>4, ReturnInv DEF LoopType, sipVars, SipTypeOK
<1>6. CASE CallCreated
  <2>1. Return /\ UNCHANGED <<sipVars, undiscarded>>
    BY <1>6 DEF CallCreated
  <2>2. ASSUME NEW t \in TgOut, CreateCall(t), UNCHANGED internal_events,
               bridges' = [bridges EXCEPT ![c].state = "wait_tg",
                                          ![c].tg_call_id = t]
        PROVE  Inv'
    <3> DEFINE b == [bridges[c] EXCEPT !.state = "wait_tg", !.tg_call_id = t]
    <3>1. /\ t \in TgId /\ t # NoTg /\ tg_call[t] = "none"
          /\ TgMove(t, "pending", "Pending")
          /\ "pending" \in TgCallState \ {"none"}
      BY <2>2, TgAssumption DEF CreateCall, TgCallState
    <3>2. TgInv' /\ TgKeeps /\ tg_call'[t] # "none"
      BY <3>1, TgMoveInv
    <3>3. b \in Bridge /\ b.from = bridges[c].from /\ b.tg_call_id = t
      BY <1>2, <3>1 DEF Bridge
    <3>4. bridges' = [bridges EXCEPT ![c] = b]
      BY <1>2, <2>2 DEF BridgeInv, Bridge
    <3>5. b.from # "none"
      BY <1>6, <3>3 DEF CallCreated, Answered, WaitInv, Exists
    <3>6. \A d \in Ctx : bridges[d].tg_call_id # t
      BY <3>1 DEF BridgeInv
    <3> HIDE DEF b, c
    <3>7. BridgeInv'
      BY <1>2, <3>1, <3>2, <3>3, <3>4, <3>5, <3>6, Adopt DEF TgInv
    <3> QED
      BY <1>1, <2>1, <2>2, <3>2, <3>7, ReturnInv
         DEF LoopType, sipVars, SipTypeOK
  <2>3. ASSUME bridges' = [bridges EXCEPT ![c].state = "wait_tg"],
               PushError(c), UNCHANGED tgVars
        PROVE  Inv'
    <3> HIDE DEF c
    <3>1. TgInv' /\ TgKeeps
      BY <2>3, TgUnchanged
    <3>2. BridgeInv'
      BY <1>2, <2>3, <3>1, AdvanceInv DEF TgInv
    <3>3. internal_events' \in Seq(Ctx)
      BY <1>2, <2>3, Pushed DEF PushError, LoopType
    <3> QED
      BY <1>1, <2>1, <3>1, <3>2, <3>3, ReturnInv
         DEF LoopType, sipVars, SipTypeOK
  <2> QED
    BY <1>6, <2>2, <2>3 DEF CallCreated
<1>7. CASE CallDiscarded
  <2> DEFINE t == bridges[c].tg_call_id
  <2>1. /\ \/ DiscardCall(t) /\ UNCHANGED undiscarded
           \/ undiscarded' = undiscarded \cup {t} /\ UNCHANGED tgVars
        /\ Hangup(sip_events, bridges[c].sip_call_id)
        /\ bridges' = [bridges EXCEPT ![c] = NoBridge]
        /\ Return /\ UNCHANGED internal_events
    BY <1>7 DEF CallDiscarded
  <2>2. t \in TgId
    BY <1>2, <1>7 DEF CallDiscarded, Answered, WaitInv, Bridge
  <2>3. TgInv' /\ TgKeeps
    <3>1. CASE DiscardCall(t)
      BY <3>1, TgSetInv DEF DiscardCall, TgCallState
    <3>2. CASE UNCHANGED tgVars
      BY <3>2, TgUnchanged
    <3> QED
      BY <2>1, <3>1, <3>2
  <2>4. NoBridge \in Bridge /\ NoBridge.tg_call_id = NoTg
    BY DEF NoBridge, Bridge
  <2>5. bridges[c].sip_call_id \in SipId \cup {InvalidId}
    BY <1>2 DEF Bridge
  <2>6. LoopType'
    BY <1>1, <2>1, <2>2 DEF LoopType
  <2> HIDE DEF c
  <2>7. BridgeInv'
    BY <1>2, <2>1, <2>3, <2>4, Touch DEF TgInv
  <2> QED
    BY <1>1, <1>2, <2>1, <2>3, <2>5, <2>6, <2>7, HangupType, ReturnInv
<1> QED
  BY <1>3, <1>4, <1>5, <1>6, <1>7 DEF Response

(* The networks' steps and the signal. *)
LEMMA OutsideStep == ASSUME Inv, Network \/ Signal PROVE Inv'
<1> USE DEF Inv
<1>1. CASE Running /\ SipRemote /\ UNCHANGED <<tgVars, gwVars>>
  <2>1. UNCHANGED <<tg_events, tg_call, bridges, ctx_counter, internal_events,
                    stage, query, e_flag, undiscarded>>
    BY <1>1 DEF tgVars, gwVars
  <2> QED
    BY <1>1, <2>1, SipRemoteType
    DEF TgInv, TgTypeOK, BridgeInv, Exists, WaitInv, LoopType
<1>2. CASE Running /\ TgRemote /\ UNCHANGED <<sipVars, gwVars>>
  <2>1. UNCHANGED <<sipVars, bridges, ctx_counter, internal_events,
                    stage, query, e_flag, undiscarded>>
    BY <1>2 DEF gwVars
  <2>2. TgInv' /\ TgKeeps
    BY <1>2, TgRemoteInv
  <2>3. BridgeInv'
    <3>1. \A d \in Ctx : bridges[d].tg_call_id \in TgId \cup {NoTg}
      BY DEF BridgeInv, Bridge
    <3> QED
      BY <2>1, <2>2, <3>1 DEF BridgeInv, Exists, TgKeeps
  <2> QED
    BY <2>1, <2>2, <2>3 DEF sipVars, SipTypeOK, Exists, WaitInv, LoopType
<1>3. CASE Signal
  BY <1>3 DEF Signal, sipVars, SipTypeOK, tgVars, TgInv, TgTypeOK, BridgeInv,
              Exists, WaitInv, LoopType
<1> QED
  BY <1>1, <1>2, <1>3 DEF Network

-----------------------------------------------------------------------------
(* The initial state: an empty table, no call and no bridge. *)
LEMMA InitInv == Init => Inv
<1> SUFFICES ASSUME Init PROVE Inv
  OBVIOUS
<1>1. SipTypeOK
  BY SipAssumption DEF Init, SipInit, SipTypeOK, InvState, MediaState
<1>2. TgInv
  BY DEF Init, TgInit, TgInv, TgTypeOK, TgCallState
<1>3. BridgeInv
  <2>1. NoBridge \in Bridge /\ NoBridge.tg_call_id = NoTg
    BY DEF NoBridge, Bridge
  <2> QED
    BY <2>1 DEF Init, BridgeInv
<1>4. WaitInv
  BY GatewayAssumption DEF Init, WaitInv, NoQuery
<1>5. LoopType
  <2>1. ctx_counter \in 0 .. MaxCtx /\ internal_events \in Seq(Ctx)
    BY GatewayAssumption DEF Init
  <2>2. e_flag \in BOOLEAN /\ undiscarded \in SUBSET TgId
    BY DEF Init
  <2> QED
    BY <2>1, <2>2 DEF LoopType
<1> QED
  BY <1>1, <1>2, <1>3, <1>4, <1>5 DEF Inv

(* Every step keeps the inductive invariant. *)
LEMMA StepInv == Inv /\ [Next]_vars => Inv'
<1> SUFFICES ASSUME Inv, [Next]_vars PROVE Inv'
  OBVIOUS
<1>1. CASE Network \/ Signal
  BY <1>1, OutsideStep
<1>2. CASE Response
  BY <1>2, ResponseStep
<1>3. CASE Loop
  <2>1. \/ Exit \/ NoInternalEvent \/ InternalError \/ NoTgEvent \/ NoSipEvent
        \/ PendingDialSip \/ PendingReject \/ AcceptIncomingSip
        \/ StrayUpdate
        \/ \E c \in Ctx : ReadyFromTg(c) \/ ReadyFromSip(c) \/ TgEnded(c)
                          \/ TgIgnored(c)
        \/ \E type \in {"CallStateUpdate", "CallMediaStateUpdate"} :
              StraySipEvent(type)
        \/ \E c \in Ctx : \/ MediaFromTg(c) \/ EarlyFromSip(c)
                          \/ MediaFromSip(c) \/ SipDisconnected(c)
                          \/ SipIgnored(c)
    BY <1>3 DEF Loop
  <2> QED
    BY <2>1, InternalStep, CreateStep, TgEventStep, AcceptStep, SipEventStep
<1>4. CASE UNCHANGED vars
  BY <1>4 DEF vars, gwVars, Inv, sipVars, SipTypeOK, tgVars, TgInv, TgTypeOK,
              BridgeInv, Exists, WaitInv, LoopType
<1> QED
  BY <1>1, <1>2, <1>3, <1>4 DEF Next

(* Gateway::start, the SIP callbacks and TDLib keep Inv between them. *)
LEMMA Invariance == Spec => []Inv
  BY InitInv, StepInv, PTL DEF Spec

(* The gateway's state keeps its types: every queued event names a slot of *)
(* the call table or a call TDLib knows, every InternalError a context     *)
(* that was made, and the handler that waits belongs to a context.         *)
THEOREM TypeCorrect == Spec => []TypeOK
<1>1. Inv => TypeOK
  BY DEF Inv, TgInv, BridgeInv, WaitInv, LoopType, TypeOK
<1> QED
  BY <1>1, Invariance, PTL

(* No two bridges ever own the same Telegram call, however often TDLib     *)
(* repeats an update and whatever happens while a handler waits: what      *)
(* search_call(tg_call_id) finds first is all there is to find.            *)
THEOREM OneBridgePerTgCall == Spec => []UniqueTgLeg
<1>1. Inv => UniqueTgLeg
  BY DEF Inv, BridgeInv, UniqueTgLeg
<1> QED
  BY <1>1, Invariance, PTL

-----------------------------------------------------------------------------
(***************************************************************************)
(* What becomes of the legs of a bridge.  The parts below say what a       *)
(* bridge in each state has, who holds a slot of the call table, and what  *)
(* is still to come of a Telegram call.                                    *)
(***************************************************************************)

(* What a bridge has in each of its states. *)
BridgeOK(b) ==
    /\ b.from = "none" => b = NoBridge
    /\ b.state = "init" => b.from = "tg" /\ b.sip_call_id = InvalidId
    /\ b.state = "sip_wait_confirm" => b.from = "sip" /\ b.tg_call_id = NoTg
    /\ b.from = "tg" => b.tg_call_id # NoTg
    /\ b.from = "tg" /\ b.state \in {"wait_tg", "wait_dtmf"} =>
           b.sip_call_id # InvalidId
    /\ b.from = "sip" /\ b.state # "X" => b.sip_call_id # InvalidId
    /\ b.from = "sip" /\ b.state = "sip_wait_media" => b.controller
    /\ b.from = "sip" /\ b.state \in {"sip_wait_media", "wait_dtmf"} =>
           b.tg_call_id # NoTg

ShapeInv ==
    /\ \A c \in Ctx : BridgeOK(bridges[c])
    /\ \A c \in Ctx : c > ctx_counter => ~Exists(c)

(* The bridge whose handler waits stays as it was when the wait began. *)
HandlerInv ==
    /\ query.op # "none" => Exists(query.ctx)
    /\ query.op = "getUser" => /\ bridges[query.ctx].from = "tg"
                               /\ bridges[query.ctx].state = "init"
    /\ query.op = "acceptCall" =>
           /\ bridges[query.ctx].from = "tg"
           /\ bridges[query.ctx].state = "sip_wait_media"
           /\ bridges[query.ctx].sip_call_id # InvalidId
    /\ query.op = "createCall" =>
           /\ bridges[query.ctx].from = "sip"
           /\ bridges[query.ctx].state = "sip_wait_confirm"
    /\ query.op = "discardCall" => bridges[query.ctx].state = "X"

(* An end that is reported has happened, and the end of a call whose first *)
(* update is still queued is queued behind it.                             *)
TgQueueInv ==
    /\ \A n \in 1 .. Len(tg_events) :
          tg_events[n].state = "Ended" => tg_call[tg_events[n].id] = "ended"
    /\ \A n \in 1 .. Len(tg_events) :
          tg_events[n].state = "Pending" /\ tg_call[tg_events[n].id] = "ended"
          => \E m \in n + 1 .. Len(tg_events) :
                tg_events[m] = UpdateCall(tg_events[n].id, "Ended")

(* A call the gateway placed is known to a bridge from its first moment.   *)
OrphanInv ==
    \A t \in TgId :
        TgLive(t) => \/ \E c \in Ctx : bridges[c].tg_call_id = t
                     \/ t \in TgIn /\ TgQueued(UpdateCall(t, "Pending"))
                     \/ t \in undiscarded

(* The live call in a slot belongs to one bridge or to one IncomingCall    *)
(* that is still queued; an entry that somebody refers to is not erased.   *)
IsIncoming(n) == sip_events[n].type = "IncomingCall"

SlotInv ==
    /\ \A i \in SipId : calls[i] = "live" <=> Alive(i)
    /\ \A c \in Ctx : LET i == bridges[c].sip_call_id
                     IN  i # InvalidId => calls[i] # "none"
    /\ \A n \in 1 .. Len(sip_events) :
          IsIncoming(n) => calls[sip_events[n].id] # "none"
    /\ \A c, d \in Ctx :
          LET i == bridges[c].sip_call_id
          IN  i # InvalidId /\ bridges[d].sip_call_id = i /\ calls[i] = "live"
              => c = d
    /\ \A m, n \in 1 .. Len(sip_events) :
          /\ IsIncoming(m) /\ IsIncoming(n)
          /\ sip_events[m].id = sip_events[n].id
          /\ calls[sip_events[n].id] = "live"
          => m = n
    /\ \A c \in Ctx : \A n \in 1 .. Len(sip_events) :
          IsIncoming(n) /\ sip_events[n].id = bridges[c].sip_call_id
          => calls[sip_events[n].id] # "live"

LegInv == /\ Inv /\ ShapeInv /\ HandlerInv /\ TgQueueInv /\ OrphanInv
          /\ TgLegAccounted /\ TalkingWasWired /\ SlotInv

-----------------------------------------------------------------------------
(* What the steps do, as far as the bridges, Telegram and the internal     *)
(* queue are concerned.                                                    *)

Sets(c, b) == /\ bridges'[c] = b
              /\ \A d \in Ctx \ {c} : bridges'[d] = bridges[d]
TgSame == UNCHANGED <<tg_call, tg_events, undiscarded>>
TgPopped == /\ tg_events # << >> /\ tg_events' = Tail(tg_events)
            /\ UNCHANGED <<tg_call, undiscarded>>
Silent == UNCHANGED <<ctx_counter, internal_events>>
Reports(c) == /\ internal_events' = Append(internal_events, c)
              /\ UNCHANGED ctx_counter

(* Nothing, or a handler that returns or dies. *)
Idle == UNCHANGED bridges /\ TgSame /\ Silent /\ query' \in {query, NoQuery}

(* TDLib reports a change. *)
TgMoves ==
    /\ UNCHANGED <<bridges, query, undiscarded>> /\ Silent
    /\ \E t \in TgId :
          \/ /\ t \in TgIn /\ tg_call[t] \in {"none", "pending"}
             /\ \E s \in {"pending", "received"} : TgMove(t, s, "Pending")
          \/ /\ tg_call[t] \in {"pending", "accepted"}
             /\ TgMove(t, "ready", "Ready")
          \/ tg_call[t] # "ended" /\ TgMove(t, "ended", "Ended")

(* An update that goes nowhere. *)
TgIgnores ==
    /\ UNCHANGED bridges /\ Silent /\ TgPopped /\ query' = NoQuery
    /\ LET u == Head(tg_events)
       IN  \/ /\ \A c \in Ctx : bridges[c].tg_call_id # u.id
              /\ ~(u.id \in TgIn /\ u.state = "Pending")
           \/ /\ \E c \in Ctx : bridges[c].tg_call_id = u.id
              /\ u.state # "Ended"

(* CleanUp with what is left of the legs. *)
Cleaned(c, i, t) ==
    \/ t = NoTg /\ Sets(c, NoBridge) /\ query' = NoQuery
    \/ /\ t # NoTg /\ query' = Query("discardCall", c)
       /\ Sets(c, [bridges[c] EXCEPT !.state = "X", !.controller = FALSE,
                                     !.wired = FALSE, !.sip_call_id = i])

Fails(c) ==
    /\ internal_events # << >> /\ c = Head(internal_events)
    /\ internal_events' = Tail(internal_events)
    /\ TgSame /\ UNCHANGED ctx_counter
    /\ \/ ~Exists(c) /\ UNCHANGED bridges /\ query' = NoQuery
       \/ /\ Exists(c)
          /\ Cleaned(c, bridges[c].sip_call_id, bridges[c].tg_call_id)

HungUp(c) ==
    /\ Exists(c) /\ TgSame /\ Silent /\ sip_events # << >>
    /\ Head(sip_events).arg = "DISCONNECTED"
    /\ Head(sip_events).id = bridges[c].sip_call_id
    /\ Cleaned(c, InvalidId, bridges[c].tg_call_id)

Ends(c) ==
    /\ Exists(c) /\ TgPopped /\ Silent
    /\ Head(tg_events) = UpdateCall(bridges[c].tg_call_id, "Ended")
    /\ Sets(c, NoBridge) /\ query' = NoQuery

Rings(c) ==
    /\ c = ctx_counter + 1 /\ ctx_counter' = c /\ TgPopped
    /\ UNCHANGED internal_events
    /\ LET t == Head(tg_events).id
       IN  /\ t \in TgIn /\ Head(tg_events).state = "Pending"
           /\ \A d \in Ctx : bridges[d].tg_call_id # t
           /\ \/ /\ Sets(c, [NoBridge EXCEPT !.from = "tg", !.state = "init",
                                             !.tg_call_id = t])
                 /\ query' = Query("getUser", c)
              \/ /\ Sets(c, [NoBridge EXCEPT !.from = "tg", !.tg_call_id = t])
                 /\ query' = Query("discardCall", c)

Invited(c) ==
    /\ c = ctx_counter + 1 /\ ctx_counter' = c /\ TgSame /\ query' = NoQuery
    /\ \/ UNCHANGED internal_events
       \/ internal_events' = Append(internal_events, c)
    /\ \E i \in SipId :
          Sets(c, [NoBridge EXCEPT !.from = "sip",
                                   !.state = "sip_wait_confirm",
                                   !.sip_call_id = i])

TalksFromTg(c) ==
    /\ Exists(c) /\ TgPopped /\ query' = NoQuery
    /\ bridges[c].from = "tg" /\ bridges[c].state = "wait_tg"
    /\ Head(tg_events) = UpdateCall(bridges[c].tg_call_id, "Ready")
    /\ \E ok \in BOOLEAN :
          /\ Sets(c, [bridges[c] EXCEPT !.state = "wait_dtmf",
                                        !.controller = TRUE, !.wired = ok])
          /\ \/ ok = TRUE /\ Silent
             \/ ok = FALSE /\ Reports(c)

AnswersSip(c) ==
    /\ Exists(c) /\ TgPopped /\ query' = NoQuery
    /\ bridges[c].from = "sip" /\ bridges[c].state = "wait_tg"
    /\ Head(tg_events) = UpdateCall(bridges[c].tg_call_id, "Ready")
    /\ Sets(c, [bridges[c] EXCEPT !.state = "sip_wait_media",
                                  !.controller = TRUE])
    /\ Silent \/ Reports(c)

Accepting(c) ==
    /\ Exists(c) /\ TgSame /\ Silent /\ UNCHANGED bridges
    /\ bridges[c].from = "tg" /\ bridges[c].state = "sip_wait_media"
    /\ bridges[c].sip_call_id # InvalidId
    /\ query' = Query("acceptCall", c)

DialsTg(c) ==
    /\ Exists(c) /\ TgSame
    /\ bridges[c].from = "sip" /\ bridges[c].state = "sip_wait_confirm"
    /\ \/ /\ Sets(c, [bridges[c] EXCEPT !.state = "wait_tg"])
          /\ Reports(c) /\ query' = NoQuery
       \/ UNCHANGED bridges /\ Silent /\ query' = Query("createCall", c)

TalksFromSip(c) ==
    /\ Exists(c) /\ TgSame /\ query' = NoQuery
    /\ bridges[c].from = "sip" /\ bridges[c].state = "sip_wait_media"
    /\ \E ok \in BOOLEAN :
          /\ Sets(c, [bridges[c] EXCEPT !.state = "wait_dtmf", !.wired = ok])
          /\ \/ ok = TRUE /\ Silent
             \/ ok = FALSE /\ Reports(c)

DialsSip(c) ==
    /\ c = query.ctx /\ query.op = "getUser" /\ TgSame /\ query' = NoQuery
    /\ \/ /\ Silent
          /\ \E i \in SipId :
                Sets(c, [bridges[c] EXCEPT !.state = "sip_wait_media",
                                           !.sip_call_id = i])
       \/ /\ Sets(c, [bridges[c] EXCEPT !.state = "sip_wait_media"])
          /\ Reports(c)

Accepted(c) ==
    /\ c = query.ctx /\ query.op = "acceptCall" /\ query' = NoQuery
    /\ Sets(c, [bridges[c] EXCEPT !.state = "wait_tg"])
    /\ \/ Silent /\ AcceptCall(bridges[c].tg_call_id) /\ UNCHANGED undiscarded
       \/ Reports(c) /\ TgSame

Created(c) ==
    /\ c = query.ctx /\ query.op = "createCall" /\ query' = NoQuery
    /\ \/ /\ Silent /\ UNCHANGED undiscarded
          /\ \E t \in TgOut :
                /\ CreateCall(t)
                /\ Sets(c, [bridges[c] EXCEPT !.state = "wait_tg",
                                              !.tg_call_id = t])
       \/ /\ Sets(c, [bridges[c] EXCEPT !.state = "wait_tg"])
          /\ Reports(c) /\ TgSame

Discarded(c) ==
    /\ c = query.ctx /\ query.op = "discardCall" /\ query' = NoQuery
    /\ Sets(c, NoBridge) /\ Silent
    /\ LET t == bridges[c].tg_call_id
       IN  \/ DiscardCall(t) /\ UNCHANGED undiscarded
           \/ /\ undiscarded' = undiscarded \cup {t}
              /\ UNCHANGED <<tg_call, tg_events>>

Effect(c) ==
    \/ Fails(c) \/ HungUp(c) \/ Ends(c) \/ Rings(c) \/ Invited(c)
    \/ TalksFromTg(c) \/ AnswersSip(c) \/ Accepting(c) \/ DialsTg(c)
    \/ TalksFromSip(c) \/ DialsSip(c) \/ Accepted(c) \/ Created(c)
    \/ Discarded(c)

(* A bridge is replaced, the others stay. *)
LEMMA SetsBridge ==
    ASSUME bridges \in [Ctx -> Bridge], NEW c \in Ctx, NEW b,
           bridges' = [bridges EXCEPT ![c] = b]
    PROVE  Sets(c, b)
  BY DEF Sets

(* CleanUp, whichever ids its row has cleared, is Cleaned. *)
LEMMA CleanUpDoes ==
    ASSUME Inv, NEW c \in Ctx, NEW i \in SipId \cup {InvalidId},
           NEW t \in TgId \cup {NoTg}, NEW q,
           CleanUp(c, [bridges[c] EXCEPT !.sip_call_id = i, !.tg_call_id = t],
                   q),
           t = bridges[c].tg_call_id \/ t = NoTg
    PROVE  Cleaned(c, i, t)
<1> DEFINE b == [bridges[c] EXCEPT !.sip_call_id = i, !.tg_call_id = t]
<1>1. bridges \in [Ctx -> Bridge] /\ bridges[c] \in Bridge
  BY DEF Inv, BridgeInv
<1>2. b.tg_call_id = t
  BY <1>1 DEF Bridge
<1>3. CASE t = NoTg
  <2>1. bridges' = [bridges EXCEPT ![c] = NoBridge] /\ query' = NoQuery
    BY <1>2, <1>3 DEF CleanUp, Return
  <2> QED
    BY <1>1, <1>3, <2>1, SetsBridge DEF Cleaned
<1>4. CASE t # NoTg
  <2>1. /\ bridges' = [bridges EXCEPT ![c] =
                         [b EXCEPT !.state = "X", !.controller = FALSE,
                                   !.wired = FALSE]]
        /\ query' = Query("discardCall", c)
    BY <1>2, <1>4 DEF CleanUp, Await
  <2>2. [b EXCEPT !.state = "X", !.controller = FALSE, !.wired = FALSE]
           = [bridges[c] EXCEPT !.state = "X", !.controller = FALSE,
                                !.wired = FALSE, !.sip_call_id = i]
    BY <1>1, <1>4 DEF Bridge
  <2> QED
    BY <1>1, <1>4, <2>1, <2>2, SetsBridge DEF Cleaned
<1> QED
  BY <1>3, <1>4

(* The owner of a leg has it. *)
LEMMA OwnsLeg ==
    ASSUME NEW c \in Ctx
    PROVE  /\ \A t : IsOwner(c, "tg_call_id", t) =>
                        Exists(c) /\ bridges[c].tg_call_id = t
           /\ \A i : IsOwner(c, "sip_call_id", i) =>
                        Exists(c) /\ bridges[c].sip_call_id = i
  BY DEF IsOwner, Owners

(* The next context. *)
LEMMA Creates ==
    ASSUME Inv, NEW b, Create(b)
    PROVE  /\ ctx_counter + 1 \in Ctx /\ NewCtx = ctx_counter + 1
           /\ ctx_counter' = ctx_counter + 1 /\ Sets(ctx_counter + 1, b)
<1>1. /\ ctx_counter + 1 \in Ctx /\ NewCtx = ctx_counter + 1
      /\ ctx_counter' = ctx_counter + 1
      /\ bridges' = [bridges EXCEPT ![ctx_counter + 1] = b]
  BY GatewayAssumption DEF Create, NewCtx, Inv, LoopType
<1> QED
  BY <1>1, SetsBridge DEF Inv, BridgeInv

(* The update a pop takes. *)
LEMMA PopTgDoes ==
    ASSUME Inv, PopTg
    PROVE  /\ TgPopped /\ Head(tg_events) \in TgEvent
           /\ Head(tg_events) = UpdateCall(Head(tg_events).id,
                                           Head(tg_events).state)
<1>1. tg_events \in Seq(TgEvent) /\ tg_events # << >>
  BY DEF PopTg, Inv, TgInv, TgTypeOK
<1>2. Head(tg_events) \in TgEvent
  BY <1>1
<1> QED
  BY <1>2 DEF PopTg, TgPopped, TgEvent, UpdateCall

(* Every step has one of these effects. *)
LEMMA LoopEffect ==
    ASSUME Inv, HandlerInv, Loop
    PROVE  Idle \/ TgIgnores \/ \E c \in Ctx : Effect(c)
<1>0. bridges \in [Ctx -> Bridge]
  BY DEF Inv, BridgeInv
<1>1. CASE Exit \/ NoInternalEvent \/ NoTgEvent \/ NoSipEvent
  BY <1>1 DEF Exit, NoInternalEvent, NoTgEvent, NoSipEvent, Idle, TgSame,
              Silent, tgVars, Return
<1>2. CASE InternalError
  <2>1. PICK c \in Ctx : c = Head(internal_events) /\ internal_events # << >>
    <3>1. internal_events \in Seq(Ctx) /\ internal_events # << >>
      BY <1>2 DEF InternalError, TickStart, Inv, LoopType
    <3> QED
      BY <3>1, HeadTail
  <2>2. /\ internal_events' = Tail(internal_events)
        /\ TgSame /\ UNCHANGED ctx_counter
    BY <1>2 DEF InternalError, TgSame, tgVars
  <2>3. CASE Exists(c)
    <3>1. CleanUp(c, bridges[c], sip_events)
      BY <1>2, <2>1, <2>3 DEF InternalError
    <3>2. bridges[c] \in Bridge
      BY <1>0
    <3>3. /\ bridges[c] = [bridges[c] EXCEPT
                             !.sip_call_id = bridges[c].sip_call_id,
                             !.tg_call_id = bridges[c].tg_call_id]
          /\ bridges[c].sip_call_id \in SipId \cup {InvalidId}
          /\ bridges[c].tg_call_id \in TgId \cup {NoTg}
      BY <3>2 DEF Bridge
    <3>4. Cleaned(c, bridges[c].sip_call_id, bridges[c].tg_call_id)
      BY <3>1, <3>3, CleanUpDoes
    <3> QED
      BY <2>1, <2>2, <2>3, <3>4 DEF Effect, Fails
  <2>4. CASE ~Exists(c)
    <3>1. UNCHANGED bridges /\ query' = NoQuery
      BY <1>2, <2>1, <2>4 DEF InternalError, Return
    <3> QED
      BY <2>1, <2>2, <2>4, <3>1 DEF Effect, Fails
  <2> QED
    BY <2>3, <2>4
<1>3. CASE PendingDialSip \/ PendingReject
  <2>1. TgPopped /\ Head(tg_events) \in TgEvent /\ UNCHANGED internal_events
    BY <1>3, PopTgDoes DEF PendingDialSip, PendingReject
  <2>2. PICK t \in TgId : t = Head(tg_events).id
    BY <2>1 DEF TgEvent
  <2>3. /\ t \in TgIn /\ Head(tg_events).state = "Pending"
        /\ Unowned("tg_call_id", t)
    BY <1>3, <2>2 DEF PendingDialSip, PendingReject
  <2>4. \A d \in Ctx : bridges[d].tg_call_id # t
    BY <2>2, <2>3, OwnerFacts DEF Inv
  <2>5. CASE PendingDialSip
    <3>1. /\ Create([NoBridge EXCEPT !.from = "tg", !.state = "init",
                                     !.tg_call_id = t])
          /\ query' = Query("getUser", NewCtx)
      BY <2>2, <2>5 DEF PendingDialSip, Await
    <3> QED
      BY <2>1, <2>2, <2>3, <2>4, <3>1, Creates DEF Effect, Rings
  <2>6. CASE PendingReject
    <3>1. /\ Create([NoBridge EXCEPT !.from = "tg", !.tg_call_id = t])
          /\ query' = Query("discardCall", NewCtx)
      BY <2>2, <2>6 DEF PendingReject, Await
    <3> QED
      BY <2>1, <2>2, <2>3, <2>4, <3>1, Creates DEF Effect, Rings
  <2> QED
    BY <1>3, <2>5, <2>6
<1>4. CASE StrayUpdate
  <2>1. TgPopped /\ Head(tg_events).id \in TgId
    BY <1>4, PopTgDoes DEF StrayUpdate, TgEvent
  <2>2. \A d \in Ctx : bridges[d].tg_call_id # Head(tg_events).id
    BY <1>4, <2>1, OwnerFacts DEF StrayUpdate, Inv
  <2> QED
    BY <1>4, <2>1, <2>2 DEF StrayUpdate, TgIgnores, Silent, Return
<1>5. CASE AcceptIncomingSip
  <2>1. PICK i \in SipId : i = Head(sip_events).id
    BY <1>5, PopSipFacts DEF AcceptIncomingSip, Inv
  <2>2. /\ Create([NoBridge EXCEPT !.from = "sip",
                                   !.state = "sip_wait_confirm",
                                   !.sip_call_id = i])
        /\ UNCHANGED internal_events \/ PushError(NewCtx)
        /\ TgSame /\ query' = NoQuery
    BY <1>5, <2>1
       DEF AcceptIncomingSip, PopSip, TgSame, tgVars, Return
  <2> QED
    BY <2>1, <2>2, Creates DEF Effect, Invited, PushError
<1>6. ASSUME NEW type, StraySipEvent(type) PROVE Idle
  BY <1>6 DEF StraySipEvent, PopSip, Idle, TgSame, Silent, tgVars, Return
<1>7. ASSUME NEW c \in Ctx, ReadyFromTg(c) PROVE Effect(c)
  <2>1. /\ Exists(c) /\ TgPopped
        /\ Head(tg_events) = UpdateCall(bridges[c].tg_call_id, "Ready")
    BY <1>7, PopTgDoes, OwnsLeg DEF ReadyFromTg
  <2>2. PICK ok \in BOOLEAN : ok = CanBridgeAudio(bridges[c].sip_call_id)
    BY DEF CanBridgeAudio
  <2>3. bridges' = [bridges EXCEPT ![c].state = "wait_dtmf",
                                   ![c].controller = TRUE, ![c].wired = ok]
    BY <1>7, <2>2 DEF ReadyFromTg
  <2>4. Sets(c, [bridges[c] EXCEPT !.state = "wait_dtmf",
                                   !.controller = TRUE, !.wired = ok])
    BY <1>0, <2>3 DEF Sets, Bridge
  <2>5. \/ ok = TRUE /\ Silent
        \/ ok = FALSE /\ Reports(c)
    BY <1>7, <2>2 DEF ReadyFromTg, Silent, Reports, PushError
  <2>6. /\ bridges[c].from = "tg" /\ bridges[c].state = "wait_tg"
        /\ query' = NoQuery
    BY <1>7 DEF ReadyFromTg, Return
  <2> QED
    BY <2>1, <2>4, <2>5, <2>6 DEF Effect, TalksFromTg
<1>8. ASSUME NEW c \in Ctx, ReadyFromSip(c) PROVE Effect(c)
  <2>1. /\ Exists(c) /\ TgPopped
        /\ Head(tg_events) = UpdateCall(bridges[c].tg_call_id, "Ready")
    BY <1>8, PopTgDoes, OwnsLeg DEF ReadyFromSip
  <2>2. bridges' = [bridges EXCEPT ![c].state = "sip_wait_media",
                                   ![c].controller = TRUE]
    BY <1>8 DEF ReadyFromSip
  <2>3. Sets(c, [bridges[c] EXCEPT !.state = "sip_wait_media",
                                   !.controller = TRUE])
    BY <1>0, <2>2 DEF Sets, Bridge
  <2>4. /\ bridges[c].from = "sip" /\ bridges[c].state = "wait_tg"
        /\ query' = NoQuery /\ (Silent \/ Reports(c))
    BY <1>8 DEF ReadyFromSip, Return, Silent, Reports, PushError
  <2> QED
    BY <2>1, <2>3, <2>4 DEF Effect, AnswersSip
<1>9. ASSUME NEW c \in Ctx, TgEnded(c) PROVE Effect(c)
  <2>1. /\ Exists(c) /\ TgPopped /\ Silent
        /\ Head(tg_events) = UpdateCall(bridges[c].tg_call_id, "Ended")
    BY <1>9, PopTgDoes, OwnsLeg DEF TgEnded, Silent
  <2>2. [bridges[c] EXCEPT !.tg_call_id = NoTg].tg_call_id = NoTg
    BY <1>0 DEF Bridge
  <2>3. bridges' = [bridges EXCEPT ![c] = NoBridge] /\ query' = NoQuery
    BY <1>9, <2>2 DEF TgEnded, CleanUp, Return
  <2> QED
    BY <1>0, <2>1, <2>3, SetsBridge DEF Effect, Ends
<1>10. ASSUME NEW c \in Ctx, TgIgnored(c) PROVE TgIgnores
  BY <1>10, PopTgDoes, OwnsLeg DEF TgIgnored, TgIgnores, Silent, Return
<1>11. ASSUME NEW c \in Ctx, MediaFromTg(c) PROVE Effect(c)
  <2>1. /\ Exists(c) /\ bridges[c].sip_call_id = Head(sip_events).id
        /\ Head(sip_events).id \in SipId
    BY <1>11, OwnsLeg, PopSipFacts DEF MediaFromTg, Inv
  <2>2. bridges[c].sip_call_id # InvalidId
    BY <2>1
  <2> QED
    BY <1>11, <2>1, <2>2
       DEF MediaFromTg, PopSip, Await, TgSame, tgVars, Silent, Effect,
           Accepting
<1>12. ASSUME NEW c \in Ctx, EarlyFromSip(c) PROVE Effect(c)
  <2>1. /\ Exists(c) /\ TgSame
        /\ bridges[c].from = "sip" /\ bridges[c].state = "sip_wait_confirm"
    BY <1>12, OwnsLeg DEF EarlyFromSip, PopSip, TgSame, tgVars
  <2>2. CASE /\ PushError(c) /\ query' = NoQuery /\ UNCHANGED ctx_counter
             /\ bridges' = [bridges EXCEPT ![c].state = "wait_tg"]
    <3>1. Sets(c, [bridges[c] EXCEPT !.state = "wait_tg"])
      BY <1>0, <2>2 DEF Sets, Bridge
    <3> QED
      BY <2>1, <2>2, <3>1 DEF Effect, DialsTg, Reports, PushError
  <2>3. CASE /\ query' = Query("createCall", c)
             /\ UNCHANGED <<bridges, internal_events, ctx_counter>>
    BY <2>1, <2>3 DEF Effect, DialsTg, Silent
  <2> QED
    BY <1>12, <2>2, <2>3 DEF EarlyFromSip, Await, Return
<1>13. ASSUME NEW c \in Ctx, MediaFromSip(c) PROVE Effect(c)
  <2>1. /\ Exists(c) /\ TgSame /\ query' = NoQuery
        /\ bridges[c].from = "sip" /\ bridges[c].state = "sip_wait_media"
    BY <1>13, OwnsLeg DEF MediaFromSip, PopSip, TgSame, tgVars, Return
  <2>2. PICK ok \in BOOLEAN : ok = CanBridgeAudio(bridges[c].sip_call_id)
    BY DEF CanBridgeAudio
  <2>3. bridges' = [bridges EXCEPT ![c].state = "wait_dtmf", ![c].wired = ok]
    BY <1>13, <2>2 DEF MediaFromSip
  <2>4. Sets(c, [bridges[c] EXCEPT !.state = "wait_dtmf", !.wired = ok])
    BY <1>0, <2>3 DEF Sets, Bridge
  <2>5. \/ ok = TRUE /\ Silent
        \/ ok = FALSE /\ Reports(c)
    BY <1>13, <2>2 DEF MediaFromSip, Silent, Reports, PushError
  <2> QED
    BY <2>1, <2>4, <2>5 DEF Effect, TalksFromSip
<1>14. ASSUME NEW c \in Ctx, SipDisconnected(c) PROVE Effect(c)
  <2>1. /\ Exists(c) /\ TgSame /\ Silent /\ bridges[c] \in Bridge
        /\ sip_events # << >> /\ Head(sip_events).arg = "DISCONNECTED"
        /\ Head(sip_events).id = bridges[c].sip_call_id
    BY <1>0, <1>14, OwnsLeg DEF SipDisconnected, PopSip, TgSame, tgVars, Silent
  <2>2. /\ [bridges[c] EXCEPT !.sip_call_id = InvalidId] =
               [bridges[c] EXCEPT !.sip_call_id = InvalidId,
                                  !.tg_call_id = bridges[c].tg_call_id]
        /\ bridges[c].tg_call_id \in TgId \cup {NoTg}
        /\ InvalidId \in SipId \cup {InvalidId}
    BY <2>1 DEF Bridge
  <2>3. Cleaned(c, InvalidId, bridges[c].tg_call_id)
    BY <1>14, <2>2, CleanUpDoes DEF SipDisconnected
  <2> QED
    BY <2>1, <2>3 DEF Effect, HungUp
<1>15. ASSUME NEW c \in Ctx, SipIgnored(c) PROVE Idle
  BY <1>15 DEF SipIgnored, PopSip, Idle, TgSame, Silent, tgVars, Return
<1> QED
  BY <1>1, <1>2, <1>3, <1>4, <1>5, <1>6, <1>7, <1>8, <1>9, <1>10, <1>11,
     <1>12, <1>13, <1>14, <1>15 DEF Loop

(* The continuation of a wait has one of the effects. *)
LEMMA ResponseEffect ==
    ASSUME Inv, HandlerInv, Response
    PROVE  Idle \/ \E c \in Ctx : Effect(c)
<1>0. bridges \in [Ctx -> Bridge]
  BY DEF Inv, BridgeInv
<1>1. PICK c \in Ctx : c = query.ctx
  BY DEF Response, UserFound, UserFailed, CallAccepted, CallCreated,
         CallDiscarded, Answered, Inv, WaitInv
<1>2. CASE UserFound
  <2>1. /\ query.op = "getUser" /\ TgSame /\ query' = NoQuery
        /\ UNCHANGED ctx_counter
    BY <1>2 DEF UserFound, Answered, TgSame, tgVars, Return
  <2>2. ASSUME NEW i \in SipId, UNCHANGED internal_events,
               bridges' = [bridges EXCEPT ![c].state = "sip_wait_media",
                                          ![c].sip_call_id = i]
        PROVE  Effect(c)
    <3>1. Sets(c, [bridges[c] EXCEPT !.state = "sip_wait_media",
                                     !.sip_call_id = i])
      BY <1>0, <2>2 DEF Sets, Bridge
    <3> QED
      BY <1>1, <2>1, <2>2, <3>1 DEF Effect, DialsSip, Silent
  <2>3. ASSUME bridges' = [bridges EXCEPT ![c].state = "sip_wait_media"],
               PushError(c)
        PROVE  Effect(c)
    <3>1. Sets(c, [bridges[c] EXCEPT !.state = "sip_wait_media"])
      BY <1>0, <2>3 DEF Sets, Bridge
    <3> QED
      BY <1>1, <2>1, <2>3, <3>1 DEF Effect, DialsSip, Reports, PushError
  <2> QED
    BY <1>1, <1>2, <2>2, <2>3 DEF UserFound
<1>3. CASE UserFailed
  BY <1>3 DEF UserFailed, Answered, Idle, TgSame, Silent, tgVars
<1>4. CASE CallAccepted
  <2>1. /\ query.op = "acceptCall" /\ query' = NoQuery
        /\ bridges' = [bridges EXCEPT ![c].state = "wait_tg"]
        /\ \/ /\ Silent /\ AcceptCall(bridges[c].tg_call_id)
              /\ UNCHANGED undiscarded
           \/ Reports(c) /\ TgSame
    BY <1>1, <1>4 DEF CallAccepted, Answered, Return, Silent, Reports,
                      PushError, TgSame, tgVars
  <2>2. Sets(c, [bridges[c] EXCEPT !.state = "wait_tg"])
    BY <1>0, <2>1 DEF Sets, Bridge
  <2> QED
    BY <1>1, <2>1, <2>2 DEF Effect, Accepted
<1>5. CASE CallCreated
  <2>1. /\ query.op = "createCall" /\ query' = NoQuery
        /\ UNCHANGED <<ctx_counter, undiscarded>>
    BY <1>5 DEF CallCreated, Answered, Return
  <2>2. ASSUME NEW t \in TgOut, CreateCall(t), UNCHANGED internal_events,
               bridges' = [bridges EXCEPT ![c].state = "wait_tg",
                                          ![c].tg_call_id = t]
        PROVE  Effect(c)
    <3>1. Sets(c, [bridges[c] EXCEPT !.state = "wait_tg", !.tg_call_id = t])
      BY <1>0, <2>2 DEF Sets, Bridge
    <3> QED
      BY <1>1, <2>1, <2>2, <3>1 DEF Effect, Created, Silent
  <2>3. ASSUME bridges' = [bridges EXCEPT ![c].state = "wait_tg"],
               PushError(c), UNCHANGED tgVars
        PROVE  Effect(c)
    <3>1. Sets(c, [bridges[c] EXCEPT !.state = "wait_tg"])
      BY <1>0, <2>3 DEF Sets, Bridge
    <3> QED
      BY <1>1, <2>1, <2>3, <3>1
         DEF Effect, Created, Reports, PushError, TgSame, tgVars
  <2> QED
    BY <1>1, <1>5, <2>2, <2>3 DEF CallCreated
<1>6. CASE CallDiscarded
  <2>1. /\ query.op = "discardCall" /\ query' = NoQuery /\ Silent
        /\ bridges' = [bridges EXCEPT ![c] = NoBridge]
        /\ \/ DiscardCall(bridges[c].tg_call_id) /\ UNCHANGED undiscarded
           \/ /\ undiscarded' = undiscarded \cup {bridges[c].tg_call_id}
              /\ UNCHANGED <<tg_call, tg_events>>
    BY <1>1, <1>6 DEF CallDiscarded, Answered, Return, Silent, tgVars
  <2> QED
    BY <1>0, <1>1, <2>1, SetsBridge DEF Effect, Discarded
<1> QED
  BY <1>2, <1>3, <1>4, <1>5, <1>6 DEF Response

(* So has every step of the specification. *)
LEMMA StepEffect ==
    ASSUME Inv, HandlerInv, [Next]_vars
    PROVE  Idle \/ TgMoves \/ TgIgnores \/ \E c \in Ctx : Effect(c)
<1>1. CASE Network
  <2>1. CASE SipRemote /\ UNCHANGED <<tgVars, gwVars>>
    BY <2>1 DEF tgVars, gwVars, Idle, TgSame, Silent
  <2>2. CASE TgRemote /\ UNCHANGED <<sipVars, gwVars>>
    <3>1. PICK t \in TgId :
             TgRing(t) \/ TgReceived(t) \/ TgReady(t) \/ TgEnd(t)
      BY <2>2 DEF TgRemote
    <3>2. \/ /\ t \in TgIn /\ tg_call[t] \in {"none", "pending"}
             /\ \E s \in {"pending", "received"} : TgMove(t, s, "Pending")
          \/ /\ tg_call[t] \in {"pending", "accepted"}
             /\ TgMove(t, "ready", "Ready")
          \/ tg_call[t] # "ended" /\ TgMove(t, "ended", "Ended")
      BY <3>1 DEF TgRing, TgReceived, TgReady, TgEnd, TgLive
    <3> QED
      BY <2>2, <3>2 DEF gwVars, TgMoves, Silent
  <2> QED
    BY <1>1, <2>1, <2>2 DEF Network
<1>2. CASE Signal \/ UNCHANGED vars
  BY <1>2 DEF Signal, vars, tgVars, gwVars, Idle, TgSame, Silent
<1> QED
  BY <1>1, <1>2, LoopEffect, ResponseEffect DEF Next

-----------------------------------------------------------------------------
(* The shape of the bridges. *)

(* Replacing one bridge by a well-shaped one keeps the shape of all. *)
LEMMA ShapeSet ==
    ASSUME Inv, ShapeInv, NEW c \in Ctx, NEW b, Sets(c, b), BridgeOK(b),
           ctx_counter' \in Nat, ctx_counter' >= ctx_counter,
           b.from # "none" => c <= ctx_counter'
    PROVE  ShapeInv'
<1>1. ctx_counter \in Nat
  BY DEF Inv, LoopType
<1>2. \A d \in Ctx : d # c => bridges'[d] = bridges[d]
  BY DEF Sets
<1>3. bridges'[c] = b
  BY DEF Sets
<1> QED
  BY <1>1, <1>2, <1>3 DEF ShapeInv, Exists

(* No bridge at all is well-shaped. *)
LEMMA NoBridgeOK == BridgeOK(NoBridge) /\ NoBridge.from = "none"
  BY DEF BridgeOK, NoBridge

(* So is a bridge made for an update or an invitation. *)
LEMMA NewBridgeOK ==
    /\ \A t \in TgIn :
          /\ BridgeOK([NoBridge EXCEPT !.from = "tg", !.state = "init",
                                       !.tg_call_id = t])
          /\ BridgeOK([NoBridge EXCEPT !.from = "tg", !.tg_call_id = t])
    /\ \A i \in SipId :
          BridgeOK([NoBridge EXCEPT !.from = "sip",
                                    !.state = "sip_wait_confirm",
                                    !.sip_call_id = i])
<1>1. ASSUME NEW t \in TgIn
      PROVE  BridgeOK([NoBridge EXCEPT !.from = "tg", !.state = "init",
                                       !.tg_call_id = t])
  BY TgAssumption DEF BridgeOK, NoBridge
<1>2. ASSUME NEW t \in TgIn
      PROVE  BridgeOK([NoBridge EXCEPT !.from = "tg", !.tg_call_id = t])
  BY TgAssumption DEF BridgeOK, NoBridge
<1>3. ASSUME NEW i \in SipId
      PROVE  BridgeOK([NoBridge EXCEPT !.from = "sip",
                                       !.state = "sip_wait_confirm",
                                       !.sip_call_id = i])
  BY SipAssumption DEF BridgeOK, NoBridge
<1> QED
  BY <1>1, <1>2, <1>3

(* CleanUp leaves well-shaped bridges. *)
LEMMA CleanedShape ==
    ASSUME Inv, ShapeInv, NEW c \in Ctx, NEW i, NEW t, Exists(c),
           t = bridges[c].tg_call_id, Cleaned(c, i, t), UNCHANGED ctx_counter
    PROVE  ShapeInv'
<1>1. bridges[c] \in Bridge /\ c <= ctx_counter /\ ctx_counter \in Nat
  BY DEF Inv, BridgeInv, LoopType, ShapeInv
<1>2. CASE Sets(c, NoBridge)
  BY <1>1, <1>2, NoBridgeOK, ShapeSet
<1>3. CASE Sets(c, [bridges[c] EXCEPT !.state = "X", !.controller = FALSE,
                                      !.wired = FALSE, !.sip_call_id = i])
  <2>1. BridgeOK([bridges[c] EXCEPT !.state = "X", !.controller = FALSE,
                                    !.wired = FALSE, !.sip_call_id = i])
    BY <1>1 DEF BridgeOK, Bridge, ShapeInv, Exists
  <2> QED
    BY <1>1, <1>3, <2>1, ShapeSet
<1> QED
  BY <1>2, <1>3 DEF Cleaned

(* Every step keeps the shape of the bridges. *)
LEMMA ShapeStep ==
    ASSUME Inv, ShapeInv, HandlerInv, [Next]_vars
    PROVE  ShapeInv'
<1>0. /\ \A c \in Ctx : bridges[c] \in Bridge
      /\ ctx_counter \in Nat
  BY DEF Inv, BridgeInv, LoopType
<1>1. CASE Idle
  BY <1>1 DEF Idle, Silent, ShapeInv, Exists
<1>2. CASE TgMoves
  BY <1>2 DEF TgMoves, Silent, ShapeInv, Exists
<1>3. CASE TgIgnores
  BY <1>3 DEF TgIgnores, Silent, ShapeInv, Exists
<1>4. ASSUME NEW c \in Ctx, Fails(c) PROVE ShapeInv'
  <2>1. CASE ~Exists(c)
    BY <1>4, <2>1 DEF Fails, ShapeInv, Exists
  <2>2. CASE Exists(c)
    BY <1>4, <2>2, CleanedShape DEF Fails
  <2> QED
    BY <2>1, <2>2
<1>5. ASSUME NEW c \in Ctx, HungUp(c) PROVE ShapeInv'
  BY <1>5, CleanedShape DEF HungUp, Silent
<1>6. ASSUME NEW c \in Ctx, Ends(c) PROVE ShapeInv'
  BY <1>6, <1>0, NoBridgeOK, ShapeSet DEF Ends, Silent
<1>7. ASSUME NEW c \in Ctx, Rings(c) PROVE ShapeInv'
  <2>1. PICK b : Sets(c, b) /\ BridgeOK(b)
    BY <1>7, NewBridgeOK DEF Rings
  <2> QED
    BY <1>7, <1>0, <2>1, ShapeSet DEF Rings
<1>8. ASSUME NEW c \in Ctx, Invited(c) PROVE ShapeInv'
  <2>1. PICK b : Sets(c, b) /\ BridgeOK(b)
    BY <1>8, NewBridgeOK DEF Invited
  <2> QED
    BY <1>8, <1>0, <2>1, ShapeSet DEF Invited
<1>9. ASSUME NEW c \in Ctx, TalksFromTg(c) PROVE ShapeInv'
  <2>1. PICK b : /\ Sets(c, b) /\ b.from = bridges[c].from
                 /\ BridgeOK(b) /\ UNCHANGED ctx_counter
    BY <1>9, <1>0
       DEF TalksFromTg, BridgeOK, Bridge, ShapeInv, Silent, Reports
  <2>2. Exists(c)
    BY <1>9 DEF TalksFromTg, HandlerInv
  <2> QED
    BY <1>0, <2>1, <2>2, ShapeSet DEF ShapeInv
<1>10. ASSUME NEW c \in Ctx, AnswersSip(c) PROVE ShapeInv'
  <2>1. bridges[c].tg_call_id # NoTg
    <3>1. tg_events \in Seq(TgEvent) /\ tg_events # << >>
      BY <1>10 DEF AnswersSip, TgPopped, Inv, TgInv, TgTypeOK
    <3>2. bridges[c].tg_call_id \in TgId
      BY <1>10, <3>1, HeadTail DEF AnswersSip, TgEvent, UpdateCall
    <3> QED
      BY <3>2, TgAssumption
  <2>2. PICK b : /\ Sets(c, b) /\ b.from = bridges[c].from
                 /\ BridgeOK(b) /\ UNCHANGED ctx_counter
    BY <1>10, <1>0, <2>1
       DEF AnswersSip, BridgeOK, Bridge, ShapeInv, Silent, Reports
  <2>3. Exists(c)
    BY <1>10 DEF AnswersSip, HandlerInv
  <2> QED
    BY <1>0, <2>2, <2>3, ShapeSet DEF ShapeInv
<1>11. ASSUME NEW c \in Ctx, Accepting(c) PROVE ShapeInv'
  BY <1>11 DEF Accepting, Silent, ShapeInv, Exists
<1>12. ASSUME NEW c \in Ctx, DialsTg(c) PROVE ShapeInv'
  <2>1. CASE UNCHANGED bridges /\ Silent
    BY <2>1 DEF Silent, ShapeInv, Exists
  <2>2. CASE Sets(c, [bridges[c] EXCEPT !.state = "wait_tg"]) /\ Reports(c)
    <3>1. /\ BridgeOK([bridges[c] EXCEPT !.state = "wait_tg"])
          /\ c <= ctx_counter /\ UNCHANGED ctx_counter
      BY <1>12, <1>0, <2>2 DEF DialsTg, BridgeOK, Bridge, ShapeInv, Reports
    <3> QED
      BY <1>0, <2>2, <3>1, ShapeSet
  <2> QED
    BY <1>12, <2>1, <2>2 DEF DialsTg
<1>13. ASSUME NEW c \in Ctx, TalksFromSip(c) PROVE ShapeInv'
  <2>1. PICK b : /\ Sets(c, b) /\ b.from = bridges[c].from
                 /\ BridgeOK(b) /\ UNCHANGED ctx_counter
    BY <1>13, <1>0
       DEF TalksFromSip, BridgeOK, Bridge, ShapeInv, Silent, Reports
  <2>2. Exists(c)
    BY <1>13 DEF TalksFromSip, HandlerInv
  <2> QED
    BY <1>0, <2>1, <2>2, ShapeSet DEF ShapeInv
<1>14. ASSUME NEW c \in Ctx, DialsSip(c) PROVE ShapeInv'
  <2>1. PICK b : /\ Sets(c, b) /\ b.from = bridges[c].from
                 /\ BridgeOK(b) /\ UNCHANGED ctx_counter
    BY <1>14, <1>0
       DEF DialsSip, BridgeOK, Bridge, ShapeInv, Silent, Reports, HandlerInv
  <2>2. Exists(c)
    BY <1>14 DEF DialsSip, HandlerInv
  <2> QED
    BY <1>0, <2>1, <2>2, ShapeSet DEF ShapeInv
<1>15. ASSUME NEW c \in Ctx, Accepted(c) PROVE ShapeInv'
  <2>1. PICK b : /\ Sets(c, b) /\ b.from = bridges[c].from
                 /\ BridgeOK(b) /\ UNCHANGED ctx_counter
    BY <1>15, <1>0
       DEF Accepted, BridgeOK, Bridge, ShapeInv, Silent, Reports, HandlerInv
  <2>2. Exists(c)
    BY <1>15 DEF Accepted, HandlerInv
  <2> QED
    BY <1>0, <2>1, <2>2, ShapeSet DEF ShapeInv
<1>16. ASSUME NEW c \in Ctx, Created(c) PROVE ShapeInv'
  <2>1. PICK b : /\ Sets(c, b) /\ b.from = bridges[c].from
                 /\ BridgeOK(b) /\ UNCHANGED ctx_counter
    BY <1>16, <1>0, TgAssumption
       DEF Created, BridgeOK, Bridge, ShapeInv, Silent, Reports, HandlerInv
  <2>2. Exists(c)
    BY <1>16 DEF Created, HandlerInv
  <2> QED
    BY <1>0, <2>1, <2>2, ShapeSet DEF ShapeInv
<1>17. ASSUME NEW c \in Ctx, Discarded(c) PROVE ShapeInv'
  BY <1>17, <1>0, NoBridgeOK, ShapeSet DEF Discarded, Silent
<1> QED
  BY StepEffect, <1>1, <1>2, <1>3, <1>4, <1>5, <1>6, <1>7, <1>8, <1>9, <1>10,
     <1>11, <1>12, <1>13, <1>14, <1>15, <1>16, <1>17
     DEF Effect

(* Every step keeps the bridge whose handler waits as it was. *)
LEMMA HandlerStep ==
    ASSUME Inv, HandlerInv, [Next]_vars
    PROVE  HandlerInv'
<1>0. \A c \in Ctx : bridges[c] \in Bridge
  BY DEF Inv, BridgeInv
<1>1. CASE Idle
  <2>1. CASE query' = NoQuery
    BY <2>1 DEF HandlerInv, NoQuery
  <2>2. CASE query' = query
    BY <1>1, <2>2 DEF Idle, HandlerInv, Exists
  <2> QED
    BY <1>1, <2>1, <2>2 DEF Idle
<1>2. CASE TgMoves
  BY <1>2 DEF TgMoves, HandlerInv, Exists
<1>3. CASE TgIgnores
  <2>1. query' = NoQuery
    BY <1>3 DEF TgIgnores
  <2> QED
    BY <2>1 DEF HandlerInv, NoQuery
<1>4. ASSUME NEW c \in Ctx, Fails(c) PROVE HandlerInv'
  <2>1. CASE query' = NoQuery
    BY <2>1 DEF HandlerInv, NoQuery
  <2>2. CASE /\ query' = Query("discardCall", c) /\ Exists(c)'
             /\ bridges'[c].state = "X"
    BY <2>2 DEF HandlerInv, Query
  <2> QED
    BY <1>4, <1>0, <2>1, <2>2 DEF Fails, Cleaned, Sets, Bridge, Exists
<1>5. ASSUME NEW c \in Ctx, HungUp(c) PROVE HandlerInv'
  <2>1. CASE query' = NoQuery
    BY <2>1 DEF HandlerInv, NoQuery
  <2>2. CASE /\ query' = Query("discardCall", c) /\ Exists(c)'
             /\ bridges'[c].state = "X"
    BY <2>2 DEF HandlerInv, Query
  <2> QED
    BY <1>5, <1>0, <2>1, <2>2 DEF HungUp, Cleaned, Sets, Bridge, Exists
<1>6. ASSUME NEW c \in Ctx, Ends(c) PROVE HandlerInv'
  <2>1. query' = NoQuery
    BY <1>6 DEF Ends
  <2> QED
    BY <2>1 DEF HandlerInv, NoQuery
<1>7. ASSUME NEW c \in Ctx, Rings(c) PROVE HandlerInv'
  <2>1. CASE /\ query' = Query("getUser", c)
             /\ bridges'[c].from = "tg" /\ bridges'[c].state = "init"
    BY <2>1 DEF HandlerInv, Query, Exists
  <2>2. CASE /\ query' = Query("discardCall", c)
             /\ bridges'[c].from = "tg" /\ bridges'[c].state = "X"
    BY <2>2 DEF HandlerInv, Query, Exists
  <2> QED
    BY <1>7, <2>1, <2>2 DEF Rings, Sets, NoBridge
<1>8. ASSUME NEW c \in Ctx, Invited(c) PROVE HandlerInv'
  <2>1. query' = NoQuery
    BY <1>8 DEF Invited
  <2> QED
    BY <2>1 DEF HandlerInv, NoQuery
<1>9. ASSUME NEW c \in Ctx, TalksFromTg(c) PROVE HandlerInv'
  <2>1. query' = NoQuery
    BY <1>9 DEF TalksFromTg
  <2> QED
    BY <2>1 DEF HandlerInv, NoQuery
<1>10. ASSUME NEW c \in Ctx, AnswersSip(c) PROVE HandlerInv'
  <2>1. query' = NoQuery
    BY <1>10 DEF AnswersSip
  <2> QED
    BY <2>1 DEF HandlerInv, NoQuery
<1>11. ASSUME NEW c \in Ctx, Accepting(c) PROVE HandlerInv'
  BY <1>11 DEF Accepting, Query, HandlerInv, Exists
<1>12. ASSUME NEW c \in Ctx, DialsTg(c) PROVE HandlerInv'
  <2>1. CASE query' = NoQuery
    BY <2>1 DEF HandlerInv, NoQuery
  <2>2. CASE query' = Query("createCall", c) /\ UNCHANGED bridges
    BY <1>12, <2>2 DEF DialsTg, HandlerInv, Query, Exists
  <2> QED
    BY <1>12, <2>1, <2>2 DEF DialsTg
<1>13. ASSUME NEW c \in Ctx, TalksFromSip(c) PROVE HandlerInv'
  <2>1. query' = NoQuery
    BY <1>13 DEF TalksFromSip
  <2> QED
    BY <2>1 DEF HandlerInv, NoQuery
<1>14. ASSUME NEW c \in Ctx, DialsSip(c) PROVE HandlerInv'
  <2>1. query' = NoQuery
    BY <1>14 DEF DialsSip
  <2> QED
    BY <2>1 DEF HandlerInv, NoQuery
<1>15. ASSUME NEW c \in Ctx, Accepted(c) PROVE HandlerInv'
  <2>1. query' = NoQuery
    BY <1>15 DEF Accepted
  <2> QED
    BY <2>1 DEF HandlerInv, NoQuery
<1>16. ASSUME NEW c \in Ctx, Created(c) PROVE HandlerInv'
  <2>1. query' = NoQuery
    BY <1>16 DEF Created
  <2> QED
    BY <2>1 DEF HandlerInv, NoQuery
<1>17. ASSUME NEW c \in Ctx, Discarded(c) PROVE HandlerInv'
  <2>1. query' = NoQuery
    BY <1>17 DEF Discarded
  <2> QED
    BY <2>1 DEF HandlerInv, NoQuery
<1> QED
  BY StepEffect, <1>1, <1>2, <1>3, <1>4, <1>5, <1>6, <1>7, <1>8, <1>9, <1>10,
     <1>11, <1>12, <1>13, <1>14, <1>15, <1>16, <1>17
     DEF Effect

-----------------------------------------------------------------------------
(* Queues: what a pop and a push leave where. *)

(* After a pop every other element is one place further to the front. *)
LEMMA PopKeeps ==
    ASSUME NEW E, NEW q \in Seq(E), q # << >>
    PROVE  /\ Head(q) = q[1] /\ 1 \in 1 .. Len(q) /\ Len(q) \in Nat
           /\ Len(Tail(q)) = Len(q) - 1
           /\ \A n \in 1 .. Len(q) : n # 1 =>
                 n - 1 \in 1 .. Len(Tail(q)) /\ Tail(q)[n - 1] = q[n]
           /\ \A n \in 1 .. Len(Tail(q)) :
                 n + 1 \in 1 .. Len(q) /\ Tail(q)[n] = q[n + 1]
  OBVIOUS

(* After a push every element is where it was, and the new one last. *)
LEMMA PushKeeps ==
    ASSUME NEW E, NEW q \in Seq(E), NEW e
    PROVE  /\ Len(Append(q, e)) = Len(q) + 1 /\ Len(q) \in Nat
           /\ \A n \in 1 .. Len(q) :
                 n \in 1 .. Len(Append(q, e)) /\ Append(q, e)[n] = q[n]
           /\ Len(q) + 1 \in 1 .. Len(Append(q, e))
           /\ Append(q, e)[Len(q) + 1] = e
           /\ \A n \in 1 .. Len(Append(q, e)) :
                 n \in 1 .. Len(q) \/ n = Len(q) + 1
  OBVIOUS

(* A queued update stays queued until it is popped. *)
LEMMA TgPushed ==
    ASSUME Inv, NEW v, tg_events' = Append(tg_events, v)
    PROVE  TgQueued(v)' /\ \A u : TgQueued(u) => TgQueued(u)'
  BY PushKeeps DEF Inv, TgInv, TgTypeOK, TgQueued

(* A pop takes one update and leaves the others queued. *)
LEMMA TgPops ==
    ASSUME Inv, TgPopped, NEW u, TgQueued(u)
    PROVE  TgQueued(u)' \/ u = Head(tg_events)
<1>1. tg_events \in Seq(TgEvent) /\ tg_events # << >>
  BY DEF Inv, TgInv, TgTypeOK, TgPopped
<1>2. PICK n \in 1 .. Len(tg_events) : tg_events[n] = u
  BY DEF TgQueued
<1> QED
  BY <1>1, <1>2, PopKeeps DEF TgQueued, TgPopped

(* So does an error, until its bridge is cleaned up. *)
LEMMA ErrorPushed ==
    ASSUME Inv, NEW c, Reports(c)
    PROVE  ErrorQueued(c)' /\ \A d : ErrorQueued(d) => ErrorQueued(d)'
<1>1. /\ internal_events \in Seq(Ctx)
      /\ internal_events' = Append(internal_events, c)
  BY DEF Inv, LoopType, Reports
<1> QED
  BY <1>1, PushKeeps DEF ErrorQueued

(* A queued error stays queued until its own context fails. *)
LEMMA ErrorKept ==
    ASSUME Inv, NEW d \in Ctx, ErrorQueued(d),
           \/ UNCHANGED internal_events
           \/ \E c \in Ctx : internal_events' = Append(internal_events, c)
           \/ \E c \in Ctx : Fails(c) /\ c # d
    PROVE  ErrorQueued(d)'
<1>1. internal_events \in Seq(Ctx)
  BY DEF Inv, LoopType
<1>2. PICK n \in 1 .. Len(internal_events) : internal_events[n] = d
  BY DEF ErrorQueued
<1>3. CASE UNCHANGED internal_events
  BY <1>2, <1>3 DEF ErrorQueued
<1>4. ASSUME NEW c \in Ctx, internal_events' = Append(internal_events, c)
      PROVE  ErrorQueued(d)'
  BY <1>1, <1>2, <1>4, PushKeeps DEF ErrorQueued
<1>5. ASSUME NEW c \in Ctx, Fails(c), c # d PROVE ErrorQueued(d)'
  <2>1. /\ internal_events # << >> /\ Head(internal_events) # d
        /\ internal_events' = Tail(internal_events)
    BY <1>5 DEF Fails
  <2> QED
    BY <1>1, <1>2, <2>1, PopKeeps DEF ErrorQueued
<1> QED
  BY <1>3, <1>4, <1>5

-----------------------------------------------------------------------------
(* The Telegram queue. *)

(* The queue invariant depends on the queue and on what has ended. *)
LEMMA QueueSame ==
    ASSUME TgQueueInv, UNCHANGED tg_events,
           \A t : tg_call[t] = "ended" <=> tg_call'[t] = "ended"
    PROVE  TgQueueInv'
  BY DEF TgQueueInv

(* A pop keeps the ends behind the first updates. *)
LEMMA QueuePopped == ASSUME Inv, TgQueueInv, TgPopped PROVE TgQueueInv'
<1>1. /\ tg_events \in Seq(TgEvent) /\ tg_events # << >>
      /\ tg_events' = Tail(tg_events) /\ tg_call' = tg_call
  BY DEF Inv, TgInv, TgTypeOK, TgPopped
<1>2. ASSUME NEW n \in 1 .. Len(tg_events')
      PROVE  /\ n + 1 \in 1 .. Len(tg_events)
             /\ tg_events'[n] = tg_events[n + 1]
  BY <1>1, PopKeeps
<1>3. ASSUME NEW n \in 1 .. Len(tg_events'),
             tg_events'[n].state = "Pending",
             tg_call'[tg_events'[n].id] = "ended"
      PROVE  \E m \in n + 1 .. Len(tg_events') :
                tg_events'[m] = UpdateCall(tg_events'[n].id, "Ended")
  <2>1. PICK m \in (n + 1) + 1 .. Len(tg_events) :
           tg_events[m] = UpdateCall(tg_events[n + 1].id, "Ended")
    BY <1>1, <1>2, <1>3 DEF TgQueueInv
  <2>2. m \in 1 .. Len(tg_events) /\ m # 1 /\ m - 1 >= n + 1 /\ m - 1 \in Nat
    BY <2>1
  <2>3. m - 1 \in 1 .. Len(tg_events') /\ tg_events'[m - 1] = tg_events[m]
    BY <1>1, <2>2, PopKeeps
  <2>4. m - 1 \in n + 1 .. Len(tg_events')
    BY <2>2, <2>3
  <2> QED
    BY <1>2, <2>1, <2>3, <2>4
<1> QED
  BY <1>1, <1>2, <1>3 DEF TgQueueInv

(* So does a change TDLib reports, as it reports an end last. *)
LEMMA QueueMoved ==
    ASSUME Inv, TgQueueInv, NEW t \in TgId, NEW s, NEW u, TgMove(t, s, u),
           tg_call[t] # "ended", s = "ended" <=> u = "Ended"
    PROVE  TgQueueInv'
<1> DEFINE k == Len(tg_events) + 1
<1>1. /\ tg_events \in Seq(TgEvent)
      /\ tg_events' = Append(tg_events, UpdateCall(t, u))
      /\ tg_call'[t] = s
      /\ \A r \in TgId : r # t => tg_call'[r] = tg_call[r]
  BY DEF Inv, TgInv, TgTypeOK, TgMove
<1>2. \A n \in 1 .. Len(tg_events) : /\ n \in 1 .. Len(tg_events')
                                     /\ tg_events'[n] = tg_events[n]
                                     /\ tg_events[n].id \in TgId
  <2>1. \A n \in 1 .. Len(tg_events) : tg_events[n] \in TgEvent
    BY <1>1
  <2> QED
    BY <1>1, <2>1, PushKeeps DEF TgEvent
<1>3. /\ k \in 1 .. Len(tg_events') /\ tg_events'[k] = UpdateCall(t, u)
      /\ \A n \in 1 .. Len(tg_events') : n \in 1 .. Len(tg_events) \/ n = k
      /\ Len(tg_events') = k /\ k \in Nat
      /\ Len(tg_events) \in Nat /\ k = Len(tg_events) + 1
      /\ \A n \in 1 .. Len(tg_events) : k \in n + 1 .. Len(tg_events')
  <2>1. /\ Len(tg_events) \in Nat /\ Len(tg_events') = Len(tg_events) + 1
        /\ k = Len(tg_events) + 1
    BY <1>1, PushKeeps
  <2>2. k \in 1 .. Len(tg_events') /\ tg_events'[k] = UpdateCall(t, u)
    BY <1>1, PushKeeps
  <2> HIDE DEF k
  <2> QED
    BY <2>1, <2>2
<1>4. UpdateCall(t, u).id = t /\ UpdateCall(t, u).state = u
  BY DEF UpdateCall
<1> HIDE DEF k
<1>5. ASSUME NEW n \in 1 .. Len(tg_events'), tg_events'[n].state = "Ended"
      PROVE  tg_call'[tg_events'[n].id] = "ended"
  BY <1>1, <1>2, <1>3, <1>4, <1>5 DEF TgQueueInv
<1>6. ASSUME NEW n \in 1 .. Len(tg_events'),
             tg_events'[n].state = "Pending",
             tg_call'[tg_events'[n].id] = "ended"
      PROVE  \E m \in n + 1 .. Len(tg_events') :
                tg_events'[m] = UpdateCall(tg_events'[n].id, "Ended")
  <2>1. n \in 1 .. Len(tg_events)
    BY <1>1, <1>3, <1>4, <1>6
  <2>2. CASE tg_events[n].id = t
    BY <1>1, <1>2, <1>3, <1>6, <2>1, <2>2
  <2>3. CASE tg_events[n].id # t
    <3>1. PICK m \in n + 1 .. Len(tg_events) :
             tg_events[m] = UpdateCall(tg_events[n].id, "Ended")
      BY <1>1, <1>2, <1>6, <2>1, <2>3 DEF TgQueueInv
    <3>2. m \in 1 .. Len(tg_events) /\ m \in n + 1 .. Len(tg_events')
      BY <1>3, <2>1, <3>1
    <3> QED
      BY <1>2, <2>1, <3>1, <3>2
  <2> QED
    BY <2>2, <2>3
<1> QED
  BY <1>5, <1>6 DEF TgQueueInv

(* Every step keeps the order of the Telegram queue. *)
LEMMA TgQueueStep ==
    ASSUME Inv, HandlerInv, TgQueueInv, [Next]_vars
    PROVE  TgQueueInv'
<1>1. CASE Idle
  BY <1>1, QueueSame DEF Idle, TgSame
<1>2. CASE TgMoves
  <2>1. PICK t \in TgId, s \in {"pending", "received", "ready", "ended"},
             u \in {"Pending", "Ready", "Ended"} :
           /\ TgMove(t, s, u) /\ tg_call[t] # "ended"
           /\ s = "ended" <=> u = "Ended"
    BY <1>2 DEF TgMoves
  <2> QED
    BY <2>1, QueueMoved
<1>3. CASE TgIgnores
  BY <1>3, QueuePopped DEF TgIgnores
<1>4. ASSUME NEW c \in Ctx, Fails(c) PROVE TgQueueInv'
  BY <1>4, QueueSame DEF Fails, TgSame
<1>5. ASSUME NEW c \in Ctx, HungUp(c) PROVE TgQueueInv'
  BY <1>5, QueueSame DEF HungUp, TgSame
<1>6. ASSUME NEW c \in Ctx, Ends(c) PROVE TgQueueInv'
  BY <1>6, QueuePopped DEF Ends
<1>7. ASSUME NEW c \in Ctx, Rings(c) PROVE TgQueueInv'
  BY <1>7, QueuePopped DEF Rings
<1>8. ASSUME NEW c \in Ctx, Invited(c) PROVE TgQueueInv'
  BY <1>8, QueueSame DEF Invited, TgSame
<1>9. ASSUME NEW c \in Ctx, TalksFromTg(c) PROVE TgQueueInv'
  BY <1>9, QueuePopped DEF TalksFromTg
<1>10. ASSUME NEW c \in Ctx, AnswersSip(c) PROVE TgQueueInv'
  BY <1>10, QueuePopped DEF AnswersSip
<1>11. ASSUME NEW c \in Ctx, Accepting(c) PROVE TgQueueInv'
  BY <1>11, QueueSame DEF Accepting, TgSame
<1>12. ASSUME NEW c \in Ctx, DialsTg(c) PROVE TgQueueInv'
  BY <1>12, QueueSame DEF DialsTg, TgSame
<1>13. ASSUME NEW c \in Ctx, TalksFromSip(c) PROVE TgQueueInv'
  BY <1>13, QueueSame DEF TalksFromSip, TgSame
<1>14. ASSUME NEW c \in Ctx, DialsSip(c) PROVE TgQueueInv'
  BY <1>14, QueueSame DEF DialsSip, TgSame
<1>15. ASSUME NEW c \in Ctx, Accepted(c) PROVE TgQueueInv'
  <2>1. CASE TgSame
    BY <2>1, QueueSame DEF TgSame
  <2>2. CASE AcceptCall(bridges[c].tg_call_id)
    <3>1. /\ UNCHANGED tg_events
          /\ \A t : tg_call[t] = "ended" <=> tg_call'[t] = "ended"
      BY <2>2 DEF AcceptCall, Inv, TgInv, TgTypeOK
    <3> QED
      BY <3>1, QueueSame
  <2> QED
    BY <1>15, <2>1, <2>2 DEF Accepted
<1>16. ASSUME NEW c \in Ctx, Created(c) PROVE TgQueueInv'
  <2>1. CASE TgSame
    BY <2>1, QueueSame DEF TgSame
  <2>2. ASSUME NEW t \in TgOut, CreateCall(t) PROVE TgQueueInv'
    BY <2>2, QueueMoved DEF CreateCall
  <2> QED
    BY <1>16, <2>1, <2>2 DEF Created
<1>17. ASSUME NEW c \in Ctx, Discarded(c) PROVE TgQueueInv'
  <2>1. CASE UNCHANGED <<tg_call, tg_events>>
    BY <2>1, QueueSame
  <2>2. CASE DiscardCall(bridges[c].tg_call_id)
    <3>1. /\ UNCHANGED tg_events
          /\ \A t : tg_call[t] = "ended" <=> tg_call'[t] = "ended"
      BY <2>2 DEF DiscardCall, TgLive, Inv, TgInv, TgTypeOK
    <3> QED
      BY <3>1, QueueSame
  <2> QED
    BY <1>17, <2>1, <2>2 DEF Discarded
<1> QED
  BY StepEffect, <1>1, <1>2, <1>3, <1>4, <1>5, <1>6, <1>7, <1>8, <1>9, <1>10,
     <1>11, <1>12, <1>13, <1>14, <1>15, <1>16, <1>17
     DEF Effect

-----------------------------------------------------------------------------
(* No Telegram call is orphaned. *)

(* The bridges of the other contexts stay as they are. *)
Others(c) == \A d \in Ctx \ {c} : bridges'[d] = bridges[d]

Held(t) == \/ \E c \in Ctx : bridges[c].tg_call_id = t
           \/ t \in TgIn /\ TgQueued(UpdateCall(t, "Pending"))
           \/ t \in undiscarded

(* Updates are equal when their fields are. *)
LEMMA UpdateFields ==
    ASSUME NEW t, NEW s, NEW r, NEW u, UpdateCall(t, s) = UpdateCall(r, u)
    PROVE  t = r /\ s = u
  BY DEF UpdateCall

(* The update at the head of the queue. *)
LEMMA PoppedUpdate ==
    ASSUME Inv, TgPopped
    PROVE  /\ Head(tg_events) \in TgEvent /\ Head(tg_events).id \in TgId
           /\ Head(tg_events) = UpdateCall(Head(tg_events).id,
                                           Head(tg_events).state)
           /\ 1 \in 1 .. Len(tg_events) /\ Head(tg_events) = tg_events[1]
<1>1. tg_events \in Seq(TgEvent) /\ tg_events # << >>
  BY DEF Inv, TgInv, TgTypeOK, TgPopped
<1>2. Head(tg_events) \in TgEvent
  BY <1>1
<1> QED
  BY <1>1, <1>2, PopKeeps DEF TgEvent, UpdateCall

(* A queued update survives what does not pop it. *)
LEMMA UpdateKept ==
    ASSUME Inv, NEW u, TgQueued(u),
           \/ UNCHANGED tg_events
           \/ \E v : tg_events' = Append(tg_events, v)
           \/ TgPopped /\ Head(tg_events) # u
    PROVE  TgQueued(u)'
<1>1. CASE UNCHANGED tg_events
  BY <1>1 DEF TgQueued
<1>2. CASE \E v : tg_events' = Append(tg_events, v)
  BY <1>2, TgPushed
<1>3. CASE TgPopped /\ Head(tg_events) # u
  BY <1>3, TgPops
<1> QED
  BY <1>1, <1>2, <1>3

(* What holds a call still holds it unless the step removes it. *)
LEMMA HeldKept ==
    ASSUME Inv, NEW t \in TgId, Held(t), UNCHANGED undiscarded,
           \/ UNCHANGED bridges
           \/ \E c \in Ctx :
                 /\ Others(c)
                 /\ bridges'[c].tg_call_id = bridges[c].tg_call_id
                    \/ bridges[c].tg_call_id # t,
           \/ UNCHANGED tg_events
           \/ \E v : tg_events' = Append(tg_events, v)
           \/ TgPopped /\ Head(tg_events) # UpdateCall(t, "Pending")
    PROVE  Held(t)'
<1>1. CASE \E d \in Ctx : bridges[d].tg_call_id = t
  <2>1. PICK d \in Ctx : bridges[d].tg_call_id = t
    BY <1>1
  <2>2. bridges'[d].tg_call_id = t
    BY <2>1 DEF Others
  <2> QED
    BY <2>2 DEF Held
<1>2. CASE t \in TgIn /\ TgQueued(UpdateCall(t, "Pending"))
  BY <1>2, UpdateKept DEF Held
<1> QED
  BY <1>1, <1>2 DEF Held

(* What a new or a removed bridge has to do with a live call. *)
LEMMA NewBridge ==
    ASSUME Inv, ShapeInv, NEW c \in Ctx, c = ctx_counter + 1
    PROVE  bridges[c] = NoBridge /\ bridges[c].tg_call_id = NoTg
<1>1. ~Exists(c)
  BY DEF Inv, LoopType, ShapeInv
<1>2. bridges[c] = NoBridge
  BY <1>1 DEF ShapeInv, BridgeOK, Exists
<1> QED
  BY <1>2 DEF NoBridge

(* CleanUp does not forget a Telegram leg it is given. *)
LEMMA CleanedHolds ==
    ASSUME Inv, NEW c \in Ctx, NEW i, Cleaned(c, i, bridges[c].tg_call_id)
    PROVE  Others(c) /\ bridges'[c].tg_call_id = bridges[c].tg_call_id
<1>1. bridges[c] \in Bridge
  BY DEF Inv, BridgeInv
<1>2. CASE bridges[c].tg_call_id = NoTg /\ Sets(c, NoBridge)
  BY <1>2 DEF Sets, Others, NoBridge
<1>3. CASE Sets(c, [bridges[c] EXCEPT !.state = "X", !.controller = FALSE,
                                      !.wired = FALSE, !.sip_call_id = i])
  BY <1>1, <1>3 DEF Sets, Others, Bridge
<1> QED
  BY <1>2, <1>3 DEF Cleaned

(* A call that is live after a step is held after it. *)
LEMMA HeldStep ==
    ASSUME Inv, ShapeInv, HandlerInv, TgQueueInv, OrphanInv,
           NEW t \in TgId, TgLive(t)', [Next]_vars
    PROVE  Held(t)'
<1>0. \A c \in Ctx : bridges[c] \in Bridge
  BY DEF Inv, BridgeInv
<1>h. TgLive(t) => Held(t)
  BY DEF OrphanInv, Held
<1>1. CASE Idle
  BY <1>1, <1>h, HeldKept DEF Idle, TgSame, TgLive
<1>2. CASE TgMoves
  <2>1. PICK r \in TgId, s \in {"pending", "received", "ready", "ended"},
             u \in {"Pending", "Ready", "Ended"} :
           /\ TgMove(r, s, u)
           /\ \/ u = "Pending" /\ r \in TgIn
              \/ s = "ready" /\ TgLive(r)
              \/ s = "ended"
    BY <1>2 DEF TgMoves, TgLive
  <2>2. /\ tg_events' = Append(tg_events, UpdateCall(r, u))
        /\ tg_call'[r] = s
        /\ \A q \in TgId : q # r => tg_call'[q] = tg_call[q]
    BY <2>1 DEF TgMove, Inv, TgInv, TgTypeOK
  <2>3. CASE u = "Pending" /\ r \in TgIn /\ t = r
    BY <2>2, <2>3, TgPushed DEF Held
  <2>4. CASE ~(u = "Pending" /\ r \in TgIn /\ t = r)
    <3>1. TgLive(t)
      BY <2>1, <2>2, <2>4 DEF TgLive
    <3> QED
      BY <1>2, <1>h, <2>2, <3>1, HeldKept DEF TgMoves
  <2> QED
    BY <2>3, <2>4
<1>3. CASE TgIgnores
  <2>0. TgLive(t)
    BY <1>3 DEF TgIgnores, TgPopped, TgLive
  <2>1. CASE Head(tg_events) = UpdateCall(t, "Pending")
    <3>1. Head(tg_events).id = t /\ Head(tg_events).state = "Pending"
      BY <2>1 DEF UpdateCall
    <3>2. CASE t \in TgIn
      BY <1>3, <3>1, <3>2 DEF TgIgnores, Held
    <3>3. CASE t \notin TgIn
      <4>1. (\E c \in Ctx : bridges[c].tg_call_id = t) \/ t \in undiscarded
        BY <1>h, <2>0, <3>3 DEF Held
      <4> QED
        BY <1>3, <4>1 DEF TgIgnores, TgPopped, Held
    <3> QED
      BY <3>2, <3>3
  <2>2. CASE Head(tg_events) # UpdateCall(t, "Pending")
    BY <1>3, <1>h, <2>0, <2>2, HeldKept DEF TgIgnores, TgPopped
  <2> QED
    BY <2>1, <2>2
<1>4. ASSUME NEW c \in Ctx, Fails(c) PROVE Held(t)'
  <2>1. CASE ~Exists(c)
    BY <1>4, <1>h, <2>1, HeldKept DEF Fails, TgSame, TgLive
  <2>2. CASE Exists(c)
    <3>1. Others(c) /\ bridges'[c].tg_call_id = bridges[c].tg_call_id
      BY <1>4, <2>2, CleanedHolds DEF Fails
    <3> QED
      BY <1>4, <1>h, <3>1, HeldKept DEF Fails, TgSame, TgLive
  <2> QED
    BY <2>1, <2>2
<1>5. ASSUME NEW c \in Ctx, HungUp(c) PROVE Held(t)'
  <2>1. Others(c) /\ bridges'[c].tg_call_id = bridges[c].tg_call_id
    BY <1>5, CleanedHolds DEF HungUp
  <2> QED
    BY <1>5, <1>h, <2>1, HeldKept DEF HungUp, TgSame, TgLive
<1>6. ASSUME NEW c \in Ctx, Ends(c) PROVE Held(t)'
  <2>1. /\ TgPopped /\ Others(c) /\ UNCHANGED <<undiscarded, tg_call>>
        /\ Head(tg_events) = UpdateCall(bridges[c].tg_call_id, "Ended")
    BY <1>6 DEF Ends, TgPopped, Sets, Others
  <2>2. tg_call[bridges[c].tg_call_id] = "ended"
    BY <2>1, PoppedUpdate DEF TgQueueInv, UpdateCall
  <2>3. TgLive(t) /\ bridges[c].tg_call_id # t
    BY <2>1, <2>2 DEF TgLive
  <2>4. Head(tg_events) # UpdateCall(t, "Pending")
    BY <2>1, UpdateFields
  <2> QED
    BY <1>h, <2>1, <2>3, <2>4, HeldKept
<1>7. ASSUME NEW c \in Ctx, Rings(c) PROVE Held(t)'
  <2>1. Others(c) /\ bridges'[c].tg_call_id = Head(tg_events).id
    BY <1>7 DEF Rings, NoBridge, Sets, Others
  <2>2. TgPopped /\ TgLive(t) /\ bridges[c].tg_call_id # t
    BY <1>7, NewBridge, TgAssumption DEF Rings, TgPopped, TgLive
  <2>3. CASE Head(tg_events).id = t
    BY <2>1, <2>3 DEF Held
  <2>4. CASE Head(tg_events).id # t
    <3>1. Head(tg_events) # UpdateCall(t, "Pending")
      BY <2>4 DEF UpdateCall
    <3> QED
      BY <1>h, <2>1, <2>2, <3>1, HeldKept DEF TgPopped
  <2> QED
    BY <2>3, <2>4
<1>8. ASSUME NEW c \in Ctx, Invited(c) PROVE Held(t)'
  <2>1. Others(c)
    BY <1>8 DEF Invited, Sets, Others
  <2>2. TgSame /\ TgLive(t) /\ bridges[c].tg_call_id # t
    BY <1>8, NewBridge, TgAssumption DEF Invited, TgSame, TgLive
  <2> QED
    BY <1>h, <2>1, <2>2, HeldKept DEF TgSame
<1>9. ASSUME NEW c \in Ctx, TalksFromTg(c) PROVE Held(t)'
  <2>1. Others(c) /\ bridges'[c].tg_call_id = bridges[c].tg_call_id
    BY <1>9, <1>0 DEF TalksFromTg, Bridge, Sets, Others
  <2>2. Head(tg_events) # UpdateCall(t, "Pending") /\ TgPopped
    BY <1>9, UpdateFields DEF TalksFromTg
  <2> QED
    BY <1>h, <2>1, <2>2, HeldKept DEF TgPopped, OrphanInv, Held, TgLive
<1>10. ASSUME NEW c \in Ctx, AnswersSip(c) PROVE Held(t)'
  <2>1. Others(c) /\ bridges'[c].tg_call_id = bridges[c].tg_call_id
    BY <1>10, <1>0 DEF AnswersSip, Bridge, Sets, Others
  <2>2. Head(tg_events) # UpdateCall(t, "Pending") /\ TgPopped
    BY <1>10, UpdateFields DEF AnswersSip
  <2> QED
    BY <1>h, <2>1, <2>2, HeldKept DEF TgPopped, OrphanInv, Held, TgLive
<1>11. ASSUME NEW c \in Ctx, Accepting(c) PROVE Held(t)'
  BY <1>11, <1>h, HeldKept DEF Accepting, TgSame, TgLive
<1>12. ASSUME NEW c \in Ctx, DialsTg(c) PROVE Held(t)'
  <2>0. TgLive(t) /\ TgSame
    BY <1>12 DEF DialsTg, TgSame, TgLive
  <2>1. CASE UNCHANGED bridges
    BY <1>h, <2>0, <2>1, HeldKept DEF TgSame
  <2>2. CASE Sets(c, [bridges[c] EXCEPT !.state = "wait_tg"])
    <3>1. Others(c) /\ bridges'[c].tg_call_id = bridges[c].tg_call_id
      BY <1>0, <2>2 DEF Bridge, Sets, Others
    <3> QED
      BY <1>h, <2>0, <3>1, HeldKept DEF TgSame
  <2> QED
    BY <1>12, <2>1, <2>2 DEF DialsTg
<1>13. ASSUME NEW c \in Ctx, TalksFromSip(c) PROVE Held(t)'
  <2>1. Others(c) /\ bridges'[c].tg_call_id = bridges[c].tg_call_id
    BY <1>13, <1>0 DEF TalksFromSip, Bridge, Sets, Others
  <2> QED
    BY <1>13, <1>h, <2>1, HeldKept
       DEF TalksFromSip, TgSame, OrphanInv, Held, TgLive
<1>14. ASSUME NEW c \in Ctx, DialsSip(c) PROVE Held(t)'
  <2>1. Others(c) /\ bridges'[c].tg_call_id = bridges[c].tg_call_id
    BY <1>14, <1>0 DEF DialsSip, Bridge, Sets, Others
  <2> QED
    BY <1>14, <1>h, <2>1, HeldKept
       DEF DialsSip, TgSame, OrphanInv, Held, TgLive
<1>15. ASSUME NEW c \in Ctx, Accepted(c) PROVE Held(t)'
  <2>1. Others(c) /\ bridges'[c].tg_call_id = bridges[c].tg_call_id
    BY <1>15, <1>0 DEF Accepted, Bridge, Sets, Others
  <2>2. TgLive(t) /\ UNCHANGED <<tg_events, undiscarded>>
    BY <1>15 DEF Accepted, AcceptCall, TgSame, TgLive, Inv, TgInv, TgTypeOK
  <2> QED
    BY <1>h, <2>1, <2>2, HeldKept
<1>16. ASSUME NEW c \in Ctx, Created(c) PROVE Held(t)'
  <2>0. bridges[c].tg_call_id = NoTg /\ bridges[c].tg_call_id # t
    BY <1>16, TgAssumption DEF Created, HandlerInv, ShapeInv, BridgeOK
  <2>1. CASE TgSame /\ Sets(c, [bridges[c] EXCEPT !.state = "wait_tg"])
    <3>1. Others(c)
      BY <2>1 DEF Sets, Others
    <3> QED
      BY <1>h, <2>0, <2>1, <3>1, HeldKept DEF TgSame, TgLive
  <2>2. ASSUME NEW r \in TgOut, CreateCall(r), UNCHANGED undiscarded,
               Sets(c, [bridges[c] EXCEPT !.state = "wait_tg",
                                          !.tg_call_id = r])
        PROVE  Held(t)'
    <3>1. Others(c) /\ bridges'[c].tg_call_id = r
      BY <1>0, <2>2 DEF Bridge, Sets, Others
    <3>2. CASE t = r
      BY <3>1, <3>2 DEF Held
    <3>3. CASE t # r
      <4>1. TgLive(t) /\ \E v : tg_events' = Append(tg_events, v)
        BY <2>2, <3>3 DEF CreateCall, TgMove, TgLive, Inv, TgInv, TgTypeOK
      <4> QED
        BY <1>h, <2>0, <2>2, <3>1, <4>1, HeldKept
    <3> QED
      BY <3>2, <3>3
  <2> QED
    BY <1>16, <2>1, <2>2 DEF Created
<1>17. ASSUME NEW c \in Ctx, Discarded(c) PROVE Held(t)'
  <2>0. c = query.ctx /\ query.op = "discardCall" /\ Sets(c, NoBridge)
    BY <1>17 DEF Discarded
  <2>1. bridges[c].tg_call_id \in TgId
    BY <1>0, <2>0 DEF Inv, WaitInv, Bridge
  <2>2. CASE DiscardCall(bridges[c].tg_call_id) /\ UNCHANGED undiscarded
    <3>1. TgLive(t) /\ bridges[c].tg_call_id # t /\ UNCHANGED tg_events
      BY <2>1, <2>2 DEF DiscardCall, TgLive, Inv, TgInv, TgTypeOK
    <3> QED
      BY <1>h, <2>0, <2>2, <3>1, HeldKept DEF Sets, Others
  <2>3. CASE /\ undiscarded' = undiscarded \cup {bridges[c].tg_call_id}
             /\ UNCHANGED <<tg_call, tg_events>>
    <3>1. CASE t = bridges[c].tg_call_id \/ t \in undiscarded
      BY <2>3, <3>1 DEF Held
    <3>2. CASE ~(t = bridges[c].tg_call_id \/ t \in undiscarded)
      <4>1. TgLive(t)
        BY <2>3 DEF TgLive
      <4>2. \/ \E d \in Ctx : bridges[d].tg_call_id = t
            \/ t \in TgIn /\ TgQueued(UpdateCall(t, "Pending"))
        BY <1>h, <3>2, <4>1 DEF Held
      <4>3. ASSUME NEW d \in Ctx, bridges[d].tg_call_id = t PROVE Held(t)'
        BY <2>0, <3>2, <4>3 DEF Sets, Held
      <4> QED
        BY <2>3, <4>2, <4>3, UpdateKept DEF Held
    <3> QED
      BY <3>1, <3>2
  <2> QED
    BY <1>17, <2>2, <2>3 DEF Discarded
<1> QED
  BY StepEffect, <1>1, <1>2, <1>3, <1>4, <1>5, <1>6, <1>7, <1>8, <1>9, <1>10,
     <1>11, <1>12, <1>13, <1>14, <1>15, <1>16, <1>17
     DEF Effect

(* Every step keeps live calls held. *)
LEMMA OrphanStep ==
    ASSUME Inv, ShapeInv, HandlerInv, TgQueueInv, OrphanInv, [Next]_vars
    PROVE  OrphanInv'
<1>1. ASSUME NEW t \in TgId PROVE (TgLive(t) => Held(t))'
  BY HeldStep
<1> QED
  BY <1>1 DEF OrphanInv, Held

-----------------------------------------------------------------------------
(* Bridges wait for a Telegram leg only when it has more to say. *)

Accounted(t) == \/ TgLive(t) \/ tg_call[t] = "discarding"
                \/ TgQueued(UpdateCall(t, "Ended"))

(* The step does not take the end of t out of the queue. *)
Spares(t) ==
    \/ UNCHANGED <<tg_call, tg_events>>
    \/ TgPopped /\ Head(tg_events) # UpdateCall(t, "Ended")
    \/ \E r \in TgId : \E s \in {"pending", "received", "ready"} : \E u :
          TgMove(r, s, u)
    \/ \E r \in TgId : TgMove(r, "ended", "Ended")
    \/ \E r \in TgId : AcceptCall(r) \/ DiscardCall(r)

(* A call that has more to say still has after a step that spares it. *)
LEMMA AccountKept ==
    ASSUME Inv, NEW t \in TgId, Accounted(t), Spares(t)
    PROVE  Accounted(t)'
<1>0. tg_call \in [TgId -> TgCallState]
  BY DEF Inv, TgInv, TgTypeOK
<1>1. CASE UNCHANGED <<tg_call, tg_events>>
  BY <1>1 DEF Accounted, TgLive, TgQueued
<1>2. CASE TgPopped /\ Head(tg_events) # UpdateCall(t, "Ended")
  BY <1>2, UpdateKept DEF Accounted, TgPopped, TgLive
<1>3. ASSUME NEW r \in TgId, NEW s \in {"pending", "received", "ready"},
             NEW u, TgMove(r, s, u)
      PROVE  Accounted(t)'
  BY <1>0, <1>3, UpdateKept DEF Accounted, TgMove, TgLive
<1>4. ASSUME NEW r \in TgId, TgMove(r, "ended", "Ended") PROVE Accounted(t)'
  BY <1>0, <1>4, UpdateKept, TgPushed DEF Accounted, TgMove, TgLive
<1>5. ASSUME NEW r \in TgId, AcceptCall(r) \/ DiscardCall(r)
      PROVE  Accounted(t)'
  BY <1>0, <1>5, UpdateKept
     DEF Accounted, AcceptCall, DiscardCall, TgLive
<1> QED
  BY <1>1, <1>2, <1>3, <1>4, <1>5 DEF Spares

(* A context that waits for Telegram, and what it waits for. *)
Waits(d) == /\ Exists(d)
            /\ bridges[d].state \notin {"sip_wait_confirm", "X"}
Leg(d) == \/ ErrorQueued(d)
          \/ /\ bridges[d].tg_call_id # NoTg
             /\ Accounted(bridges[d].tg_call_id)

(* Error and update of context d stay where they are. *)
Kept(d) ==
    /\ ErrorQueued(d) => ErrorQueued(d)'
    /\ bridges[d].tg_call_id # NoTg => Spares(bridges[d].tg_call_id)

(* A context whose error and update stay keeps what it waits for. *)
LEMMA LegKept ==
    ASSUME Inv, NEW d \in Ctx, Leg(d), Kept(d),
           bridges'[d].tg_call_id = bridges[d].tg_call_id
    PROVE  Leg(d)'
<1>1. bridges[d].tg_call_id # NoTg => bridges[d].tg_call_id \in TgId
  BY DEF Inv, BridgeInv, Bridge
<1>2. CASE ErrorQueued(d)
  BY <1>2 DEF Kept, Leg
<1>3. CASE /\ bridges[d].tg_call_id # NoTg
           /\ Accounted(bridges[d].tg_call_id)
  <2>1. PICK t \in TgId : t = bridges[d].tg_call_id
    BY <1>1, <1>3
  <2>2. Accounted(t)'
    BY <1>3, <2>1, AccountKept DEF Kept
  <2> QED
    BY <1>3, <2>1, <2>2 DEF Leg, Accounted
<1> QED
  BY <1>2, <1>3 DEF Leg

Advances(c) == \/ TalksFromTg(c) \/ AnswersSip(c) \/ Accepting(c)
               \/ TalksFromSip(c) \/ DialsSip(c) \/ Accepted(c)

(* A step of one context leaves the others' alone, and its own unless the  *)
(* bridge is made or removed.                                              *)
LEMMA Bystander ==
    ASSUME Inv, ShapeInv, HandlerInv, NEW c \in Ctx, Effect(c), NEW d \in Ctx,
           d # c \/ Advances(c)
    PROVE  Kept(d)
<1>0. \A t \in TgId : \A r : UpdateCall(r, "Ready") # UpdateCall(t, "Ended")
  BY UpdateFields
<1>1. ErrorQueued(d) => ErrorQueued(d)'
  <2>1. \/ UNCHANGED internal_events
        \/ \E e \in Ctx : internal_events' = Append(internal_events, e)
        \/ \E e \in Ctx : Fails(e) /\ e # d
    <3>1. CASE Fails(c) /\ d # c
      BY <3>1
    <3>2. CASE Advances(c) \/ ~Fails(c)
      BY <3>2 DEF Advances, Effect, HungUp, Ends, Rings, Invited, TalksFromTg,
                  AnswersSip, Accepting, DialsTg, TalksFromSip, DialsSip,
                  Accepted, Created, Discarded, Silent, Reports
    <3> QED
      BY <3>1, <3>2
  <2> QED
    BY <2>1, ErrorKept
<1>2. ASSUME bridges[d].tg_call_id # NoTg
      PROVE  Spares(bridges[d].tg_call_id)
  <2>0. bridges[d].tg_call_id \in TgId
    BY <1>2 DEF Inv, BridgeInv, Bridge
  <2>1. CASE \/ Fails(c) \/ HungUp(c) \/ Invited(c) \/ Accepting(c)
             \/ DialsTg(c) \/ TalksFromSip(c) \/ DialsSip(c)
    BY <2>1 DEF Fails, HungUp, Invited, Accepting, DialsTg, TalksFromSip,
                DialsSip, TgSame, Spares
  <2>2. CASE TalksFromTg(c) \/ AnswersSip(c)
    BY <1>0, <2>0, <2>2 DEF TalksFromTg, AnswersSip, Spares
  <2>3. CASE Rings(c)
    <3>1. Head(tg_events) # UpdateCall(bridges[d].tg_call_id, "Ended")
      BY <2>3 DEF Rings, UpdateCall
    <3> QED
      BY <2>3, <3>1 DEF Rings, Spares
  <2>4. CASE Ends(c) /\ d # c
    <3>1. bridges[c].tg_call_id # bridges[d].tg_call_id
      BY <1>2, <2>4 DEF Inv, BridgeInv
    <3>2. Head(tg_events) # UpdateCall(bridges[d].tg_call_id, "Ended")
      BY <2>4, <3>1, UpdateFields DEF Ends
    <3> QED
      BY <2>4, <3>2 DEF Ends, Spares
  <2>5. CASE Accepted(c)
    <3>1. bridges[c].tg_call_id \in TgId \/ TgSame
      BY <2>5 DEF Accepted, HandlerInv, ShapeInv, BridgeOK, Inv, BridgeInv,
                  Bridge
    <3> QED
      BY <2>5, <3>1 DEF Accepted, TgSame, Spares
  <2>6. CASE Created(c)
    <3>1. TgSame \/ \E r \in TgId : TgMove(r, "pending", "Pending")
      BY <2>6 DEF Created, CreateCall
    <3> QED
      BY <3>1 DEF TgSame, Spares
  <2>7. CASE Discarded(c)
    <3>1. bridges[c].tg_call_id \in TgId
      BY <2>7 DEF Discarded, Inv, WaitInv, BridgeInv, Bridge
    <3> QED
      BY <2>7, <3>1 DEF Discarded, Spares
  <2> QED
    BY <2>1, <2>2, <2>3, <2>4, <2>5, <2>6, <2>7 DEF Effect, Advances
<1> QED
  BY <1>1, <1>2 DEF Kept

(* A step of one context leaves the bridges of the others alone. *)
LEMMA OthersStay ==
    ASSUME NEW c \in Ctx, Effect(c), NEW d \in Ctx, d # c
    PROVE  bridges'[d] = bridges[d]
  BY DEF Effect, Fails, HungUp, Ends, Rings, Invited, TalksFromTg,
         AnswersSip, Accepting, DialsTg, TalksFromSip, DialsSip,
         Accepted, Created, Discarded, Sets, Cleaned

(* CleanUp ends in state X. *)
LEMMA CleanedState ==
    ASSUME Inv, NEW c \in Ctx, NEW i, NEW t, Cleaned(c, i, t)
    PROVE  bridges'[c].state = "X"
<1>1. bridges[c] \in Bridge
  BY DEF Inv, BridgeInv
<1>2. CASE Sets(c, NoBridge)
  BY <1>2 DEF Sets, NoBridge
<1>3. CASE Sets(c, [bridges[c] EXCEPT !.state = "X", !.controller = FALSE,
                                      !.wired = FALSE, !.sip_call_id = i])
  BY <1>1, <1>3 DEF Sets, Bridge
<1> QED
  BY <1>2, <1>3 DEF Cleaned

(* The own step of a context. *)
LEMMA OwnLeg ==
    ASSUME Inv, ShapeInv, HandlerInv, TgQueueInv, TgLegAccounted,
           NEW c \in Ctx, Effect(c), Waits(c)'
    PROVE  Leg(c)'
<1>0. bridges[c] \in Bridge
  BY DEF Inv, BridgeInv
<1>w. Waits(c) => Leg(c)
  BY DEF TgLegAccounted, Waits, Leg, Accounted
<1>1. CASE Fails(c)
  <2>1. CASE ~Exists(c)
    BY <1>1, <2>1 DEF Fails, Waits, Exists
  <2>2. CASE Exists(c)
    BY <1>1, <2>2, CleanedState DEF Fails, Waits
  <2> QED
    BY <2>1, <2>2
<1>a. CASE HungUp(c)
  BY <1>a, CleanedState DEF HungUp, Waits
<1>b. CASE Ends(c) \/ Discarded(c)
  <2>1. bridges'[c] = NoBridge
    BY <1>b DEF Ends, Discarded, Sets
  <2> QED
    BY <2>1 DEF NoBridge, Waits
<1>c. CASE Invited(c)
  <2>1. bridges'[c].state = "sip_wait_confirm"
    BY <1>c DEF Invited, Sets, NoBridge
  <2> QED
    BY <2>1 DEF Waits
<1>2. CASE Rings(c)
  <2>1. PICK t \in TgId : /\ t = Head(tg_events).id /\ TgPopped
                          /\ Head(tg_events).state = "Pending"
                          /\ bridges'[c].tg_call_id = t /\ UNCHANGED tg_call
    BY <1>2, PoppedUpdate DEF Rings, Sets, NoBridge, TgPopped
  <2>2. /\ 1 \in 1 .. Len(tg_events) /\ tg_events[1].id = t
        /\ tg_events[1].state = "Pending" /\ tg_events[1] = Head(tg_events)
    BY <2>1, PoppedUpdate
  <2>3. CASE tg_call[t] = "ended"
    <3>1. PICK m \in 1 + 1 .. Len(tg_events) :
             tg_events[m] = UpdateCall(t, "Ended")
      BY <2>2, <2>3 DEF TgQueueInv
    <3>2. m \in 1 .. Len(tg_events)
      BY <3>1
    <3>3. TgQueued(UpdateCall(t, "Ended"))
      BY <3>1, <3>2 DEF TgQueued
    <3>4. Head(tg_events) # UpdateCall(t, "Ended")
      BY <2>1 DEF UpdateCall
    <3>5. TgQueued(UpdateCall(t, "Ended"))'
      BY <2>1, <3>3, <3>4, UpdateKept
    <3> QED
      BY <2>1, <3>5, TgAssumption DEF Leg, Accounted
  <2>4. CASE tg_call[t] # "ended"
    <3>1. tg_call[t] # "none"
      BY <2>2 DEF Inv, TgInv
    <3>2. TgLive(t) \/ tg_call[t] = "discarding"
      BY <2>4, <3>1 DEF Inv, TgInv, TgTypeOK, TgCallState, TgLive
    <3> QED
      BY <2>1, <3>2, TgAssumption DEF Leg, Accounted, TgLive
  <2> QED
    BY <2>3, <2>4
<1>3. CASE Advances(c)
  <2>1. Waits(c)
    BY <1>3 DEF Advances, TalksFromTg, AnswersSip, Accepting, TalksFromSip,
                DialsSip,
                Accepted, HandlerInv, Waits, Exists
  <2>2. bridges'[c].tg_call_id = bridges[c].tg_call_id
    BY <1>0, <1>3 DEF Advances, TalksFromTg, AnswersSip, Accepting,
                      TalksFromSip,
                      DialsSip, Accepted, Sets, Bridge
  <2>3. Kept(c)
    BY <1>3, Bystander
  <2> QED
    BY <1>w, <2>1, <2>2, <2>3, LegKept
<1>4. CASE DialsTg(c)
  <2>1. CASE Reports(c)
    BY <2>1, ErrorPushed DEF Leg
  <2>2. CASE UNCHANGED bridges
    BY <1>4, <2>2 DEF DialsTg, Waits
  <2> QED
    BY <1>4, <2>1, <2>2 DEF DialsTg
<1>5. CASE Created(c)
  <2>1. CASE Reports(c)
    BY <2>1, ErrorPushed DEF Leg
  <2>2. ASSUME NEW r \in TgOut, CreateCall(r),
               Sets(c, [bridges[c] EXCEPT !.state = "wait_tg",
                                          !.tg_call_id = r])
        PROVE  Leg(c)'
    <3>1. bridges'[c].tg_call_id = r /\ r # NoTg
      BY <1>0, <2>2, TgAssumption DEF Sets, Bridge
    <3>2. tg_call'[r] = "pending"
      BY <2>2 DEF CreateCall, TgMove, Inv, TgInv, TgTypeOK
    <3> QED
      BY <3>1, <3>2 DEF Leg, Accounted, TgLive
  <2> QED
    BY <1>5, <2>1, <2>2 DEF Created
<1> QED
  BY <1>1, <1>a, <1>b, <1>c, <1>2, <1>3, <1>4, <1>5 DEF Effect, Advances

(* Every step keeps the Telegram legs accounted for. *)
LEMMA TgLegStep ==
    ASSUME Inv, ShapeInv, HandlerInv, TgQueueInv, TgLegAccounted, [Next]_vars
    PROVE  TgLegAccounted'
<1> SUFFICES ASSUME NEW d \in Ctx, Waits(d)' PROVE Leg(d)'
  BY DEF TgLegAccounted, Waits, Leg, Accounted
<1>w. Waits(d) => Leg(d)
  BY DEF TgLegAccounted, Waits, Leg, Accounted
<1>1. CASE Idle
  <2>1. Kept(d)
    BY <1>1 DEF Idle, TgSame, Silent, Kept, Spares, ErrorQueued
  <2> QED
    BY <1>1, <1>w, <2>1, LegKept DEF Idle, Waits, Exists
<1>2. CASE TgMoves
  <2>1. \A t : Spares(t)
    BY <1>2 DEF TgMoves, Spares
  <2>2. Kept(d)
    BY <1>2, <2>1 DEF TgMoves, Silent, Kept, ErrorQueued
  <2> QED
    BY <1>2, <1>w, <2>2, LegKept DEF TgMoves, Waits, Exists
<1>3. CASE TgIgnores
  <2>1. Head(tg_events) # UpdateCall(bridges[d].tg_call_id, "Ended")
    BY <1>3 DEF TgIgnores, UpdateCall
  <2>2. Kept(d)
    BY <1>3, <2>1 DEF TgIgnores, Silent, Kept, ErrorQueued, Spares
  <2> QED
    BY <1>3, <1>w, <2>2, LegKept DEF TgIgnores, Waits, Exists
<1>4. ASSUME NEW c \in Ctx, Effect(c) PROVE Leg(d)'
  <2>1. CASE d = c
    BY <1>4, <2>1, OwnLeg
  <2>2. CASE d # c
    <3>1. Kept(d) /\ bridges'[d] = bridges[d]
      BY <1>4, <2>2, Bystander, OthersStay
    <3> QED
      BY <1>w, <3>1, LegKept DEF Waits, Exists
  <2> QED
    BY <2>1, <2>2
<1> QED
  BY <1>1, <1>2, <1>3, <1>4, StepEffect

-----------------------------------------------------------------------------
(* A conversation that is on went through BridgeAudio. *)

(* Every step keeps that. *)
LEMMA TalkStep ==
    ASSUME Inv, ShapeInv, HandlerInv, TgQueueInv, TalkingWasWired, [Next]_vars
    PROVE  TalkingWasWired'
<1> SUFFICES ASSUME NEW d \in Ctx, bridges'[d].state = "wait_dtmf"
             PROVE  \/ ErrorQueued(d)'
                    \/ bridges'[d].controller /\ bridges'[d].wired
  BY DEF TalkingWasWired
<1>0. bridges[d] \in Bridge
  BY DEF Inv, BridgeInv
<1>1. CASE /\ bridges'[d] = bridges[d]
           /\ ErrorQueued(d) => ErrorQueued(d)'
  BY <1>1 DEF TalkingWasWired
<1>2. CASE Idle \/ TgMoves \/ TgIgnores
  BY <1>1, <1>2 DEF Idle, TgMoves, TgIgnores, Silent, ErrorQueued
<1>3. ASSUME NEW c \in Ctx, Effect(c), d # c
      PROVE  \/ ErrorQueued(d)'
             \/ bridges'[d].controller /\ bridges'[d].wired
  <2>1. Kept(d) /\ bridges'[d] = bridges[d]
    BY <1>3, Bystander, OthersStay
  <2> QED
    BY <1>1, <2>1 DEF Kept
<1>4. CASE TalksFromTg(d)
  <2>1. CASE Reports(d)
    BY <2>1, ErrorPushed
  <2>2. CASE ~Reports(d)
    BY <1>0, <1>4, <2>2 DEF TalksFromTg, Sets, Bridge
  <2> QED
    BY <2>1, <2>2
<1>5. CASE TalksFromSip(d)
  <2>1. CASE Reports(d)
    BY <2>1, ErrorPushed
  <2>2. CASE ~Reports(d)
    BY <1>0, <1>5, <2>2 DEF TalksFromSip, Sets, Bridge, ShapeInv, BridgeOK
  <2> QED
    BY <2>1, <2>2
<1>6. CASE HungUp(d)
  BY <1>6, CleanedState DEF HungUp
<1>a. CASE Ends(d) \/ Discarded(d)
  <2>1. bridges'[d] = NoBridge
    BY <1>a DEF Ends, Discarded, Sets
  <2> QED
    BY <2>1 DEF NoBridge
<1>b. CASE Rings(d) \/ Invited(d)
  BY <1>b DEF Rings, Invited, Sets, NoBridge
<1>c. CASE \/ AnswersSip(d) \/ Accepting(d) \/ DialsTg(d)
           \/ DialsSip(d) \/ Accepted(d) \/ Created(d)
  BY <1>0, <1>c DEF AnswersSip, Accepting, DialsTg, DialsSip, Accepted,
                    Created, Sets, Bridge
<1>7. CASE Fails(d)
  <2>1. CASE ~Exists(d)
    <3>1. bridges'[d] = NoBridge
      BY <1>7, <2>1 DEF Fails, ShapeInv, BridgeOK, Exists
    <3> QED
      BY <3>1 DEF NoBridge
  <2>2. CASE Exists(d)
    BY <1>7, <2>2, CleanedState DEF Fails
  <2> QED
    BY <2>1, <2>2
<1> QED
  BY <1>2, <1>3, <1>4, <1>5, <1>6, <1>a, <1>b, <1>c, <1>7,
     StepEffect DEF Effect

-----------------------------------------------------------------------------
(* The slots of the call table. *)

(* The invitations in q are those of the queue from its k-th on. *)
From(q, k) == \A n \in 1 .. Len(q) :
                 q[n].type = "IncomingCall" =>
                     n + k \in 1 .. Len(sip_events) /\ q[n] = sip_events[n + k]

(* The queue, and the queue after a pop, hold no new invitation. *)
LEMMA FromQueue ==
    ASSUME Inv
    PROVE  /\ sip_events \in Seq(SipEvent) /\ From(sip_events, 0)
           /\ sip_events # << >> =>
                 /\ Tail(sip_events) \in Seq(SipEvent)
                 /\ From(Tail(sip_events), 1)
<1>1. sip_events \in Seq(SipEvent)
  BY DEF Inv, SipTypeOK
<1>2. From(sip_events, 0)
  BY <1>1 DEF From
<1>3. ASSUME sip_events # << >>
      PROVE  Tail(sip_events) \in Seq(SipEvent) /\ From(Tail(sip_events), 1)
  BY <1>1, <1>3, PopKeeps DEF From
<1> QED
  BY <1>1, <1>2, <1>3

(* Nor do they after a push of another event. *)
LEMMA FromPush ==
    ASSUME Inv, NEW k \in {0, 1}, NEW q \in Seq(SipEvent), From(q, k), NEW e,
           e.type # "IncomingCall"
    PROVE  From(Append(q, e), k)
<1>1. \A n \in 1 .. Len(Append(q, e)) :
         \/ n \in 1 .. Len(q) /\ Append(q, e)[n] = q[n]
         \/ Append(q, e)[n] = e
  BY PushKeeps
<1> QED
  BY <1>1 DEF From

(* Events name slots. *)
LEMMA EventIds ==
    ASSUME SipTypeOK
    PROVE  \A n \in 1 .. Len(sip_events) : sip_events[n].id \in SipId
<1>1. \A n \in 1 .. Len(sip_events) : sip_events[n] \in SipEvent
  BY DEF SipTypeOK
<1> QED
  BY <1>1 DEF SipEvent

(* The parts of SlotInv. *)
Slots == \A i \in SipId : calls[i] = "live" <=> Alive(i)
LegRefers ==
    \A c \in Ctx : bridges[c].sip_call_id # InvalidId =>
        calls[bridges[c].sip_call_id] # "none"
EventRefers ==
    \A n \in 1 .. Len(sip_events) :
        IsIncoming(n) => calls[sip_events[n].id] # "none"
OneLeg ==
    \A c, d \in Ctx :
        /\ bridges[c].sip_call_id # InvalidId
        /\ bridges[d].sip_call_id = bridges[c].sip_call_id
        /\ calls[bridges[c].sip_call_id] = "live"
        => c = d
OneEvent ==
    \A m, n \in 1 .. Len(sip_events) :
        /\ IsIncoming(m) /\ IsIncoming(n)
        /\ sip_events[m].id = sip_events[n].id
        /\ calls[sip_events[n].id] = "live"
        => m = n
LegOrEvent ==
    \A c \in Ctx : \A n \in 1 .. Len(sip_events) :
        IsIncoming(n) /\ sip_events[n].id = bridges[c].sip_call_id
        => calls[sip_events[n].id] # "live"

(* SlotInv part by part. *)
LEMMA SlotParts ==
    /\ SlotInv <=> /\ Slots /\ LegRefers /\ EventRefers
                   /\ OneLeg /\ OneEvent /\ LegOrEvent
    /\ SlotInv' <=> /\ Slots' /\ LegRefers' /\ EventRefers'
                    /\ OneLeg' /\ OneEvent' /\ LegOrEvent'
  BY DEF SlotInv, Slots, LegRefers, EventRefers, OneLeg, OneEvent, LegOrEvent

(* SIP legs name slots, or none. *)
LEMMA LegIds ==
    ASSUME BridgeInv
    PROVE  \A c \in Ctx : bridges[c].sip_call_id \in SipId \cup {InvalidId}
  BY DEF BridgeInv, Bridge

(* What the old references say of a queue without new invitations. *)
LEMMA FromFacts ==
    ASSUME Inv, SlotInv, NEW k \in {0, 1}, From(sip_events', k)
    PROVE  /\ \A n \in 1 .. Len(sip_events') : IsIncoming(n)' =>
                 /\ sip_events'[n].id \in SipId
                 /\ calls[sip_events'[n].id] # "none"
                 /\ \A c \in Ctx : bridges[c].sip_call_id = sip_events'[n].id
                       => calls[sip_events'[n].id] # "live"
           /\ \A m, n \in 1 .. Len(sip_events') :
                 /\ IsIncoming(m)' /\ IsIncoming(n)'
                 /\ sip_events'[m].id = sip_events'[n].id
                 /\ calls[sip_events'[n].id] = "live"
                 => m = n
<1>0. \A n \in 1 .. Len(sip_events) : sip_events[n].id \in SipId
  BY EventIds DEF Inv
<1>p. EventRefers /\ OneEvent /\ LegOrEvent
  BY SlotParts
<1>1. ASSUME NEW n \in 1 .. Len(sip_events'), IsIncoming(n)'
      PROVE  \E m \in 1 .. Len(sip_events) :
                /\ m = n + k /\ IsIncoming(m)
                /\ sip_events'[n].id = sip_events[m].id
  BY <1>1 DEF From, IsIncoming
<1>2. ASSUME NEW n \in 1 .. Len(sip_events'), IsIncoming(n)'
      PROVE  /\ sip_events'[n].id \in SipId
             /\ calls[sip_events'[n].id] # "none"
             /\ \A c \in Ctx : bridges[c].sip_call_id = sip_events'[n].id
                   => calls[sip_events'[n].id] # "live"
  <2>1. PICK m \in 1 .. Len(sip_events) :
           IsIncoming(m) /\ sip_events'[n].id = sip_events[m].id
    BY <1>1, <1>2
  <2> QED
    BY <1>0, <1>p, <2>1 DEF EventRefers, LegOrEvent
<1>3. ASSUME NEW m \in 1 .. Len(sip_events'), NEW n \in 1 .. Len(sip_events'),
             IsIncoming(m)', IsIncoming(n)',
             sip_events'[m].id = sip_events'[n].id,
             calls[sip_events'[n].id] = "live"
      PROVE  m = n
  <2>1. PICK x \in 1 .. Len(sip_events) :
           x = m + k /\ IsIncoming(x) /\ sip_events'[m].id = sip_events[x].id
    BY <1>1, <1>3
  <2>2. PICK y \in 1 .. Len(sip_events) :
           y = n + k /\ IsIncoming(y) /\ sip_events'[n].id = sip_events[y].id
    BY <1>1, <1>3
  <2>3. x = y
    BY <1>3, <1>p, <2>1, <2>2 DEF OneEvent
  <2> QED
    BY <2>1, <2>2, <2>3
<1> QED
  BY <1>2, <1>3

(* A step that makes no new reference and erases no entry. *)
Quiet == /\ Slots'
         /\ \A i \in SipId : \/ calls'[i] = calls[i]
                             \/ calls[i] = "live" /\ calls'[i] = "stale"
LegsStay == \A c \in Ctx : bridges'[c].sip_call_id
                               \in {bridges[c].sip_call_id, InvalidId}

(* A quiet step keeps the slots. *)
LEMMA SlotQuiet ==
    ASSUME Inv, SlotInv, NEW k \in {0, 1}, From(sip_events', k), Quiet,
           LegsStay
    PROVE  SlotInv'
<1>0. \A c \in Ctx : bridges[c].sip_call_id \in SipId \cup {InvalidId}
  BY LegIds DEF Inv
<1>1. /\ \A n \in 1 .. Len(sip_events') : IsIncoming(n)' =>
            /\ sip_events'[n].id \in SipId
            /\ calls[sip_events'[n].id] # "none"
            /\ \A d \in Ctx : bridges[d].sip_call_id = sip_events'[n].id
                  => calls[sip_events'[n].id] # "live"
      /\ \A m, n \in 1 .. Len(sip_events') :
            /\ IsIncoming(m)' /\ IsIncoming(n)'
            /\ sip_events'[m].id = sip_events'[n].id
            /\ calls[sip_events'[n].id] = "live"
            => m = n
  BY FromFacts
<1>2. \A i \in SipId : /\ calls[i] # "none" => calls'[i] # "none"
                       /\ calls'[i] = "live" => calls[i] = "live"
  BY DEF Quiet
<1>p. /\ LegRefers /\ EventRefers /\ OneLeg /\ OneEvent /\ LegOrEvent
  BY SlotParts
<1>3. LegRefers'
  BY <1>0, <1>2, <1>p DEF LegRefers, LegsStay
<1>4. EventRefers'
  BY <1>0, <1>1, <1>2, <1>p DEF EventRefers
<1>5. OneLeg'
  BY <1>0, <1>2, <1>p DEF OneLeg, LegsStay
<1>6. OneEvent'
  BY <1>0, <1>1, <1>2, <1>p DEF OneEvent
<1>7. LegOrEvent'
  BY <1>0, <1>1, <1>2, <1>p DEF LegOrEvent, LegsStay
<1> QED
  BY <1>3, <1>4, <1>5, <1>6, <1>7, SlotParts DEF Quiet

(* A context takes a slot: a free one that nothing refers to, one that the *)
(* call of an earlier bridge left behind, or that of a queued invitation.  *)
LEMMA SlotTaken ==
    ASSUME Inv, SlotInv, NEW k \in {0, 1}, From(sip_events', k), Slots',
           NEW c \in Ctx, NEW i \in SipId, bridges'[c].sip_call_id = i,
           \A d \in Ctx \ {c} :
               bridges'[d].sip_call_id = bridges[d].sip_call_id,
           \A j \in SipId \ {i} : calls'[j] = calls[j],
           \/ calls[i] = "stale" /\ calls'[i] = "stale"
           \/ calls[i] = "none" /\ calls'[i] = "live"
           \/ /\ calls'[i] = calls[i] /\ k = 1 /\ 1 \in 1 .. Len(sip_events)
              /\ IsIncoming(1) /\ sip_events[1].id = i
    PROVE  SlotInv'
<1>0. \A d \in Ctx : bridges[d].sip_call_id \in SipId \cup {InvalidId}
  BY LegIds DEF Inv
<1>1. /\ \A n \in 1 .. Len(sip_events') : IsIncoming(n)' =>
            /\ sip_events'[n].id \in SipId
            /\ calls[sip_events'[n].id] # "none"
            /\ \A d \in Ctx : bridges[d].sip_call_id = sip_events'[n].id
                  => calls[sip_events'[n].id] # "live"
      /\ \A m, n \in 1 .. Len(sip_events') :
            /\ IsIncoming(m)' /\ IsIncoming(n)'
            /\ sip_events'[m].id = sip_events'[n].id
            /\ calls[sip_events'[n].id] = "live"
            => m = n
  BY FromFacts
<1>p. /\ LegRefers /\ EventRefers /\ OneLeg /\ OneEvent /\ LegOrEvent
  BY SlotParts
<1>2. ASSUME calls'[i] = "live"
      PROVE  /\ \A d \in Ctx : bridges[d].sip_call_id # i
             /\ \A n \in 1 .. Len(sip_events') :
                   IsIncoming(n)' => sip_events'[n].id # i
  <2>1. CASE calls[i] = "none"
    BY <1>0, <1>1, <1>p, <2>1 DEF LegRefers, EventRefers
  <2>2. CASE /\ calls'[i] = calls[i] /\ k = 1 /\ 1 \in 1 .. Len(sip_events)
             /\ IsIncoming(1) /\ sip_events[1].id = i
    <3>1. \A d \in Ctx : bridges[d].sip_call_id # i
      BY <1>2, <1>p, <2>2 DEF LegOrEvent
    <3>2. ASSUME NEW n \in 1 .. Len(sip_events'), IsIncoming(n)'
          PROVE  sip_events'[n].id # i
      <4>1. PICK m \in 1 .. Len(sip_events) :
               /\ m # 1 /\ IsIncoming(m)
               /\ sip_events'[n].id = sip_events[m].id
        BY <2>2, <3>2 DEF From, IsIncoming
      <4> QED
        BY <1>2, <1>p, <2>2, <4>1 DEF OneEvent
    <3> QED
      BY <3>1, <3>2
  <2> QED
    BY <1>2, <2>1, <2>2
<1>3. calls'[i] # "none"
  BY <1>p DEF EventRefers
<1>4. LegRefers'
  BY <1>0, <1>3, <1>p DEF LegRefers
<1>5. EventRefers'
  BY <1>0, <1>1, <1>3, <1>p DEF EventRefers
<1>6. OneLeg'
  BY <1>0, <1>2, <1>p DEF OneLeg
<1>7. OneEvent'
  BY <1>0, <1>1, <1>2, <1>p DEF OneEvent
<1>8. LegOrEvent'
  BY <1>0, <1>1, <1>2, <1>p DEF LegOrEvent
<1> QED
  BY <1>4, <1>5, <1>6, <1>7, <1>8, SlotParts

(* A bridge is removed and the live call of its slot hung up. *)
LEMMA SlotFreed ==
    ASSUME Inv, SlotInv, NEW k \in {0, 1}, From(sip_events', k), Slots',
           NEW c \in Ctx, NEW i \in SipId, bridges[c].sip_call_id = i,
           calls[i] = "live", bridges'[c].sip_call_id = InvalidId,
           \A d \in Ctx \ {c} :
               bridges'[d].sip_call_id = bridges[d].sip_call_id,
           \A j \in SipId \ {i} : calls'[j] = calls[j], calls'[i] = "none"
    PROVE  SlotInv'
<1>0. \A d \in Ctx : bridges[d].sip_call_id \in SipId \cup {InvalidId}
  BY LegIds DEF Inv
<1>1. /\ \A n \in 1 .. Len(sip_events') : IsIncoming(n)' =>
            /\ sip_events'[n].id \in SipId
            /\ calls[sip_events'[n].id] # "none"
            /\ \A d \in Ctx : bridges[d].sip_call_id = sip_events'[n].id
                  => calls[sip_events'[n].id] # "live"
      /\ \A m, n \in 1 .. Len(sip_events') :
            /\ IsIncoming(m)' /\ IsIncoming(n)'
            /\ sip_events'[m].id = sip_events'[n].id
            /\ calls[sip_events'[n].id] = "live"
            => m = n
  BY FromFacts
<1>p. /\ LegRefers /\ EventRefers /\ OneLeg /\ OneEvent /\ LegOrEvent
  BY SlotParts
<1>2. /\ \A d \in Ctx : d # c => bridges[d].sip_call_id # i
      /\ \A n \in 1 .. Len(sip_events') :
            IsIncoming(n)' => sip_events'[n].id # i
  BY <1>1, <1>p DEF OneLeg, LegOrEvent
<1>3. LegRefers'
  BY <1>0, <1>2, <1>p DEF LegRefers
<1>4. EventRefers'
  BY <1>0, <1>1, <1>2, <1>p DEF EventRefers
<1>5. OneLeg'
  BY <1>0, <1>2, <1>p DEF OneLeg
<1>6. OneEvent'
  BY <1>0, <1>1, <1>2, <1>p DEF OneEvent
<1>7. LegOrEvent'
  BY <1>0, <1>1, <1>2, <1>p DEF LegOrEvent
<1> QED
  BY <1>3, <1>4, <1>5, <1>6, <1>7, SlotParts

(* An invitation arrives in a slot. *)
LEMMA SlotInvited ==
    ASSUME Inv, SlotInv, Slots', NEW i \in SipId,
           UNCHANGED bridges, \A j \in SipId \ {i} : calls'[j] = calls[j],
           \/ calls[i] = "stale" /\ calls'[i] = "stale"
           \/ calls[i] = "none" /\ calls'[i] = "live",
           NEW ext, sip_events' = Append(sip_events, IncomingCall(i, ext))
    PROVE  SlotInv'
<1>0. /\ \A d \in Ctx : bridges[d].sip_call_id \in SipId \cup {InvalidId}
      /\ \A n \in 1 .. Len(sip_events) : sip_events[n].id \in SipId
  BY LegIds, EventIds DEF Inv
<1>1. PICK l : l = Len(sip_events) + 1
  OBVIOUS
<1>2. /\ sip_events'[l].id = i
      /\ \A n \in 1 .. Len(sip_events') :
            \/ n = l
            \/ /\ n \in 1 .. Len(sip_events) /\ sip_events'[n] = sip_events[n]
  BY <1>1, PushKeeps DEF Inv, SipTypeOK, IncomingCall
<1>p. /\ LegRefers /\ EventRefers /\ OneLeg /\ OneEvent /\ LegOrEvent
  BY SlotParts
<1>3. ASSUME calls'[i] = "live"
      PROVE  /\ \A d \in Ctx : bridges[d].sip_call_id # i
             /\ \A n \in 1 .. Len(sip_events) :
                   IsIncoming(n) => sip_events[n].id # i
  BY <1>3, <1>p DEF LegRefers, EventRefers
<1>4. /\ calls'[i] # "none"
      /\ \A j \in SipId : calls[j] # "none" => calls'[j] # "none"
  OBVIOUS
<1>5. ASSUME NEW n \in 1 .. Len(sip_events'), IsIncoming(n)', n # l
      PROVE  /\ n \in 1 .. Len(sip_events) /\ IsIncoming(n)
             /\ sip_events'[n].id = sip_events[n].id
  BY <1>2, <1>5 DEF IsIncoming
<1>6. LegRefers'
  BY <1>0, <1>4, <1>p DEF LegRefers
<1>7. EventRefers'
  BY <1>0, <1>2, <1>4, <1>5, <1>p DEF EventRefers
<1>8. OneLeg'
  BY <1>0, <1>3, <1>p DEF OneLeg
<1>9. OneEvent'
  BY <1>0, <1>2, <1>3, <1>5, <1>p DEF OneEvent
<1>10. LegOrEvent'
  BY <1>0, <1>2, <1>3, <1>5, <1>p DEF LegOrEvent
<1> QED
  BY <1>6, <1>7, <1>8, <1>9, <1>10, SlotParts

(* A step that leaves the table alone is quiet. *)
LEMMA QuietSkip ==
    ASSUME SlotInv, UNCHANGED <<calls, inv>>
    PROVE  Quiet
  BY SlotParts DEF Quiet, Slots, Alive

(* So is Client::Answer, which only finds live calls. *)
LEMMA QuietAnswer ==
    ASSUME Inv, SlotInv, NEW q, NEW i \in SipId \cup {InvalidId},
           AnswerRinging(q, i) \/ AnswerOK(q, i)
    PROVE  Quiet
<1>1. i \in SipId /\ calls[i] = "live" /\ UNCHANGED calls
  BY DEF AnswerRinging, AnswerOK, CanAnswer
<1>2. inv'[i] # "NULL" /\ \A j \in SipId \ {i} : inv'[j] = inv[j]
  BY <1>1 DEF AnswerRinging, AnswerOK, Inv, SipTypeOK
<1> QED
  BY <1>1, <1>2, SlotParts DEF Quiet, Slots, Alive

(* calls.emplace: the slot was free. *)
LEMMA EmplaceDoes ==
    ASSUME Inv, SlotInv, NEW i \in SipId, IsNextSlot(i), NEW s, s # "NULL",
           NEW r, Emplace(i, s, r)
    PROVE  /\ Slots' /\ \A j \in SipId \ {i} : calls'[j] = calls[j]
           /\ \/ calls[i] = "stale" /\ calls'[i] = "stale"
              \/ calls[i] = "none" /\ calls'[i] = "live"
<1>1. calls[i] \in {"none", "stale"}
  BY SlotParts DEF Slots, Alive, IsNextSlot, FreeSlots, Inv, SipTypeOK
<1>2. CASE calls[i] = "none"
  <2>1. /\ calls'[i] = "live" /\ inv'[i] # "NULL"
        /\ \A j \in SipId \ {i} : calls'[j] = calls[j] /\ inv'[j] = inv[j]
    BY <1>2 DEF Emplace, Inv, SipTypeOK
  <2> QED
    BY <1>2, <2>1, SlotParts DEF Slots, Alive
<1>3. CASE calls[i] = "stale"
  BY <1>3, SlotParts DEF Emplace, Slots, Alive
<1> QED
  BY <1>1, <1>2, <1>3

(* The callbacks. *)
LEMMA CallbackSlots ==
    ASSUME Inv, SlotInv, SipRemote, UNCHANGED bridges
    PROVE  SlotInv'
<1> USE DEF LegsStay
<1>0. PICK i \in SipId :
         \/ OnIncomingCall(i) \/ OnEarly(i) \/ OnConfirmed(i)
         \/ OnDisconnected(i) \/ \E m \in MediaState : OnMediaState(i, m)
  BY DEF SipRemote
<1>1. CASE OnIncomingCall(i)
  <2>1. PICK ext : sip_events' = Append(sip_events, IncomingCall(i, ext))
    BY <1>1 DEF OnIncomingCall
  <2>2. /\ Slots' /\ \A j \in SipId \ {i} : calls'[j] = calls[j]
        /\ \/ calls[i] = "stale" /\ calls'[i] = "stale"
           \/ calls[i] = "none" /\ calls'[i] = "live"
    BY <1>1, EmplaceDoes DEF OnIncomingCall
  <2> QED
    BY <2>1, <2>2, SlotInvited
<1>2. ASSUME NEW e, e.type # "IncomingCall",
             sip_events' = Append(sip_events, e), Quiet
      PROVE  SlotInv'
  <2>1. From(sip_events', 0)
    BY <1>2, FromQueue, FromPush
  <2> QED
    BY <1>2, <2>1, SlotQuiet
<1>3. CASE OnEarly(i) \/ OnConfirmed(i)
  <2>1. /\ inv[i] # "NULL" /\ inv'[i] # "NULL" /\ UNCHANGED calls
        /\ \A j \in SipId \ {i} : inv'[j] = inv[j]
    BY <1>3 DEF OnEarly, OnConfirmed, Inv, SipTypeOK
  <2>2. Quiet
    BY <2>1, SlotParts DEF Quiet, Slots, Alive
  <2>3. PICK s : sip_events' = Append(sip_events, CallStateUpdate(i, s))
    BY <1>3 DEF OnEarly, OnConfirmed
  <2>4. CallStateUpdate(i, s).type # "IncomingCall"
    BY DEF CallStateUpdate
  <2> QED
    BY <1>2, <2>2, <2>3, <2>4
<1>4. CASE OnDisconnected(i)
  <2>1. /\ calls[i] = "live" /\ calls'[i] = "stale" /\ inv'[i] = "NULL"
        /\ \A j \in SipId \ {i} : inv'[j] = inv[j] /\ calls'[j] = calls[j]
    BY <1>4, SlotParts DEF OnDisconnected, Slots, Inv, SipTypeOK
  <2>2. Quiet
    BY <2>1, SlotParts DEF Quiet, Slots, Alive
  <2>3. /\ sip_events' =
              Append(sip_events, CallStateUpdate(i, "DISCONNECTED"))
        /\ CallStateUpdate(i, "DISCONNECTED").type # "IncomingCall"
    BY <1>4 DEF OnDisconnected, CallStateUpdate
  <2> QED
    BY <1>2, <2>2, <2>3
<1>5. ASSUME NEW m \in MediaState, OnMediaState(i, m) PROVE SlotInv'
  <2>1. /\ sip_events' = Append(sip_events, CallMediaStateUpdate(i, m))
        /\ CallMediaStateUpdate(i, m).type # "IncomingCall"
        /\ UNCHANGED <<calls, inv>>
    BY <1>5 DEF OnMediaState, CallMediaStateUpdate
  <2> QED
    BY <1>2, <2>1, QuietSkip
<1> QED
  BY <1>0, <1>1, <1>3, <1>4, <1>5

(* A handler that calls no method, and one that answers. *)
LEMMA SkipSlots ==
    ASSUME Inv, SlotInv, LegsStay, UNCHANGED <<calls, inv>>,
           \/ UNCHANGED sip_events
           \/ sip_events # << >> /\ sip_events' = Tail(sip_events)
    PROVE  SlotInv'
<1>1. PICK k \in {0, 1} : From(sip_events', k)
  BY FromQueue
<1> QED
  BY <1>1, QuietSkip, SlotQuiet

(* Answering with 200 keeps the slots. *)
LEMMA AnswerSlots ==
    ASSUME Inv, SlotInv, LegsStay, NEW i \in SipId \cup {InvalidId},
           AnswerOK(sip_events, i)
    PROVE  SlotInv'
<1>1. Quiet
  BY QuietAnswer
<1>2. sip_events' = Append(sip_events, CallStateUpdate(i, "CONFIRMED"))
  BY DEF AnswerOK
<1>3. CallStateUpdate(i, "CONFIRMED").type # "IncomingCall"
  BY DEF CallStateUpdate
<1>4. From(sip_events', 0)
  BY <1>2, <1>3, FromQueue, FromPush
<1> QED
  BY <1>1, <1>4, SlotQuiet

(* A bridge is removed and its SIP leg hung up, if it has one. *)
LEMMA HangupSlots ==
    ASSUME Inv, SlotInv, NEW c \in Ctx,
           NEW i \in SipId \cup {InvalidId}, NEW q,
           \/ q = sip_events
           \/ sip_events # << >> /\ q = Tail(sip_events),
           Hangup(q, i), i \in {bridges[c].sip_call_id, InvalidId},
           bridges' = [bridges EXCEPT ![c] = NoBridge]
    PROVE  SlotInv'
<1>0. PICK k \in {0, 1} : From(q, k) /\ q \in Seq(SipEvent)
  BY FromQueue
<1>1. /\ bridges'[c].sip_call_id = InvalidId
      /\ \A d \in Ctx \ {c} : bridges'[d] = bridges[d]
  BY DEF Inv, BridgeInv, NoBridge
<1>2. CASE i # InvalidId /\ calls[i] = "live"
  <2>1. /\ i \in SipId /\ i = bridges[c].sip_call_id
        /\ calls'[i] = "none" /\ inv'[i] = "NULL"
        /\ \A j \in SipId \ {i} : calls'[j] = calls[j] /\ inv'[j] = inv[j]
    BY <1>2 DEF Hangup, Inv, SipTypeOK
  <2>2. Slots'
    BY <2>1, SlotParts DEF Slots, Alive
  <2>3. From(sip_events', k)
    <3>1. CallStateUpdate(i, "DISCONNECTED").type # "IncomingCall"
      BY DEF CallStateUpdate
    <3>2. \/ sip_events' = q
          \/ sip_events' = Append(q, CallStateUpdate(i, "DISCONNECTED"))
      BY <1>2 DEF Hangup
    <3> QED
      BY <1>0, <3>1, <3>2, FromPush
  <2> QED
    BY <1>1, <1>2, <2>1, <2>2, <2>3, SlotFreed
<1>3. CASE ~(i # InvalidId /\ calls[i] = "live")
  <2>1. UNCHANGED <<calls, inv>> /\ sip_events' = q
    BY <1>3 DEF Hangup, SipSkip
  <2>2. LegsStay
    BY <1>1 DEF LegsStay
  <2> QED
    BY <2>1, <2>2, SkipSlots
<1> QED
  BY <1>2, <1>3

(* CleanUp keeps the slots, with or without legs. *)
LEMMA CleanUpSlots ==
    ASSUME Inv, SlotInv, NEW c \in Ctx, NEW b \in Bridge, NEW q,
           \/ q = sip_events
           \/ sip_events # << >> /\ q = Tail(sip_events),
           CleanUp(c, b, q),
           b.sip_call_id \in {bridges[c].sip_call_id, InvalidId}
    PROVE  SlotInv'
<1>1. CASE b.tg_call_id # NoTg
  <2>1. /\ bridges' = [bridges EXCEPT ![c] =
                         [b EXCEPT !.state = "X", !.controller = FALSE,
                                   !.wired = FALSE]]
        /\ SipSkip(q)
    BY <1>1 DEF CleanUp
  <2>2. bridges'[c].sip_call_id = b.sip_call_id
    BY <2>1 DEF Inv, BridgeInv, Bridge
  <2>3. LegsStay
    BY <2>1, <2>2 DEF LegsStay, Inv, BridgeInv
  <2> QED
    BY <2>1, <2>3, SkipSlots DEF SipSkip
<1>2. CASE b.tg_call_id = NoTg
  <2>1. b.sip_call_id \in SipId \cup {InvalidId}
    BY DEF Bridge
  <2> QED
    BY <1>2, <2>1, HangupSlots DEF CleanUp
<1> QED
  BY <1>1, <1>2

(* The SIP ids of the bridges when one of them is replaced. *)
LEMMA SetLegs ==
    ASSUME Inv, NEW c \in Ctx, NEW b, Sets(c, b),
           b.sip_call_id \in {bridges[c].sip_call_id, InvalidId}
    PROVE  LegsStay
  BY DEF Sets, LegsStay

(* Every handler keeps the slots, up to its first wait. *)
LEMMA LoopSlots == ASSUME Inv, HandlerInv, SlotInv, Loop PROVE SlotInv'
<1>0. bridges \in [Ctx -> Bridge] /\ \A c \in Ctx : bridges[c] \in Bridge
  BY DEF Inv, BridgeInv
<1>1. ASSUME UNCHANGED bridges, UNCHANGED <<calls, inv>>,
             \/ UNCHANGED sip_events
             \/ sip_events # << >> /\ sip_events' = Tail(sip_events)
      PROVE  SlotInv'
  BY <1>1, SkipSlots DEF LegsStay
<1>2. CASE \/ Exit \/ NoInternalEvent \/ NoTgEvent \/ NoSipEvent
           \/ StrayUpdate \/ \E c \in Ctx : TgIgnored(c)
  BY <1>1, <1>2 DEF Exit, NoInternalEvent, NoTgEvent, NoSipEvent,
                    StrayUpdate, TgIgnored, sipVars
<1>3. CASE InternalError
  <2>1. PICK c \in Ctx : c = Head(internal_events)
    BY <1>3, HeadTail DEF InternalError, TickStart, Inv, LoopType
  <2>2. CASE Exists(c)
    <3>1. CleanUp(c, bridges[c], sip_events)
      BY <1>3, <2>1, <2>2 DEF InternalError
    <3> QED
      BY <1>0, <3>1, CleanUpSlots
  <2>3. CASE ~Exists(c)
    BY <1>1, <1>3, <2>1, <2>3 DEF InternalError, SipSkip
  <2> QED
    BY <2>2, <2>3
<1>4. CASE PendingDialSip \/ PendingReject
  <2>1. ASSUME NEW b, Create(b), b.sip_call_id = InvalidId PROVE LegsStay
    BY <2>1, Creates, SetLegs
  <2>2. \A t : /\ [NoBridge EXCEPT !.from = "tg", !.state = "init",
                                   !.tg_call_id = t].sip_call_id = InvalidId
              /\ [NoBridge EXCEPT !.from = "tg",
                                   !.tg_call_id = t].sip_call_id = InvalidId
    BY DEF NoBridge
  <2>3. LegsStay
    BY <1>4, <2>1, <2>2 DEF PendingDialSip, PendingReject
  <2> QED
    BY <1>4, <2>3, SkipSlots DEF PendingDialSip, PendingReject, sipVars
<1>5. ASSUME NEW c \in Ctx, ReadyFromTg(c) PROVE SlotInv'
  <2>1. PICK ok : bridges' = [bridges EXCEPT ![c].state = "wait_dtmf",
                                             ![c].controller = TRUE,
                                             ![c].wired = ok]
    BY <1>5 DEF ReadyFromTg
  <2>2. LegsStay
    BY <1>0, <2>1 DEF LegsStay, Bridge
  <2> QED
    BY <1>5, <2>2, SkipSlots DEF ReadyFromTg, sipVars
<1>6. ASSUME NEW c \in Ctx, ReadyFromSip(c) PROVE SlotInv'
  <2>1. bridges' = [bridges EXCEPT ![c].state = "sip_wait_media",
                                   ![c].controller = TRUE]
    BY <1>6 DEF ReadyFromSip
  <2>2. LegsStay
    BY <1>0, <2>1 DEF LegsStay, Bridge
  <2>3. bridges[c].sip_call_id \in SipId \cup {InvalidId}
    BY <1>0 DEF Bridge
  <2>4. CASE AnswerOK(sip_events, bridges[c].sip_call_id)
    BY <2>2, <2>3, <2>4, AnswerSlots
  <2>5. CASE SipSkip(sip_events)
    BY <2>2, <2>5, SkipSlots DEF SipSkip
  <2> QED
    BY <1>6, <2>4, <2>5 DEF ReadyFromSip
<1>7. ASSUME NEW c \in Ctx, TgEnded(c) PROVE SlotInv'
  <2>1. /\ [bridges[c] EXCEPT !.tg_call_id = NoTg] \in Bridge
        /\ [bridges[c] EXCEPT !.tg_call_id = NoTg].sip_call_id
               = bridges[c].sip_call_id
    BY <1>0 DEF Bridge
  <2>2. CleanUp(c, [bridges[c] EXCEPT !.tg_call_id = NoTg], sip_events)
    BY <1>7 DEF TgEnded
  <2> QED
    BY <2>1, <2>2, CleanUpSlots
<1>8. CASE AcceptIncomingSip
  <2>1. PICK i \in SipId :
           /\ i = Head(sip_events).id /\ sip_events # << >>
           /\ Head(sip_events).type = "IncomingCall"
    BY <1>8, PopSipFacts DEF AcceptIncomingSip, PopSip, Inv
  <2>2. Create([NoBridge EXCEPT !.from = "sip", !.state = "sip_wait_confirm",
                                !.sip_call_id = i])
    BY <1>8, <2>1 DEF AcceptIncomingSip
  <2>3. PICK c \in Ctx :
           Sets(c, [NoBridge EXCEPT !.from = "sip",
                                    !.state = "sip_wait_confirm",
                                    !.sip_call_id = i])
    BY <2>2, Creates
  <2>4. /\ bridges'[c].sip_call_id = i
        /\ \A d \in Ctx \ {c} :
              bridges'[d].sip_call_id = bridges[d].sip_call_id
    BY <2>3 DEF Sets, NoBridge
  <2>5. 1 \in 1 .. Len(sip_events) /\ IsIncoming(1) /\ sip_events[1].id = i
    BY <2>1, PopKeeps DEF Inv, SipTypeOK, IsIncoming
  <2>6. AnswerRinging(Tail(sip_events), i) \/ SipSkip(Tail(sip_events))
    BY <1>8, <2>1 DEF AcceptIncomingSip
  <2>7. Slots' /\ UNCHANGED calls
    BY <2>6, QuietAnswer, QuietSkip DEF Quiet, AnswerRinging, SipSkip
  <2>8. From(sip_events', 1)
    <3>1. CallStateUpdate(i, "EARLY").type # "IncomingCall"
      BY DEF CallStateUpdate
    <3>2. \/ sip_events' = Tail(sip_events)
          \/ sip_events' = Append(Tail(sip_events),
                                  CallStateUpdate(i, "EARLY"))
      BY <2>6 DEF AnswerRinging, SipSkip
    <3> QED
      BY <2>1, <3>1, <3>2, FromQueue, FromPush
  <2> QED
    BY <2>4, <2>5, <2>7, <2>8, SlotTaken
<1>9. ASSUME NEW c \in Ctx, SipDisconnected(c) PROVE SlotInv'
  <2>1. /\ [bridges[c] EXCEPT !.sip_call_id = InvalidId] \in Bridge
        /\ [bridges[c] EXCEPT !.sip_call_id = InvalidId].sip_call_id
               = InvalidId
    BY <1>0 DEF Bridge
  <2>2. /\ CleanUp(c, [bridges[c] EXCEPT !.sip_call_id = InvalidId],
                   Tail(sip_events))
        /\ sip_events # << >>
    BY <1>9 DEF SipDisconnected, PopSip
  <2> QED
    BY <2>1, <2>2, CleanUpSlots
<1>10. ASSUME NEW c \in Ctx, EarlyFromSip(c) PROVE SlotInv'
  <2>1. ASSUME bridges' = [bridges EXCEPT ![c].state = "wait_tg"]
        PROVE  LegsStay
    BY <1>0, <2>1 DEF LegsStay, Bridge
  <2>2. LegsStay
    BY <1>10, <2>1 DEF EarlyFromSip, LegsStay
  <2> QED
    BY <1>10, <2>2, SkipSlots DEF EarlyFromSip, PopSip, SipSkip
<1>11. ASSUME NEW c \in Ctx, MediaFromSip(c) PROVE SlotInv'
  <2>1. PICK ok : bridges' = [bridges EXCEPT ![c].state = "wait_dtmf",
                                             ![c].wired = ok]
    BY <1>11 DEF MediaFromSip
  <2>2. LegsStay
    BY <1>0, <2>1 DEF LegsStay, Bridge
  <2> QED
    BY <1>11, <2>2, SkipSlots DEF MediaFromSip, PopSip, SipSkip
<1>12. ASSUME NEW type, StraySipEvent(type) PROVE SlotInv'
  BY <1>1, <1>12 DEF StraySipEvent, PopSip, SipSkip
<1>13. ASSUME NEW c \in Ctx, MediaFromTg(c) \/ SipIgnored(c) PROVE SlotInv'
  BY <1>1, <1>13 DEF MediaFromTg, SipIgnored, PopSip, SipSkip
<1> QED
  BY <1>2, <1>3, <1>4, <1>5, <1>6, <1>7, <1>8, <1>9, <1>10, <1>11, <1>12,
     <1>13 DEF Loop

(* And after it. *)
LEMMA ResponseSlots == ASSUME Inv, SlotInv, Response PROVE SlotInv'
<1>0. bridges \in [Ctx -> Bridge] /\ \A c \in Ctx : bridges[c] \in Bridge
  BY DEF Inv, BridgeInv
<1>1. PICK c \in Ctx : c = query.ctx
  BY DEF Response, UserFound, UserFailed, CallAccepted, CallCreated,
         CallDiscarded, Answered, Inv, WaitInv
<1>2. CASE UserFound
  <2>1. ASSUME NEW i \in SipId, Dial(sip_events, i),
               bridges' = [bridges EXCEPT ![c].state = "sip_wait_media",
                                          ![c].sip_call_id = i]
        PROVE  SlotInv'
    <3>1. /\ bridges'[c].sip_call_id = i
          /\ \A d \in Ctx \ {c} :
                bridges'[d].sip_call_id = bridges[d].sip_call_id
      BY <1>0, <2>1 DEF Bridge
    <3>2. /\ Slots' /\ \A j \in SipId \ {i} : calls'[j] = calls[j]
          /\ \/ calls[i] = "stale" /\ calls'[i] = "stale"
             \/ calls[i] = "none" /\ calls'[i] = "live"
      BY <2>1, EmplaceDoes DEF Dial
    <3>3. From(sip_events', 0)
      BY <2>1, FromQueue DEF Dial
    <3> QED
      BY <3>1, <3>2, <3>3, SlotTaken
  <2>2. CASE /\ bridges' = [bridges EXCEPT ![c].state = "sip_wait_media"]
             /\ SipSkip(sip_events)
    <3>1. LegsStay
      BY <1>0, <2>2 DEF LegsStay, Bridge
    <3> QED
      BY <2>2, <3>1, SkipSlots DEF SipSkip
  <2> QED
    BY <1>1, <1>2, <2>1, <2>2 DEF UserFound
<1>3. CASE UserFailed
  <2>1. LegsStay
    BY <1>3 DEF UserFailed, LegsStay
  <2> QED
    BY <1>3, <2>1, SkipSlots DEF UserFailed, sipVars
<1>4. CASE CallAccepted
  <2>1. bridges' = [bridges EXCEPT ![c].state = "wait_tg"]
    BY <1>1, <1>4 DEF CallAccepted
  <2>2. LegsStay
    BY <1>0, <2>1 DEF LegsStay, Bridge
  <2> QED
    BY <1>4, <2>2, SkipSlots DEF CallAccepted, sipVars
<1>5. CASE CallCreated
  <2>1. ASSUME bridges' = [bridges EXCEPT ![c].state = "wait_tg"]
        PROVE  LegsStay
    BY <1>0, <2>1 DEF LegsStay, Bridge
  <2>2. ASSUME NEW t, bridges' = [bridges EXCEPT ![c].state = "wait_tg",
                                                 ![c].tg_call_id = t]
        PROVE  LegsStay
    BY <1>0, <2>2 DEF LegsStay, Bridge
  <2>3. LegsStay
    BY <1>1, <1>5, <2>1, <2>2 DEF CallCreated
  <2> QED
    BY <1>5, <2>3, SkipSlots DEF CallCreated, sipVars
<1>6. CASE CallDiscarded
  <2>1. /\ Hangup(sip_events, bridges[c].sip_call_id)
        /\ bridges' = [bridges EXCEPT ![c] = NoBridge]
    BY <1>1, <1>6 DEF CallDiscarded
  <2>2. bridges[c].sip_call_id \in SipId \cup {InvalidId}
    BY <1>0 DEF Bridge
  <2> QED
    BY <2>1, <2>2, HangupSlots
<1> QED
  BY <1>2, <1>3, <1>4, <1>5, <1>6 DEF Response

(* Every step keeps the slots. *)
LEMMA SlotStep ==
    ASSUME Inv, HandlerInv, SlotInv, [Next]_vars
    PROVE  SlotInv'
<1>1. CASE Network
  <2>1. UNCHANGED bridges /\ (SipRemote \/ UNCHANGED sipVars)
    BY <1>1 DEF Network, gwVars
  <2>2. CASE SipRemote
    BY <2>1, <2>2, CallbackSlots
  <2>3. CASE UNCHANGED sipVars
    BY <2>1, <2>3, SkipSlots DEF sipVars, LegsStay
  <2> QED
    BY <2>1, <2>2, <2>3
<1>2. CASE Signal \/ UNCHANGED vars
  BY <1>2, SkipSlots DEF Signal, vars, sipVars, gwVars, LegsStay
<1> QED
  BY <1>1, <1>2, LoopSlots, ResponseSlots DEF Next

-----------------------------------------------------------------------------
(* The invariant of the gateway. *)

(* The invariant holds when the gateway starts. *)
LEMMA InitLeg == Init => LegInv
<1> SUFFICES ASSUME Init PROVE LegInv
  OBVIOUS
<1>1. Inv
  BY InitInv
<1>2. /\ \A c \in Ctx : bridges[c] = NoBridge
      /\ sip_events = << >> /\ tg_events = << >> /\ query = NoQuery
      /\ \A t \in TgId : tg_call[t] = "none"
      /\ \A i \in SipId : calls[i] = "none" /\ inv[i] = "NULL"
  BY DEF Init, SipInit, TgInit
<1>3. ShapeInv
  BY <1>2, NoBridgeOK DEF ShapeInv, Exists
<1>4. HandlerInv
  BY <1>2 DEF HandlerInv, NoQuery
<1>5. TgQueueInv
  BY <1>2 DEF TgQueueInv
<1>6. OrphanInv
  BY <1>2 DEF OrphanInv, TgLive
<1>7. TgLegAccounted /\ TalkingWasWired
  BY <1>2 DEF TgLegAccounted, TalkingWasWired, NoBridge
<1>8. SlotInv
  <2>1. \A c \in Ctx : bridges[c].sip_call_id = InvalidId
    BY <1>2 DEF NoBridge
  <2> QED
    BY <1>2, <2>1 DEF SlotInv, Alive
<1> QED
  BY <1>1, <1>3, <1>4, <1>5, <1>6, <1>7, <1>8 DEF LegInv

(* Every step keeps it. *)
LEMMA LegStep == LegInv /\ [Next]_vars => LegInv'
<1> SUFFICES ASSUME LegInv, [Next]_vars PROVE LegInv'
  OBVIOUS
<1>1. /\ Inv /\ ShapeInv /\ HandlerInv /\ TgQueueInv /\ OrphanInv
      /\ TgLegAccounted /\ TalkingWasWired /\ SlotInv
  BY DEF LegInv
<1>2. Inv' /\ ShapeInv' /\ HandlerInv'
  BY <1>1, StepInv, ShapeStep, HandlerStep
<1>3. TgQueueInv' /\ OrphanInv'
  BY <1>1, TgQueueStep, OrphanStep
<1>4. TgLegAccounted' /\ TalkingWasWired' /\ SlotInv'
  BY <1>1, TgLegStep, TalkStep, SlotStep
<1> QED
  BY <1>2, <1>3, <1>4 DEF LegInv

(* So it always holds. *)
LEMMA LegInvariance == Spec => []LegInv
  BY InitLeg, LegStep, PTL DEF Spec

(* A held call is not orphaned. *)
LEMMA HeldIsOwned == LegInv => NoOrphanedTgCall
<1> SUFFICES ASSUME Inv, OrphanInv, NEW t \in TgId, TgLive(t)
             PROVE  \/ ~Unowned("tg_call_id", t)
                    \/ TgQueued(UpdateCall(t, "Pending"))
                    \/ t \in undiscarded
  BY DEF LegInv, NoOrphanedTgCall
<1>1. ASSUME NEW c \in Ctx, bridges[c].tg_call_id = t
      PROVE  ~Unowned("tg_call_id", t)
  BY <1>1, TgAssumption DEF Inv, BridgeInv, Unowned, Owners
<1> QED
  BY <1>1 DEF OrphanInv

(* No handler, failed query, late update or clean-up leaves a Telegram     *)
(* call that rings or talks without a bridge, a queued first update or a   *)
(* failed discard (gateway.cpp:672-707).                                   *)
THEOREM TgCall_NeverOrphaned == Spec => []NoOrphanedTgCall
  BY LegInvariance, HeldIsOwned, PTL

(* No bridge waits for a Telegram call that has nothing more to report:    *)
(* whatever the order of updates, answers and errors, the call goes on, or *)
(* its end or the context's InternalError is still queued.                 *)
THEOREM TgLeg_Accounted == Spec => []TgLegAccounted
<1>1. LegInv => TgLegAccounted
  BY DEF LegInv
<1> QED
  BY <1>1, LegInvariance, PTL

(* A bridge in wait_dtmf has its controller running and its BridgeAudio    *)
(* has succeeded, or an InternalError that will remove it is queued,       *)
(* however often the media came and went before (gateway.cpp:372-399).     *)
THEOREM Talking_WasWired == Spec => []TalkingWasWired
<1>1. LegInv => TalkingWasWired
  BY DEF LegInv
<1> QED
  BY <1>1, LegInvariance, PTL

-----------------------------------------------------------------------------
(* Messages. *)

(* A message changes no bridge, call or queue. *)
LEMMA MessageLeg ==
    ASSUME LegInv, PopMessage, query' = NoQuery, stage' \in {"sip", "aborted"}
    PROVE  LegInv'
<1>1. /\ UNCHANGED <<sipVars, tgVars, bridges, ctx_counter, internal_events,
                     e_flag, undiscarded, query>>
      /\ query' = NoQuery
  BY DEF PopMessage, AtStage
<1>2. /\ Inv /\ ShapeInv /\ HandlerInv /\ TgQueueInv /\ OrphanInv
      /\ TgLegAccounted /\ TalkingWasWired /\ SlotInv
  BY DEF LegInv
<1>3. Inv'
  <2>1. SipTypeOK'
    BY <1>1, <1>2 DEF Inv, SipTypeOK, sipVars
  <2>2. TgInv' /\ BridgeInv'
    BY <1>1, <1>2 DEF Inv, TgInv, TgTypeOK, tgVars, BridgeInv, Exists
  <2>3. WaitInv'
    BY <1>1, <1>2 DEF Inv, WaitInv, NoQuery
  <2>4. LoopType'
    BY <1>1, <1>2 DEF Inv, LoopType
  <2> QED
    BY <2>1, <2>2, <2>3, <2>4 DEF Inv
<1>4. ShapeInv' /\ HandlerInv'
  BY <1>1, <1>2 DEF ShapeInv, HandlerInv, Exists
<1>5. TgQueueInv' /\ OrphanInv'
  BY <1>1, <1>2 DEF TgQueueInv, OrphanInv, tgVars, TgLive, TgQueued
<1>6. TgLegAccounted' /\ TalkingWasWired'
  BY <1>1, <1>2 DEF TgLegAccounted, TalkingWasWired, tgVars, TgLive,
                    TgQueued, ErrorQueued, Exists
<1>7. SlotInv'
  BY <1>1, <1>2 DEF SlotInv, sipVars, Alive, IsIncoming
<1> QED
  BY <1>3, <1>4, <1>5, <1>6, <1>7 DEF LegInv

(* With messages the invariant holds all the same. *)
LEMMA DtmfInvariance == DtmfSpec => []LegInv
<1>1. DtmfInit => LegInv
  BY InitLeg DEF DtmfInit
<1>2. ASSUME LegInv, [DtmfNext]_<<vars, dtmfVars>>
      PROVE  LegInv'
  <2>1. CASE [Next]_vars
    BY <1>2, <2>1, LegStep
  <2>2. ASSUME PopMessage, query' = NoQuery, stage' \in {"sip", "aborted"}
        PROVE  LegInv'
    BY <1>2, <2>2, MessageLeg
  <2>3. CASE MessageDropped
    BY <2>2, <2>3 DEF MessageDropped, PopMessage, Return, NextStage, AtStage
  <2>4. ASSUME NEW c \in Ctx, NEW s \in ChatIds, DialDtmf(c, s)
        PROVE  LegInv'
    BY <2>2, <2>4 DEF DialDtmf, PopMessage, NextStage, AtStage
  <2> QED
    BY <1>2, <2>1, <2>3, <2>4 DEF DtmfNext
<1> QED
  BY <1>1, <1>2, PTL DEF DtmfSpec

(* A conversation has both its legs. *)
LEMMA TalkHasLegs ==
    ASSUME LegInv, NEW c \in Ctx, bridges[c].state = "wait_dtmf"
    PROVE  /\ bridges[c].from \in {"tg", "sip"}
           /\ bridges[c].sip_call_id # InvalidId
<1>1. BridgeOK(bridges[c]) /\ bridges[c] \in Bridge
  BY DEF LegInv, ShapeInv, Inv, BridgeInv
<1>2. bridges[c].from # "none"
  BY <1>1 DEF BridgeOK, NoBridge
<1> QED
  BY <1>1, <1>2 DEF BridgeOK, Bridge

(* The id of the SIP leg of an established conversation has an entry in    *)
(* Client::calls whatever the SIP side did, so DialDtmf never throws the   *)
(* std::runtime_error that nothing catches (gateway.cpp:586).              *)
THEOREM Dtmf_FindsCall == DtmfSpec => []DtmfFindsCall
<1>1. LegInv => DtmfFindsCall
  <2> SUFFICES ASSUME LegInv, NEW c \in Ctx, bridges[c].state = "wait_dtmf"
               PROVE  calls[bridges[c].sip_call_id] # "none"
    BY DEF DtmfFindsCall
  <2>1. bridges[c].sip_call_id # InvalidId
    BY TalkHasLegs
  <2> QED
    BY <2>1 DEF LegInv, SlotInv
<1> QED
  BY <1>1, DtmfInvariance, PTL

-----------------------------------------------------------------------------
(* The SIP legs.  PJSUA hands a slot out again once its call is over, and  *)
(* then what is left of the old call is taken for news of the new one: an  *)
(* entry nobody erased, or a DISCONNECTED that is still queued.  The       *)
(* results below say that this only matters when the gateway dials.        *)

(* A call the gateway makes gets a slot with nothing left of an old call.  *)
FreshDial ==
    UserFound =>
        LET i == bridges'[query.ctx].sip_call_id
        IN  i # InvalidId =>
                /\ calls[i] = "none"
                /\ ~SipQueued(CallStateUpdate(i, "DISCONNECTED"))

Bye == {"DISCONNECTED"}
Invite == {"valid", "invalid"}

(* The slots that the events of q with an argument in A are about. *)
Named(q, A) ==
    {i \in SipId : \E n \in 1 .. Len(q) : q[n].id = i /\ q[n].arg \in A}

Up == {i \in SipId : Alive(i)}
Gone == Named(sip_events, Bye)
Calling == Named(sip_events, Invite)

SipLeg(c) == bridges[c].sip_call_id
Known(i) == i \in Calling \/ \E c \in Ctx : SipLeg(c) = i
InWait(c) == bridges[c].state \in {"sip_wait_confirm", "sip_wait_media",
                                   "wait_tg", "wait_dtmf"}

(* A DISCONNECTED that is queued for a slot in U is that of an old call,   *)
(* and the IncomingCall of the new one comes after it.                     *)
Heard(q, U) ==
    \A n \in 1 .. Len(q) :
        q[n].arg \in Bye /\ q[n].id \in U =>
            \E m \in n + 1 .. Len(q) : q[m].arg \in Invite /\ q[m].id = q[n].id

OneOwner ==
    \A c, d \in Ctx : SipLeg(c) = SipLeg(d) /\ SipLeg(c) # InvalidId => c = d

SipInv ==
    /\ Heard(sip_events, Up)
    /\ \A i \in Up : Known(i)
    /\ OneOwner
    /\ \A c \in Ctx : InWait(c) => ErrorQueued(c) \/ SipLeg(c) \in Up \cup Gone

(* The argument of an event tells its kind. *)
LEMMA EventArgs ==
    ASSUME NEW e \in SipEvent
    PROVE  /\ e.id \in SipId
           /\ e.arg \in Bye => e = CallStateUpdate(e.id, "DISCONNECTED")
           /\ e.arg \in Invite => e = IncomingCall(e.id, e.arg)
           /\ e.type = "IncomingCall" <=> e.arg \in Invite
  BY DEF SipEvent, Bye, Invite, CallStateUpdate, IncomingCall

(* The events the actions push. *)
LEMMA PushedEvents ==
    ASSUME NEW i \in SipId
    PROVE  /\ \A s \in {"EARLY", "CONFIRMED"} :
                 /\ CallStateUpdate(i, s) \in SipEvent
                 /\ CallStateUpdate(i, s).arg \notin Bye \cup Invite
           /\ \A m : /\ CallMediaStateUpdate(i, m) \in SipEvent
                     /\ CallMediaStateUpdate(i, m).arg \notin Bye \cup Invite
           /\ CallStateUpdate(i, "DISCONNECTED") \in SipEvent
           /\ CallStateUpdate(i, "DISCONNECTED").arg \in Bye
           /\ CallStateUpdate(i, "DISCONNECTED").id = i
           /\ \A x \in Invite : /\ IncomingCall(i, x) \in SipEvent
                                /\ IncomingCall(i, x).arg = x
                                /\ IncomingCall(i, x).id = i
<1>1. ASSUME NEW s \in {"EARLY", "CONFIRMED"}
      PROVE  /\ CallStateUpdate(i, s) \in SipEvent
             /\ CallStateUpdate(i, s).arg \notin Bye \cup Invite
  BY DEF SipEvent, CallStateUpdate, Bye, Invite
<1>2. ASSUME NEW m
      PROVE  /\ CallMediaStateUpdate(i, m) \in SipEvent
             /\ CallMediaStateUpdate(i, m).arg \notin Bye \cup Invite
  BY DEF SipEvent, CallMediaStateUpdate, Bye, Invite
<1>3. /\ CallStateUpdate(i, "DISCONNECTED") \in SipEvent
      /\ CallStateUpdate(i, "DISCONNECTED").arg \in Bye
      /\ CallStateUpdate(i, "DISCONNECTED").id = i
  BY DEF SipEvent, CallStateUpdate, Bye
<1>4. ASSUME NEW x \in Invite
      PROVE  /\ IncomingCall(i, x) \in SipEvent
             /\ IncomingCall(i, x).arg = x /\ IncomingCall(i, x).id = i
  BY DEF SipEvent, IncomingCall, Invite
<1> QED
  BY <1>1, <1>2, <1>3, <1>4

(* A push adds the slot of its event and no other. *)
LEMMA NamedPush ==
    ASSUME NEW q \in Seq(SipEvent), NEW e \in SipEvent, NEW A
    PROVE  /\ Named(q, A) \subseteq Named(Append(q, e), A)
           /\ e.arg \in A => e.id \in Named(Append(q, e), A)
<1>1. /\ \A n \in 1 .. Len(q) :
            n \in 1 .. Len(Append(q, e)) /\ Append(q, e)[n] = q[n]
      /\ Len(q) + 1 \in 1 .. Len(Append(q, e))
      /\ Append(q, e)[Len(q) + 1] = e
  BY PushKeeps
<1>2. e.id \in SipId
  BY EventArgs
<1> QED
  BY <1>1, <1>2 DEF Named

(* A pop forgets at most the slot of the event it takes. *)
LEMMA NamedPop ==
    ASSUME NEW q \in Seq(SipEvent), q # << >>, NEW A, NEW i \in Named(q, A)
    PROVE  \/ i \in Named(Tail(q), A)
           \/ Head(q).id = i /\ Head(q).arg \in A
<1>1. PICK n \in 1 .. Len(q) : q[n].id = i /\ q[n].arg \in A
  BY DEF Named
<1>2. /\ Head(q) = q[1]
      /\ n # 1 => n - 1 \in 1 .. Len(Tail(q)) /\ Tail(q)[n - 1] = q[n]
  BY PopKeeps
<1>3. i \in SipId
  BY DEF Named
<1> QED
  BY <1>1, <1>2, <1>3 DEF Named

(* A pop leaves what follows a DISCONNECTED behind it. *)
LEMMA HeardPop ==
    ASSUME NEW q \in Seq(SipEvent), q # << >>, NEW U, Heard(q, U)
    PROVE  Heard(Tail(q), U)
<1>1. /\ Len(Tail(q)) = Len(q) - 1 /\ Len(q) \in Nat
      /\ \A n \in 1 .. Len(Tail(q)) :
            n + 1 \in 1 .. Len(q) /\ Tail(q)[n] = q[n + 1]
  BY PopKeeps
<1>2. SUFFICES ASSUME NEW n \in 1 .. Len(Tail(q)), Tail(q)[n].arg \in Bye,
                      Tail(q)[n].id \in U
               PROVE  \E m \in n + 1 .. Len(Tail(q)) :
                         /\ Tail(q)[m].arg \in Invite
                         /\ Tail(q)[m].id = Tail(q)[n].id
  BY DEF Heard
<1>3. n + 1 \in 1 .. Len(q) /\ Tail(q)[n] = q[n + 1]
  BY <1>1
<1>4. PICK m \in n + 2 .. Len(q) :
         q[m].arg \in Invite /\ q[m].id = q[n + 1].id
  BY <1>2, <1>3 DEF Heard
<1>5. /\ m - 1 \in n + 1 .. Len(Tail(q)) /\ m - 1 \in 1 .. Len(Tail(q))
      /\ (m - 1) + 1 = m
  BY <1>1, <1>4
<1>6. Tail(q)[m - 1] = q[m]
  BY <1>1, <1>5
<1> QED
  BY <1>3, <1>4, <1>5, <1>6

(* So does a push, unless it is the DISCONNECTED of a live call. *)
LEMMA HeardPush ==
    ASSUME NEW q \in Seq(SipEvent), NEW e, NEW U, Heard(q, U),
           e.arg \in Bye => e.id \notin U
    PROVE  Heard(Append(q, e), U)
<1>1. /\ Len(Append(q, e)) = Len(q) + 1 /\ Len(q) \in Nat
      /\ \A n \in 1 .. Len(q) :
            n \in 1 .. Len(Append(q, e)) /\ Append(q, e)[n] = q[n]
      /\ Append(q, e)[Len(q) + 1] = e
      /\ \A n \in 1 .. Len(Append(q, e)) :
            n \in 1 .. Len(q) \/ n = Len(q) + 1
  BY PushKeeps
<1>2. SUFFICES ASSUME NEW n \in 1 .. Len(Append(q, e)),
                      Append(q, e)[n].arg \in Bye, Append(q, e)[n].id \in U
               PROVE  \E m \in n + 1 .. Len(Append(q, e)) :
                         /\ Append(q, e)[m].arg \in Invite
                         /\ Append(q, e)[m].id = Append(q, e)[n].id
  BY DEF Heard
<1>3. n \in 1 .. Len(q) /\ Append(q, e)[n] = q[n]
  BY <1>1, <1>2
<1>4. PICK m \in n + 1 .. Len(q) : q[m].arg \in Invite /\ q[m].id = q[n].id
  BY <1>2, <1>3 DEF Heard
<1>5. m \in 1 .. Len(q) /\ m \in n + 1 .. Len(Append(q, e))
  BY <1>1, <1>3, <1>4
<1> QED
  BY <1>1, <1>3, <1>4, <1>5

(* An invitation comes after everything that is queued. *)
LEMMA HeardInvite ==
    ASSUME NEW q \in Seq(SipEvent), NEW e, NEW U, NEW V, Heard(q, U),
           V \subseteq U \cup {e.id}, e.arg \in Invite
    PROVE  Heard(Append(q, e), V)
<1>1. /\ Len(Append(q, e)) = Len(q) + 1 /\ Len(q) \in Nat
      /\ \A n \in 1 .. Len(q) :
            n \in 1 .. Len(Append(q, e)) /\ Append(q, e)[n] = q[n]
      /\ Append(q, e)[Len(q) + 1] = e
      /\ \A n \in 1 .. Len(Append(q, e)) :
            n \in 1 .. Len(q) \/ n = Len(q) + 1
  BY PushKeeps
<1>2. SUFFICES ASSUME NEW n \in 1 .. Len(Append(q, e)),
                      Append(q, e)[n].arg \in Bye, Append(q, e)[n].id \in V
               PROVE  \E m \in n + 1 .. Len(Append(q, e)) :
                         /\ Append(q, e)[m].arg \in Invite
                         /\ Append(q, e)[m].id = Append(q, e)[n].id
  BY DEF Heard
<1>3. n \in 1 .. Len(q) /\ Append(q, e)[n] = q[n]
  BY <1>1, <1>2 DEF Bye, Invite
<1>4. CASE q[n].id = e.id
  <2>1. Len(q) + 1 \in n + 1 .. Len(Append(q, e))
    BY <1>1, <1>3
  <2> QED
    BY <1>1, <1>3, <1>4, <2>1
<1>5. CASE q[n].id # e.id
  <2>1. PICK m \in n + 1 .. Len(q) : q[m].arg \in Invite /\ q[m].id = q[n].id
    BY <1>2, <1>3, <1>5 DEF Heard
  <2>2. m \in 1 .. Len(q) /\ m \in n + 1 .. Len(Append(q, e))
    BY <1>1, <1>3, <2>1
  <2> QED
    BY <1>1, <1>3, <2>1, <2>2
<1> QED
  BY <1>4, <1>5

(* Fewer live calls, or one more that no DISCONNECTED is queued for. *)
LEMMA HeardOther ==
    ASSUME NEW q \in Seq(SipEvent), NEW U, NEW V, Heard(q, U),
           \A i \in V : i \in U \/ i \in SipId \ Named(q, Bye)
    PROVE  Heard(q, V)
<1>1. SUFFICES ASSUME NEW n \in 1 .. Len(q), q[n].arg \in Bye, q[n].id \in V
               PROVE  q[n].id \in U
  BY DEF Heard
<1>2. q[n].id \in SipId => q[n].id \in Named(q, Bye)
  BY <1>1 DEF Named
<1> QED
  BY <1>1, <1>2

-----------------------------------------------------------------------------
(* What a step leaves to a bridge that waits: its error, or its leg, or it *)
(* has just taken one.                                                     *)
Waited ==
    \A d \in Ctx : InWait(d)' =>
        \/ ErrorQueued(d)'
        \/ /\ InWait(d) /\ SipLeg(d)' = SipLeg(d)
           /\ ErrorQueued(d) => ErrorQueued(d)'
        \/ SipLeg(d)' # SipLeg(d) /\ SipLeg(d)' # InvalidId

(* The own step of a context. *)
LEMMA OwnWait ==
    ASSUME LegInv, NEW c \in Ctx, Effect(c), InWait(c)'
    PROVE  \/ ErrorQueued(c)'
           \/ /\ InWait(c) /\ SipLeg(c)' = SipLeg(c)
              /\ ErrorQueued(c) => ErrorQueued(c)'
           \/ SipLeg(c)' # SipLeg(c) /\ SipLeg(c)' # InvalidId
<1>0. bridges[c] \in Bridge /\ BridgeOK(bridges[c])
  BY DEF LegInv, Inv, BridgeInv, ShapeInv
<1>i. Inv /\ ShapeInv /\ HandlerInv
  BY DEF LegInv
<1>x. bridges'[c].state # "X"
  BY DEF InWait
<1>1. CASE Fails(c)
  <2>1. CASE ~Exists(c)
    BY <1>0, <1>1, <1>x, <2>1 DEF Fails, Exists, BridgeOK, NoBridge
  <2>2. CASE Exists(c)
    BY <1>1, <1>i, <1>x, <2>2, CleanedState DEF Fails
  <2> QED
    BY <2>1, <2>2
<1>2. CASE HungUp(c)
  BY <1>2, <1>i, <1>x, CleanedState DEF HungUp
<1>3. CASE Ends(c) \/ Discarded(c)
  BY <1>3, <1>x DEF Ends, Discarded, Sets, NoBridge
<1>4. CASE Rings(c)
  BY <1>4 DEF Rings, Sets, NoBridge, InWait
<1>5. CASE Invited(c)
  <2>1. bridges[c] = NoBridge
    BY <1>5, <1>i, NewBridge DEF Invited
  <2> QED
    BY <1>5, <2>1, SipAssumption DEF Invited, Sets, NoBridge, SipLeg
<1>6. CASE DialsSip(c)
  <2>1. CASE Reports(c)
    BY <1>i, <2>1, ErrorPushed
  <2>2. ASSUME NEW i \in SipId,
               Sets(c, [bridges[c] EXCEPT !.state = "sip_wait_media",
                                          !.sip_call_id = i])
        PROVE  SipLeg(c)' # SipLeg(c) /\ SipLeg(c)' # InvalidId
    <3>1. bridges[c].sip_call_id = InvalidId
      BY <1>0, <1>6, <1>i DEF DialsSip, HandlerInv, BridgeOK
    <3>2. bridges'[c].sip_call_id = i
      BY <1>0, <2>2 DEF Sets, Bridge
    <3> QED
      BY <3>1, <3>2, SipAssumption DEF SipLeg
  <2> QED
    BY <1>6, <2>1, <2>2 DEF DialsSip
<1>7. CASE \/ TalksFromTg(c) \/ AnswersSip(c) \/ Accepting(c)
           \/ DialsTg(c) \/ TalksFromSip(c) \/ Accepted(c) \/ Created(c)
  <2>1. bridges'[c].sip_call_id = bridges[c].sip_call_id
    BY <1>0, <1>7 DEF TalksFromTg, AnswersSip, Accepting, DialsTg,
                      TalksFromSip, Accepted, Created, Sets, Bridge
  <2>2. InWait(c)
    BY <1>7, <1>i DEF TalksFromTg, AnswersSip, Accepting, DialsTg,
                      TalksFromSip, Accepted, Created, HandlerInv, InWait
  <2>3. \/ UNCHANGED internal_events
        \/ internal_events' = Append(internal_events, c)
    BY <1>7 DEF TalksFromTg, AnswersSip, Accepting, DialsTg, TalksFromSip,
                Accepted, Created, Silent, Reports
  <2>4. ErrorQueued(c) => ErrorQueued(c)'
    BY <1>i, <2>3, ErrorKept
  <2> QED
    BY <2>1, <2>2, <2>4 DEF SipLeg
<1> QED
  BY <1>1, <1>2, <1>3, <1>4, <1>5, <1>6, <1>7 DEF Effect

(* Every step leaves it to every bridge that waits. *)
LEMMA SipWaits == ASSUME LegInv, [Next]_vars PROVE Waited
<1>i. Inv /\ ShapeInv /\ HandlerInv
  BY DEF LegInv
<1>1. CASE Idle \/ TgMoves \/ TgIgnores
  BY <1>1 DEF Idle, TgMoves, TgIgnores, Silent, Waited, InWait, SipLeg,
              ErrorQueued
<1>2. ASSUME NEW c \in Ctx, Effect(c) PROVE Waited
  <2>1. SUFFICES ASSUME NEW d \in Ctx, InWait(d)'
                 PROVE  \/ ErrorQueued(d)'
                        \/ /\ InWait(d) /\ SipLeg(d)' = SipLeg(d)
                           /\ ErrorQueued(d) => ErrorQueued(d)'
                        \/ SipLeg(d)' # SipLeg(d) /\ SipLeg(d)' # InvalidId
    BY DEF Waited
  <2>2. CASE d = c
    BY <1>2, <2>1, <2>2, OwnWait
  <2>3. CASE d # c
    <3>1. bridges'[d] = bridges[d]
      BY <1>2, <2>3, OthersStay
    <3>2. ErrorQueued(d) => ErrorQueued(d)'
      BY <1>2, <1>i, <2>3, Bystander DEF Kept
    <3> QED
      BY <2>1, <3>1, <3>2 DEF InWait, SipLeg
  <2> QED
    BY <2>2, <2>3
<1> QED
  BY <1>1, <1>2, <1>i, StepEffect

-----------------------------------------------------------------------------
(* A leg is taken: it is up or its error is queued, and nobody has it.     *)
Taken(c) == /\ SipLeg(c)' \in Up' \/ ErrorQueued(c)'
            /\ \A d \in Ctx \ {c} :
                  SipLeg(d)' = SipLeg(d) /\ SipLeg(d) # SipLeg(c)'

(* What a step has to do to keep the SIP legs. *)
LEMMA SipKept ==
    ASSUME SipInv, Waited, Heard(sip_events, Up)', \A i \in Up' : Known(i)',
           \A c \in Ctx : \/ SipLeg(c)' = SipLeg(c)
                          \/ SipLeg(c)' = InvalidId
                          \/ Taken(c),
           \A c \in Ctx : /\ SipLeg(c)' = SipLeg(c) /\ InWait(c)'
                          /\ SipLeg(c) \in Up \cup Gone
                          => SipLeg(c) \in Up' \cup Gone'
    PROVE  SipInv'
<1>1. OneOwner'
  <2>1. SUFFICES ASSUME NEW c \in Ctx, NEW d \in Ctx, c # d,
                        SipLeg(c)' = SipLeg(d)', SipLeg(c)' # InvalidId
                 PROVE  FALSE
    BY DEF OneOwner
  <2>2. SipLeg(c)' = SipLeg(c) /\ SipLeg(d)' = SipLeg(d)
    BY <2>1 DEF Taken
  <2> QED
    BY <2>1, <2>2 DEF SipInv, OneOwner
<1>2. ASSUME NEW c \in Ctx, InWait(c)'
      PROVE  ErrorQueued(c)' \/ SipLeg(c)' \in Up' \cup Gone'
  <2>1. CASE ErrorQueued(c)'
    BY <2>1
  <2>2. CASE /\ InWait(c) /\ SipLeg(c)' = SipLeg(c)
             /\ ErrorQueued(c) => ErrorQueued(c)'
    BY <1>2, <2>2 DEF SipInv
  <2>3. CASE SipLeg(c)' # SipLeg(c) /\ SipLeg(c)' # InvalidId
    BY <2>3 DEF Taken
  <2> QED
    BY <1>2, <2>1, <2>2, <2>3 DEF Waited
<1> QED
  BY <1>1, <1>2 DEF SipInv

(* A step that leaves the legs as they are. *)
SameLegs == \A c \in Ctx : SipLeg(c)' = SipLeg(c)

(* Such a step keeps the invariant if no live call and no queued end or    *)
(* invitation is lost.                                                     *)
LEMMA SipCalm ==
    ASSUME SipInv, Waited, Heard(sip_events, Up)', SameLegs, Up' = Up,
           Gone \subseteq Gone', Calling \subseteq Calling'
    PROVE  SipInv'
<1>1. \A i \in Up' : Known(i)'
  BY DEF SipInv, Known, SameLegs
<1> QED
  BY <1>1, SipKept DEF SameLegs

(* Nothing is lost by a step that does nothing to the SIP client ... *)
LEMMA CalmSkip ==
    ASSUME SipInv, Waited, SameLegs, UNCHANGED <<inv, sip_events>>
    PROVE  SipInv'
<1>1. Up' = Up /\ Gone' = Gone /\ Calling' = Calling
  BY DEF Up, Gone, Calling, Named, Alive
<1>2. Heard(sip_events, Up)'
  BY <1>1 DEF SipInv, Heard
<1> QED
  BY <1>1, <1>2, SipCalm

(* ... nor by one that pushes an event other than a DISCONNECTED. *)
LEMMA CalmPush ==
    ASSUME Inv, SipInv, Waited, SameLegs, Up' = Up, NEW e \in SipEvent,
           e.arg \notin Bye, sip_events' = Append(sip_events, e)
    PROVE  SipInv'
<1>1. sip_events \in Seq(SipEvent)
  BY DEF Inv, SipTypeOK
<1>2. Heard(Append(sip_events, e), Up)
  BY <1>1, HeardPush DEF SipInv
<1>3. Heard(sip_events, Up)'
  BY <1>2 DEF Heard
<1>4. /\ Named(sip_events, Bye) \subseteq Named(Append(sip_events, e), Bye)
      /\ Named(sip_events, Invite)
             \subseteq Named(Append(sip_events, e), Invite)
  BY <1>1, NamedPush
<1>5. Gone \subseteq Gone' /\ Calling \subseteq Calling'
  BY <1>4 DEF Gone, Calling, Named
<1> QED
  BY <1>3, <1>5, SipCalm

(* What a pop leaves. *)
LEMMA SipPops ==
    ASSUME Inv, SipInv, sip_events # << >>, sip_events' = Tail(sip_events),
           UNCHANGED inv
    PROVE  /\ Up' = Up /\ Heard(sip_events, Up)'
           /\ \A i \in Gone : \/ i \in Gone'
                              \/ /\ Head(sip_events).id = i
                                 /\ Head(sip_events).arg \in Bye
           /\ \A i \in Calling : \/ i \in Calling'
                                 \/ /\ Head(sip_events).id = i
                                    /\ Head(sip_events).arg \in Invite
<1>1. sip_events \in Seq(SipEvent)
  BY DEF Inv, SipTypeOK
<1>2. Up' = Up
  BY DEF Up, Alive
<1>3. Heard(Tail(sip_events), Up)
  BY <1>1, HeardPop DEF SipInv
<1>4. Heard(sip_events, Up)'
  BY <1>2, <1>3 DEF Heard
<1>5. ASSUME NEW i \in Gone
      PROVE  \/ i \in Gone'
             \/ Head(sip_events).id = i /\ Head(sip_events).arg \in Bye
  <2>1. \/ i \in Named(Tail(sip_events), Bye)
        \/ Head(sip_events).id = i /\ Head(sip_events).arg \in Bye
    BY <1>1, <1>5, NamedPop DEF Gone
  <2> QED
    BY <2>1 DEF Gone, Named
<1>6. ASSUME NEW i \in Calling
      PROVE  \/ i \in Calling'
             \/ Head(sip_events).id = i /\ Head(sip_events).arg \in Invite
  <2>1. \/ i \in Named(Tail(sip_events), Invite)
        \/ Head(sip_events).id = i /\ Head(sip_events).arg \in Invite
    BY <1>1, <1>6, NamedPop DEF Calling
  <2> QED
    BY <2>1 DEF Calling, Named
<1> QED
  BY <1>2, <1>4, <1>5, <1>6

(* A popped event that no bridge acts on is not the end of one's leg; when *)
(* it is an invitation, its call has a bridge already.                     *)
LEMMA CalmPop ==
    ASSUME Inv, SipInv, Waited, SameLegs, UNCHANGED inv,
           sip_events # << >>, sip_events' = Tail(sip_events),
           Head(sip_events).arg \in Bye =>
               \A c \in Ctx : SipLeg(c) # Head(sip_events).id,
           Head(sip_events).arg \in Invite =>
               \E c \in Ctx : SipLeg(c) = Head(sip_events).id
    PROVE  SipInv'
<1>1. /\ Up' = Up /\ Heard(sip_events, Up)'
      /\ \A i \in Gone : \/ i \in Gone'
                         \/ /\ Head(sip_events).id = i
                            /\ Head(sip_events).arg \in Bye
      /\ \A i \in Calling : \/ i \in Calling'
                            \/ /\ Head(sip_events).id = i
                               /\ Head(sip_events).arg \in Invite
  BY SipPops
<1>2. \A i \in Up' : Known(i)'
  BY <1>1 DEF SipInv, Known, SameLegs
<1> QED
  BY <1>1, <1>2, SipKept DEF SameLegs

-----------------------------------------------------------------------------
(* The end of a bridge's leg is the end of the call in its slot. *)
LEMMA LegIsOver ==
    ASSUME LegInv, SipInv, NEW c \in Ctx, sip_events # << >>,
           Head(sip_events).arg \in Bye, SipLeg(c) = Head(sip_events).id
    PROVE  SipLeg(c) \notin Up
<1>1. sip_events \in Seq(SipEvent)
  BY DEF LegInv, Inv, SipTypeOK
<1>2. Head(sip_events) = sip_events[1] /\ 1 \in 1 .. Len(sip_events)
  BY <1>1, PopKeeps
<1>3. SUFFICES ASSUME SipLeg(c) \in Up PROVE FALSE
  OBVIOUS
<1>4. PICK m \in 2 .. Len(sip_events) :
         sip_events[m].arg \in Invite /\ sip_events[m].id = SipLeg(c)
  BY <1>2, <1>3 DEF SipInv, Heard
<1>5. m \in 1 .. Len(sip_events) /\ IsIncoming(m)
  BY <1>1, <1>4, EventArgs DEF IsIncoming
<1>6. calls[SipLeg(c)] # "live" /\ SipLeg(c) \in SipId
  BY <1>3, <1>4, <1>5, SlotParts DEF LegInv, LegOrEvent, SipLeg, Up
<1> QED
  BY <1>3, <1>6, SlotParts DEF LegInv, Slots, Up

(* SipDisconnected: the bridge drops a leg that is over. *)
LEMMA SipDrops ==
    ASSUME LegInv, SipInv, Waited, NEW c \in Ctx, SipLeg(c)' = InvalidId,
           \A d \in Ctx \ {c} : SipLeg(d)' = SipLeg(d),
           UNCHANGED inv, sip_events # << >>, sip_events' = Tail(sip_events),
           Head(sip_events).arg \in Bye, SipLeg(c) = Head(sip_events).id
    PROVE  SipInv'
<1>1. /\ Up' = Up /\ Heard(sip_events, Up)'
      /\ \A i \in Gone : i \in Gone' \/ SipLeg(c) = i
      /\ \A i \in Calling : \/ i \in Calling'
                            \/ Head(sip_events).arg \in Invite
  BY SipPops DEF LegInv
<1>2. SipLeg(c) \notin Up
  BY LegIsOver
<1>3. Head(sip_events).arg \notin Invite
  BY DEF Bye, Invite
<1>4. \A i \in Up' : Known(i)'
  BY <1>1, <1>2, <1>3 DEF SipInv, Known
<1>5. SipLeg(c) \in SipId
  <2>1. sip_events \in Seq(SipEvent)
    BY DEF LegInv, Inv, SipTypeOK
  <2> QED
    BY <2>1, HeadTail, EventArgs
<1>6. \A d \in Ctx : SipLeg(d)' = SipLeg(d) => d # c
  BY <1>5
<1>7. \A d \in Ctx : d # c => SipLeg(d) # SipLeg(c)
  BY <1>5 DEF SipInv, OneOwner
<1> QED
  BY <1>1, <1>4, <1>6, <1>7, SipKept

(* Hangup: the bridge and the call of its leg go together. *)
LEMMA SipHangsUp ==
    ASSUME LegInv, SipInv, Waited, NEW c \in Ctx,
           bridges' = [bridges EXCEPT ![c] = NoBridge],
           Hangup(sip_events, SipLeg(c))
    PROVE  SipInv'
<1>0. /\ sip_events \in Seq(SipEvent) /\ inv \in [SipId -> InvState]
      /\ SipLeg(c) \in SipId \cup {InvalidId}
      /\ bridges \in [Ctx -> Bridge]
  BY LegIds DEF LegInv, Inv, SipTypeOK, SipLeg, BridgeInv
<1>1. /\ SipLeg(c)' = InvalidId /\ ~InWait(c)'
      /\ \A d \in Ctx \ {c} : SipLeg(d)' = SipLeg(d)
  BY <1>0 DEF SipLeg, NoBridge, InWait
<1>s. \A i \in SipId : calls[i] = "live" <=> i \in Up
  BY SlotParts DEF LegInv, Slots, Up
<1>2. CASE SipLeg(c) # InvalidId /\ calls[SipLeg(c)] = "live"
  <2>1. PICK i \in SipId : i = SipLeg(c)
    BY <1>0, <1>2
  <2>2. /\ inv' = [inv EXCEPT ![i] = "NULL"]
        /\ \/ sip_events' = sip_events
           \/ sip_events' = Append(sip_events,
                                   CallStateUpdate(i, "DISCONNECTED"))
    BY <1>2, <2>1 DEF Hangup
  <2>3. Up' = Up \ {i}
    BY <1>0, <2>2 DEF Up, Alive
  <2>4. Heard(sip_events, Up \ {i})
    BY <1>0, HeardOther DEF SipInv
  <2>5. /\ CallStateUpdate(i, "DISCONNECTED") \in SipEvent
        /\ CallStateUpdate(i, "DISCONNECTED").id = i
    BY PushedEvents
  <2>6. Heard(Append(sip_events, CallStateUpdate(i, "DISCONNECTED")),
              Up \ {i})
    BY <1>0, <2>4, <2>5, HeardPush
  <2>7. Heard(sip_events, Up)'
    BY <2>2, <2>3, <2>4, <2>6 DEF Heard
  <2>8. Gone \subseteq Gone' /\ Calling \subseteq Calling'
    <3>1. \A A : Named(sip_events, A) \subseteq
                    Named(Append(sip_events,
                                 CallStateUpdate(i, "DISCONNECTED")), A)
      BY <1>0, <2>5, NamedPush
    <3>2. /\ Named(sip_events, Bye) \subseteq
                Named(Append(sip_events,
                             CallStateUpdate(i, "DISCONNECTED")), Bye)
          /\ Named(sip_events, Invite) \subseteq
                Named(Append(sip_events,
                             CallStateUpdate(i, "DISCONNECTED")), Invite)
      BY <3>1
    <3> QED
      BY <2>2, <3>2 DEF Gone, Calling, Named
  <2>9. \A j \in Up' : Known(j)'
    BY <1>1, <2>1, <2>3, <2>8 DEF SipInv, Known
  <2>10. \A d \in Ctx : d # c => SipLeg(d) # i
    BY <1>2, <2>1 DEF SipInv, OneOwner
  <2> QED
    BY <1>1, <2>3, <2>7, <2>8, <2>9, <2>10, SipKept
<1>3. CASE ~(SipLeg(c) # InvalidId /\ calls[SipLeg(c)] = "live")
  <2>1. UNCHANGED <<inv, sip_events>>
    BY <1>3 DEF Hangup, SipSkip
  <2>2. Up' = Up /\ Gone' = Gone /\ Calling' = Calling
    BY <2>1 DEF Up, Gone, Calling, Named, Alive
  <2>3. Heard(sip_events, Up)'
    BY <2>1, <2>2 DEF SipInv, Heard
  <2>4. SipLeg(c) \notin Up
    BY <1>3, <1>s DEF Up
  <2>5. \A j \in Up' : Known(j)'
    BY <1>1, <2>2, <2>4 DEF SipInv, Known
  <2> QED
    BY <1>1, <2>2, <2>3, <2>5, SipKept
<1> QED
  BY <1>2, <1>3

(* CleanUp, when the bridge still has its leg. *)
LEMMA SipCleansUp ==
    ASSUME LegInv, SipInv, Waited, NEW c \in Ctx, NEW b \in Bridge,
           b.sip_call_id = SipLeg(c), CleanUp(c, b, sip_events)
    PROVE  SipInv'
<1>0. bridges \in [Ctx -> Bridge]
  BY DEF LegInv, Inv, BridgeInv
<1>1. CASE b.tg_call_id # NoTg
  <2>1. /\ bridges' = [bridges EXCEPT ![c] =
                         [b EXCEPT !.state = "X", !.controller = FALSE,
                                   !.wired = FALSE]]
        /\ SipSkip(sip_events)
    BY <1>1 DEF CleanUp
  <2>2. SameLegs
    BY <1>0, <2>1 DEF SameLegs, SipLeg, Bridge
  <2> QED
    BY <2>1, <2>2, CalmSkip DEF SipSkip
<1>2. CASE b.tg_call_id = NoTg
  BY <1>2, SipHangsUp DEF CleanUp
<1> QED
  BY <1>1, <1>2

(* Calls that come in and calls that are made. *)
LEMMA SipTakes ==
    ASSUME LegInv, SipInv, Waited, NEW c \in Ctx, NEW i \in SipId,
           Taken(c), SipLeg(c)' = i, SipLeg(c) = InvalidId,
           Heard(sip_events, Up)', Up' \subseteq Up \cup {i},
           Up \subseteq Up', Gone \subseteq Gone',
           \A j \in Calling : j \in Calling' \/ j = i
    PROVE  SipInv'
<1>1. \A d \in Ctx : d # c => SipLeg(d)' = SipLeg(d)
  BY DEF Taken
<1>2. \A j \in Up' : Known(j)'
  <2>1. SUFFICES ASSUME NEW j \in Up', j # i PROVE Known(j)'
    BY DEF Known
  <2>2. Known(j) /\ j \in SipId
    BY <2>1 DEF SipInv, Up
  <2>3. ASSUME NEW d \in Ctx, SipLeg(d) = j PROVE Known(j)'
    BY <1>1, <2>2, <2>3 DEF Known
  <2> QED
    BY <2>1, <2>2, <2>3 DEF Known
<1>3. \A d \in Ctx : \/ SipLeg(d)' = SipLeg(d) \/ SipLeg(d)' = InvalidId
                     \/ Taken(d)
  BY <1>1
<1> QED
  BY <1>2, <1>3, SipKept

(* A bridge takes up an invitation. *)
LEMMA SipAccepts ==
    ASSUME LegInv, SipInv, Waited, AcceptIncomingSip
    PROVE  SipInv'
<1>i. Inv /\ ShapeInv /\ HandlerInv
  BY DEF LegInv
<1>0. sip_events \in Seq(SipEvent) /\ inv \in [SipId -> InvState]
  BY DEF LegInv, Inv, SipTypeOK
<1>1. PICK i \in SipId :
         /\ i = Head(sip_events).id /\ sip_events # << >>
         /\ Head(sip_events).type = "IncomingCall"
  BY <1>i, PopSipFacts DEF AcceptIncomingSip, PopSip, Inv
<1>2. /\ Create([NoBridge EXCEPT !.from = "sip", !.state = "sip_wait_confirm",
                                 !.sip_call_id = i])
      /\ Unowned("sip_call_id", i)
  BY <1>1 DEF AcceptIncomingSip
<1>3. PICK c \in Ctx :
         /\ c = ctx_counter + 1 /\ c = NewCtx
         /\ Sets(c, [NoBridge EXCEPT !.from = "sip",
                                     !.state = "sip_wait_confirm",
                                     !.sip_call_id = i])
  BY <1>2, <1>i, Creates
<1>4. bridges[c] = NoBridge
  BY <1>3, <1>i, NewBridge
<1>5. /\ SipLeg(c)' = i /\ SipLeg(c) = InvalidId
      /\ \A d \in Ctx \ {c} : SipLeg(d)' = SipLeg(d)
  <2>1. /\ bridges'[c].sip_call_id = i
        /\ \A d \in Ctx \ {c} :
              bridges'[d].sip_call_id = bridges[d].sip_call_id
    BY <1>3 DEF Sets, NoBridge
  <2>2. bridges[c].sip_call_id = InvalidId
    BY <1>4 DEF NoBridge
  <2> QED
    BY <2>1, <2>2 DEF SipLeg
<1>6. \A d \in Ctx : SipLeg(d) # i
  <2>1. SUFFICES ASSUME NEW d \in Ctx, SipLeg(d) = i PROVE FALSE
    OBVIOUS
  <2>2. BridgeOK(bridges[d])
    BY <1>i DEF ShapeInv
  <2>3. bridges[d].from # "none"
    BY <2>1, <2>2 DEF BridgeOK, NoBridge, SipLeg
  <2> QED
    BY <1>2, <2>1, <2>3 DEF Unowned, Owners, Exists, SipLeg
<1>7. \/ /\ AnswerRinging(Tail(sip_events), i)
      \/ /\ PushError(c)
         /\ SipSkip(Tail(sip_events))
  BY <1>1, <1>3 DEF AcceptIncomingSip
<1>8. Up' = Up /\ (SipLeg(c)' \in Up' \/ ErrorQueued(c)')
  <2>1. CASE AnswerRinging(Tail(sip_events), i)
    <3>1. i \in Up
      BY <2>1, SlotParts DEF AnswerRinging, CanAnswer, LegInv, Slots, Up
    <3>2. Up' = Up
      BY <1>0, <2>1, <3>1 DEF AnswerRinging, Up, Alive
    <3> QED
      BY <1>5, <3>1, <3>2
  <2>2. CASE PushError(c) /\ SipSkip(Tail(sip_events))
    <3>1. Up' = Up
      BY <2>2 DEF SipSkip, Up, Alive
    <3>2. internal_events \in Seq(Ctx)
      BY <1>i DEF Inv, LoopType
    <3>3. ErrorQueued(c)'
      BY <2>2, <3>2, PushKeeps DEF PushError, ErrorQueued
    <3> QED
      BY <3>1, <3>3
  <2> QED
    BY <1>7, <2>1, <2>2
<1>9. \/ sip_events' = Tail(sip_events)
      \/ sip_events' = Append(Tail(sip_events), CallStateUpdate(i, "EARLY"))
  BY <1>7 DEF AnswerRinging, SipSkip
<1>10. /\ Tail(sip_events) \in Seq(SipEvent)
       /\ CallStateUpdate(i, "EARLY") \in SipEvent
       /\ CallStateUpdate(i, "EARLY").arg \notin Bye
       /\ Head(sip_events).arg \in Invite /\ Head(sip_events).arg \notin Bye
  <2>1. Head(sip_events) \in SipEvent /\ Tail(sip_events) \in Seq(SipEvent)
    BY <1>0, <1>1, HeadTail
  <2> QED
    BY <1>1, <2>1, EventArgs, PushedEvents DEF Bye, Invite
<1>11. Heard(sip_events, Up)'
  <2>1. Heard(Tail(sip_events), Up)
    BY <1>0, <1>1, HeardPop DEF SipInv
  <2>2. Heard(Append(Tail(sip_events), CallStateUpdate(i, "EARLY")), Up)
    BY <1>10, <2>1, HeardPush
  <2> QED
    BY <1>8, <1>9, <2>1, <2>2 DEF Heard
<1>12. ASSUME NEW A
       PROVE  Named(Tail(sip_events), A) \subseteq Named(sip_events', A)
  <2>1. Named(Tail(sip_events), A) \subseteq
           Named(Append(Tail(sip_events), CallStateUpdate(i, "EARLY")), A)
    BY <1>10, NamedPush
  <2> QED
    BY <1>9, <2>1
<1>13. Gone \subseteq Gone'
  <2>1. Named(sip_events, Bye) \subseteq Named(Tail(sip_events), Bye)
    BY <1>0, <1>1, <1>10, NamedPop
  <2>2. Named(sip_events, Bye) \subseteq Named(sip_events', Bye)
    BY <1>12, <2>1
  <2> QED
    BY <2>2 DEF Gone, Named
<1>14. \A j \in Calling : j \in Calling' \/ j = i
  <2>1. \A j \in Named(sip_events, Invite) :
           j \in Named(Tail(sip_events), Invite) \/ j = i
    BY <1>0, <1>1, NamedPop
  <2>2. \A j \in Named(sip_events, Invite) :
           j \in Named(sip_events', Invite) \/ j = i
    BY <1>12, <2>1
  <2> QED
    BY <2>2 DEF Calling, Named
<1>15. Taken(c)
  BY <1>5, <1>6, <1>8 DEF Taken
<1> QED
  BY <1>5, <1>8, <1>11, <1>13, <1>14, <1>15, SipTakes

(* The gateway makes a call, into a slot with nothing left in it. *)
LEMMA SipDials ==
    ASSUME LegInv, SipInv, Waited, NEW c \in Ctx, NEW i \in SipId,
           Dial(sip_events, i), calls[i] = "none", i \notin Gone,
           bridges' = [bridges EXCEPT ![c].state = "sip_wait_media",
                                      ![c].sip_call_id = i],
           SipLeg(c) = InvalidId
    PROVE  SipInv'
<1>0. /\ sip_events \in Seq(SipEvent) /\ inv \in [SipId -> InvState]
      /\ bridges \in [Ctx -> Bridge]
  BY DEF LegInv, Inv, SipTypeOK, BridgeInv
<1>1. /\ SipLeg(c)' = i
      /\ \A d \in Ctx \ {c} : SipLeg(d)' = SipLeg(d)
  BY <1>0 DEF Bridge, SipLeg
<1>2. \A d \in Ctx : SipLeg(d) # i
  BY SlotParts DEF LegInv, LegRefers, SipLeg
<1>3. inv' = [inv EXCEPT ![i] = "CALLING"] /\ UNCHANGED sip_events
  BY DEF Dial, Emplace
<1>4. Up' = Up \cup {i}
  BY <1>0, <1>3 DEF Up, Alive
<1>5. Heard(sip_events, Up \cup {i})
  BY <1>0, HeardOther DEF SipInv, Gone
<1>6. /\ Heard(sip_events, Up)' /\ Gone' = Gone /\ Calling' = Calling
  BY <1>3, <1>4, <1>5 DEF Heard, Gone, Calling, Named
<1>7. Taken(c)
  BY <1>1, <1>2, <1>4 DEF Taken
<1> QED
  BY <1>1, <1>4, <1>6, <1>7, SipTakes

(* The callbacks.  An invitation may find what is left of an old call: its *)
(* own call is then over before it is known, or comes after the old end.   *)
LEMMA SipCallbacks ==
    ASSUME LegInv, SipInv, Waited, SipRemote, UNCHANGED bridges
    PROVE  SipInv'
<1>0. /\ Inv /\ SlotInv
      /\ sip_events \in Seq(SipEvent) /\ inv \in [SipId -> InvState]
      /\ SameLegs
  BY DEF LegInv, Inv, SipTypeOK, SameLegs, SipLeg
<1>1. PICK i \in SipId :
         \/ OnIncomingCall(i) \/ OnEarly(i) \/ OnConfirmed(i)
         \/ OnDisconnected(i) \/ \E m \in MediaState : OnMediaState(i, m)
  BY DEF SipRemote
<1>2. CASE OnEarly(i) \/ OnConfirmed(i)
  <2>1. Up' = Up
    BY <1>0, <1>2 DEF OnEarly, OnConfirmed, Up, Alive
  <2>2. PICK s \in {"EARLY", "CONFIRMED"} :
           sip_events' = Append(sip_events, CallStateUpdate(i, s))
    BY <1>2 DEF OnEarly, OnConfirmed
  <2>3. /\ CallStateUpdate(i, s) \in SipEvent
        /\ CallStateUpdate(i, s).arg \notin Bye
    BY PushedEvents
  <2> QED
    BY <1>0, <2>1, <2>2, <2>3, CalmPush
<1>3. ASSUME NEW m \in MediaState, OnMediaState(i, m) PROVE SipInv'
  <2>1. /\ Up' = Up
        /\ sip_events' = Append(sip_events, CallMediaStateUpdate(i, m))
    BY <1>3 DEF OnMediaState, Up, Alive
  <2>2. /\ CallMediaStateUpdate(i, m) \in SipEvent
        /\ CallMediaStateUpdate(i, m).arg \notin Bye
    BY PushedEvents
  <2> QED
    BY <1>0, <2>1, <2>2, CalmPush
<1>4. CASE OnDisconnected(i)
  <2>1. /\ inv' = [inv EXCEPT ![i] = "NULL"]
        /\ sip_events' = Append(sip_events,
                                CallStateUpdate(i, "DISCONNECTED"))
    BY <1>4 DEF OnDisconnected
  <2>2. Up' = Up \ {i}
    BY <1>0, <2>1 DEF Up, Alive
  <2>3. /\ CallStateUpdate(i, "DISCONNECTED") \in SipEvent
        /\ CallStateUpdate(i, "DISCONNECTED").id = i
        /\ CallStateUpdate(i, "DISCONNECTED").arg \in Bye
    BY PushedEvents
  <2>4. Heard(sip_events, Up \ {i})
    BY <1>0, HeardOther DEF SipInv
  <2>5. Heard(Append(sip_events, CallStateUpdate(i, "DISCONNECTED")),
              Up \ {i})
    BY <1>0, <2>3, <2>4, HeardPush
  <2>6. Heard(sip_events, Up)'
    BY <2>1, <2>2, <2>5 DEF Heard
  <2>7. ASSUME NEW A
        PROVE  /\ Named(sip_events, A) \subseteq Named(sip_events', A)
               /\ CallStateUpdate(i, "DISCONNECTED").arg \in A =>
                      i \in Named(sip_events', A)
    BY <1>0, <2>1, <2>3, NamedPush
  <2>8. /\ Named(sip_events, Bye) \subseteq Named(sip_events', Bye)
        /\ i \in Named(sip_events', Bye)
        /\ Named(sip_events, Invite) \subseteq Named(sip_events', Invite)
    BY <2>3, <2>7
  <2>9. Gone \cup {i} \subseteq Gone' /\ Calling \subseteq Calling'
    BY <2>8 DEF Gone, Calling, Named
  <2>10. \A j \in Up' : Known(j)'
    BY <1>0, <2>2, <2>9 DEF SipInv, Known, SameLegs
  <2> QED
    BY <1>0, <2>2, <2>6, <2>9, <2>10, SipKept DEF SameLegs
<1>5. CASE OnIncomingCall(i)
  <2>1. PICK x \in Invite :
           sip_events' = Append(sip_events, IncomingCall(i, x))
    BY <1>5 DEF OnIncomingCall, Invite
  <2>2. Up \subseteq Up' /\ Up' \subseteq Up \cup {i}
    <3>1. /\ Slots' /\ \A j \in SipId \ {i} : calls'[j] = calls[j]
          /\ \/ calls[i] = "stale" /\ calls'[i] = "stale"
             \/ calls[i] = "none" /\ calls'[i] = "live"
      BY <1>0, <1>5, EmplaceDoes DEF OnIncomingCall
    <3>2. Slots
      BY <1>0, SlotParts
    <3>3. /\ \A j \in SipId : calls[j] = "live" <=> j \in Up
          /\ \A j \in SipId : calls'[j] = "live" <=> j \in Up'
          /\ Up \subseteq SipId /\ Up' \subseteq SipId
      BY <3>1, <3>2 DEF Slots, Up
    <3> QED
      BY <3>1, <3>3
  <2>3. /\ IncomingCall(i, x) \in SipEvent
        /\ IncomingCall(i, x).id = i /\ IncomingCall(i, x).arg \in Invite
    BY PushedEvents
  <2>4. Heard(Append(sip_events, IncomingCall(i, x)), Up')
    BY <1>0, <2>2, <2>3, HeardInvite DEF SipInv
  <2>5. Heard(sip_events, Up)'
    BY <2>1, <2>4 DEF Heard
  <2>6. ASSUME NEW A
        PROVE  /\ Named(sip_events, A) \subseteq Named(sip_events', A)
               /\ IncomingCall(i, x).arg \in A => i \in Named(sip_events', A)
    BY <1>0, <2>1, <2>3, NamedPush
  <2>7. /\ Named(sip_events, Bye) \subseteq Named(sip_events', Bye)
        /\ Named(sip_events, Invite) \subseteq Named(sip_events', Invite)
        /\ i \in Named(sip_events', Invite)
    BY <2>3, <2>6
  <2>8. Gone \subseteq Gone' /\ Calling \cup {i} \subseteq Calling'
    BY <2>7 DEF Gone, Calling, Named
  <2>9. \A j \in Up' : Known(j)'
    BY <1>0, <2>2, <2>8 DEF SipInv, Known, SameLegs
  <2> QED
    BY <1>0, <2>2, <2>5, <2>8, <2>9, SipKept DEF SameLegs
<1> QED
  BY <1>1, <1>2, <1>3, <1>4, <1>5

-----------------------------------------------------------------------------
(* Every handler keeps the SIP legs, up to its first wait. *)
LEMMA SipLoop == ASSUME LegInv, SipInv, Waited, Loop PROVE SipInv'
<1>0. /\ Inv /\ ShapeInv /\ HandlerInv
      /\ bridges \in [Ctx -> Bridge] /\ \A c \in Ctx : bridges[c] \in Bridge
      /\ sip_events \in Seq(SipEvent) /\ inv \in [SipId -> InvState]
  BY DEF LegInv, Inv, BridgeInv, SipTypeOK
<1>u. ASSUME UNCHANGED bridges PROVE SameLegs
  BY <1>u DEF SameLegs, SipLeg
<1>1. CASE \/ Exit \/ NoInternalEvent \/ NoTgEvent \/ NoSipEvent
           \/ StrayUpdate \/ \E c \in Ctx : TgIgnored(c)
  <2>1. UNCHANGED bridges /\ UNCHANGED <<inv, sip_events>>
    BY <1>1 DEF Exit, NoInternalEvent, NoTgEvent, NoSipEvent, StrayUpdate,
                TgIgnored, sipVars
  <2> QED
    BY <1>u, <2>1, CalmSkip
<1>2. CASE InternalError
  <2>1. PICK c \in Ctx : c = Head(internal_events)
    BY <1>0, <1>2, HeadTail DEF InternalError, TickStart, Inv, LoopType
  <2>2. CASE Exists(c)
    <3>1. CleanUp(c, bridges[c], sip_events)
      BY <1>2, <2>1, <2>2 DEF InternalError
    <3> QED
      BY <1>0, <3>1, SipCleansUp DEF SipLeg
  <2>3. CASE ~Exists(c)
    BY <1>u, <1>2, <2>1, <2>3, CalmSkip DEF InternalError, SipSkip
  <2> QED
    BY <2>2, <2>3
<1>3. CASE PendingDialSip \/ PendingReject
  <2>1. PICK b : Create(b) /\ b.sip_call_id = InvalidId
    <3>1. \A t : /\ [NoBridge EXCEPT !.from = "tg", !.state = "init",
                                   !.tg_call_id = t].sip_call_id = InvalidId
                /\ [NoBridge EXCEPT !.from = "tg",
                                   !.tg_call_id = t].sip_call_id = InvalidId
      BY DEF NoBridge
    <3>2. CASE PendingDialSip
      BY <3>1, <3>2 DEF PendingDialSip
    <3>3. CASE PendingReject
      BY <3>1, <3>3 DEF PendingReject
    <3> QED
      BY <1>3, <3>2, <3>3
  <2>2. PICK c \in Ctx : c = ctx_counter + 1 /\ Sets(c, b)
    BY <1>0, <2>1, Creates
  <2>3. bridges[c] = NoBridge
    BY <1>0, <2>2, NewBridge
  <2>4. SameLegs
    BY <2>1, <2>2, <2>3 DEF SameLegs, SipLeg, Sets, NoBridge
  <2> QED
    BY <1>3, <2>4, CalmSkip DEF PendingDialSip, PendingReject, sipVars
<1>4. ASSUME NEW c \in Ctx, ReadyFromTg(c) PROVE SipInv'
  <2>1. PICK ok : bridges' = [bridges EXCEPT ![c].state = "wait_dtmf",
                                             ![c].controller = TRUE,
                                             ![c].wired = ok]
    BY <1>4 DEF ReadyFromTg
  <2>2. SameLegs
    BY <1>0, <2>1 DEF SameLegs, SipLeg, Bridge
  <2> QED
    BY <1>4, <2>2, CalmSkip DEF ReadyFromTg, sipVars
<1>5. ASSUME NEW c \in Ctx, ReadyFromSip(c) PROVE SipInv'
  <2>1. bridges' = [bridges EXCEPT ![c].state = "sip_wait_media",
                                   ![c].controller = TRUE]
    BY <1>5 DEF ReadyFromSip
  <2>2. SameLegs
    BY <1>0, <2>1 DEF SameLegs, SipLeg, Bridge
  <2>3. CASE AnswerOK(sip_events, SipLeg(c))
    <3>1. PICK i \in SipId : i = SipLeg(c) /\ calls[i] = "live"
      BY <1>0, <2>3 DEF AnswerOK, CanAnswer, Bridge, SipLeg
    <3>2. /\ inv' = [inv EXCEPT ![i] = "CONFIRMED"]
          /\ sip_events' = Append(sip_events, CallStateUpdate(i, "CONFIRMED"))
      BY <2>3, <3>1 DEF AnswerOK
    <3>3. i \in Up
      BY <3>1, SlotParts DEF LegInv, Slots, Up
    <3>4. Up' = Up
      BY <1>0, <3>2, <3>3 DEF Up, Alive
    <3>5. /\ CallStateUpdate(i, "CONFIRMED") \in SipEvent
          /\ CallStateUpdate(i, "CONFIRMED").arg \notin Bye
      BY PushedEvents
    <3> QED
      BY <1>0, <2>2, <3>2, <3>4, <3>5, CalmPush
  <2>4. CASE SipSkip(sip_events)
    BY <2>2, <2>4, CalmSkip DEF SipSkip
  <2> QED
    BY <1>5, <2>3, <2>4 DEF ReadyFromSip, SipLeg
<1>6. ASSUME NEW c \in Ctx, TgEnded(c) PROVE SipInv'
  <2>1. /\ [bridges[c] EXCEPT !.tg_call_id = NoTg] \in Bridge
        /\ [bridges[c] EXCEPT !.tg_call_id = NoTg].sip_call_id = SipLeg(c)
    BY <1>0 DEF Bridge, SipLeg
  <2>2. CleanUp(c, [bridges[c] EXCEPT !.tg_call_id = NoTg], sip_events)
    BY <1>6 DEF TgEnded
  <2> QED
    BY <2>1, <2>2, SipCleansUp
<1>7. CASE AcceptIncomingSip
  BY <1>7, SipAccepts
<1>8. ASSUME NEW type \in {"CallStateUpdate", "CallMediaStateUpdate"},
             StraySipEvent(type)
      PROVE  SipInv'
  <2>1. /\ sip_events # << >> /\ sip_events' = Tail(sip_events)
        /\ UNCHANGED <<bridges, inv>> /\ Head(sip_events).type = type
        /\ Unowned("sip_call_id", Head(sip_events).id)
    BY <1>8 DEF StraySipEvent, PopSip, SipSkip
  <2>2. Head(sip_events) \in SipEvent
    BY <1>0, <2>1, HeadTail
  <2>3. Head(sip_events).id \in SipId /\ Head(sip_events).arg \notin Invite
    BY <2>1, <2>2, EventArgs
  <2>4. ASSUME NEW d \in Ctx, SipLeg(d) = Head(sip_events).id PROVE FALSE
    <3>1. BridgeOK(bridges[d])
      BY <1>0 DEF ShapeInv
    <3>2. bridges[d].from # "none"
      BY <2>3, <2>4, <3>1 DEF BridgeOK, NoBridge, SipLeg
    <3> QED
      BY <2>1, <2>4, <3>2 DEF Unowned, Owners, Exists, SipLeg
  <2> QED
    BY <1>0, <1>u, <2>1, <2>3, <2>4, CalmPop
<1>9. ASSUME NEW c \in Ctx, SameLegs, UNCHANGED inv,
             sip_events # << >>, sip_events' = Tail(sip_events),
             Head(sip_events).arg \notin Bye,
             IsOwner(c, "sip_call_id", Head(sip_events).id)
      PROVE  SipInv'
  <2>1. SipLeg(c) = Head(sip_events).id
    BY <1>9, OwnsLeg DEF SipLeg
  <2> QED
    BY <1>0, <1>9, <2>1, CalmPop
<1>10. ASSUME NEW c \in Ctx, MediaFromTg(c) PROVE SipInv'
  <2>1. Head(sip_events).arg \notin Bye
    BY <1>10 DEF MediaFromTg, Bye
  <2> QED
    BY <1>9, <1>10, <1>u, <2>1 DEF MediaFromTg, PopSip, SipSkip
<1>11. ASSUME NEW c \in Ctx, EarlyFromSip(c) PROVE SipInv'
  <2>1. Head(sip_events).arg \notin Bye
    BY <1>11 DEF EarlyFromSip, Bye
  <2>2. ASSUME bridges' = [bridges EXCEPT ![c].state = "wait_tg"]
        PROVE  SameLegs
    BY <1>0, <2>2 DEF SameLegs, SipLeg, Bridge
  <2>3. SameLegs
    BY <1>11, <1>u, <2>2 DEF EarlyFromSip
  <2> QED
    BY <1>9, <1>11, <2>1, <2>3 DEF EarlyFromSip, PopSip, SipSkip
<1>12. ASSUME NEW c \in Ctx, MediaFromSip(c) PROVE SipInv'
  <2>1. Head(sip_events).arg \notin Bye
    BY <1>12 DEF MediaFromSip, Bye
  <2>2. PICK ok : bridges' = [bridges EXCEPT ![c].state = "wait_dtmf",
                                             ![c].wired = ok]
    BY <1>12 DEF MediaFromSip
  <2>3. SameLegs
    BY <1>0, <2>2 DEF SameLegs, SipLeg, Bridge
  <2> QED
    BY <1>9, <1>12, <2>1, <2>3 DEF MediaFromSip, PopSip, SipSkip
<1>13. ASSUME NEW c \in Ctx, SipIgnored(c) PROVE SipInv'
  <2>1. Head(sip_events).arg \notin Bye
    BY <1>13 DEF SipIgnored, Bye
  <2> QED
    BY <1>9, <1>13, <1>u, <2>1 DEF SipIgnored, PopSip, SipSkip
<1>14. ASSUME NEW c \in Ctx, SipDisconnected(c) PROVE SipInv'
  <2>1. /\ sip_events # << >> /\ Head(sip_events).arg \in Bye
        /\ IsOwner(c, "sip_call_id", Head(sip_events).id)
        /\ CleanUp(c, [bridges[c] EXCEPT !.sip_call_id = InvalidId],
                   Tail(sip_events))
    BY <1>14 DEF SipDisconnected, PopSip, Bye
  <2>2. SipLeg(c) = Head(sip_events).id
    BY <2>1, OwnsLeg DEF SipLeg
  <2>3. UNCHANGED inv /\ sip_events' = Tail(sip_events)
    <3>1. [bridges[c] EXCEPT !.sip_call_id = InvalidId].sip_call_id
             = InvalidId
      BY <1>0 DEF Bridge
    <3> QED
      BY <2>1, <3>1 DEF CleanUp, Hangup, SipSkip
  <2>4. /\ SipLeg(c)' = InvalidId
        /\ \A d \in Ctx \ {c} : SipLeg(d)' = SipLeg(d)
    <3>1. PICK b : /\ bridges' = [bridges EXCEPT ![c] = b]
                   /\ b.sip_call_id = InvalidId
      <4>1. NoBridge.sip_call_id = InvalidId
        BY DEF NoBridge
      <4>2. [[bridges[c] EXCEPT !.sip_call_id = InvalidId]
               EXCEPT !.state = "X", !.controller = FALSE,
                      !.wired = FALSE].sip_call_id = InvalidId
        BY <1>0 DEF Bridge
      <4> QED
        BY <2>1, <4>1, <4>2 DEF CleanUp
    <3> QED
      BY <1>0, <3>1 DEF SipLeg
  <2> QED
    BY <2>1, <2>2, <2>3, <2>4, SipDrops
<1> QED
  BY <1>1, <1>2, <1>3, <1>4, <1>5, <1>6, <1>7, <1>8, <1>10, <1>11, <1>12,
     <1>13, <1>14 DEF Loop

(* And after it, if the gateway finds a fresh slot when it dials. *)
LEMMA SipResponse ==
    ASSUME LegInv, SipInv, Waited, FreshDial, Response
    PROVE  SipInv'
<1>0. /\ Inv /\ ShapeInv /\ HandlerInv
      /\ bridges \in [Ctx -> Bridge] /\ \A c \in Ctx : bridges[c] \in Bridge
      /\ sip_events \in Seq(SipEvent)
  BY DEF LegInv, Inv, BridgeInv, SipTypeOK
<1>1. PICK c \in Ctx : c = query.ctx
  BY <1>0 DEF Response, UserFound, UserFailed, CallAccepted, CallCreated,
              CallDiscarded, Answered, Inv, WaitInv
<1>2. CASE UserFound
  <2>1. ASSUME NEW i \in SipId, Dial(sip_events, i),
               bridges' = [bridges EXCEPT ![c].state = "sip_wait_media",
                                          ![c].sip_call_id = i]
        PROVE  SipInv'
    <3>1. bridges'[c].sip_call_id = i
      BY <1>0, <2>1 DEF Bridge
    <3>2. /\ calls[i] = "none"
          /\ ~SipQueued(CallStateUpdate(i, "DISCONNECTED"))
      BY <1>1, <1>2, <2>1, <3>1 DEF FreshDial
    <3>3. i \notin Gone
      BY <1>0, <3>2, EventArgs DEF Gone, Named, SipQueued
    <3>4. SipLeg(c) = InvalidId
      <4>1. bridges[c].state = "init" /\ BridgeOK(bridges[c])
        BY <1>0, <1>1, <1>2 DEF UserFound, Answered, HandlerInv, ShapeInv
      <4> QED
        BY <4>1 DEF BridgeOK, SipLeg
    <3> QED
      BY <2>1, <3>2, <3>3, <3>4, SipDials
  <2>2. CASE /\ bridges' = [bridges EXCEPT ![c].state = "sip_wait_media"]
             /\ SipSkip(sip_events)
    <3>1. SameLegs
      BY <1>0, <2>2 DEF SameLegs, SipLeg, Bridge
    <3> QED
      BY <2>2, <3>1, CalmSkip DEF SipSkip
  <2> QED
    BY <1>1, <1>2, <2>1, <2>2 DEF UserFound
<1>3. CASE UserFailed
  <2>1. SameLegs
    BY <1>3 DEF UserFailed, SameLegs, SipLeg
  <2> QED
    BY <1>3, <2>1, CalmSkip DEF UserFailed, sipVars
<1>4. CASE CallAccepted \/ CallCreated
  <2>1. \/ bridges' = [bridges EXCEPT ![c].state = "wait_tg"]
        \/ \E t : bridges' = [bridges EXCEPT ![c].state = "wait_tg",
                                             ![c].tg_call_id = t]
    BY <1>1, <1>4 DEF CallAccepted, CallCreated
  <2>2. SameLegs
    <3>1. CASE bridges' = [bridges EXCEPT ![c].state = "wait_tg"]
      BY <1>0, <3>1 DEF SameLegs, SipLeg, Bridge
    <3>2. ASSUME NEW t, bridges' = [bridges EXCEPT ![c].state = "wait_tg",
                                                   ![c].tg_call_id = t]
          PROVE  SameLegs
      BY <1>0, <3>2 DEF SameLegs, SipLeg, Bridge
    <3> QED
      BY <2>1, <3>1, <3>2
  <2> QED
    BY <1>4, <2>2, CalmSkip DEF CallAccepted, CallCreated, sipVars
<1>5. CASE CallDiscarded
  <2>1. /\ Hangup(sip_events, bridges[c].sip_call_id)
        /\ bridges' = [bridges EXCEPT ![c] = NoBridge]
    BY <1>1, <1>5 DEF CallDiscarded
  <2> QED
    BY <2>1, SipHangsUp DEF SipLeg
<1> QED
  BY <1>2, <1>3, <1>4, <1>5 DEF Response

(* Every step keeps the SIP legs. *)
LEMMA SipStep ==
    ASSUME LegInv, SipInv, [Next]_vars, [FreshDial]_vars
    PROVE  SipInv'
<1>0. Waited
  BY SipWaits
<1>1. CASE Network
  <2>1. UNCHANGED bridges /\ (SipRemote \/ UNCHANGED sipVars)
    BY <1>1 DEF Network, gwVars
  <2>2. CASE SipRemote
    BY <1>0, <2>1, <2>2, SipCallbacks
  <2>3. CASE UNCHANGED sipVars
    BY <1>0, <2>1, <2>3, CalmSkip DEF sipVars, SameLegs, SipLeg
  <2> QED
    BY <2>1, <2>2, <2>3
<1>2. CASE Signal \/ UNCHANGED vars
  BY <1>0, <1>2, CalmSkip
     DEF Signal, vars, sipVars, gwVars, SameLegs, SipLeg
<1>3. CASE Loop
  BY <1>0, <1>3, SipLoop
<1>4. CASE Response /\ ~UNCHANGED vars
  BY <1>0, <1>4, SipResponse
<1> QED
  BY <1>1, <1>2, <1>3, <1>4 DEF Next

-----------------------------------------------------------------------------
(* The results about the SIP legs. *)

(* No call is up when the gateway starts. *)
LEMMA InitSip == Init => SipInv
<1> SUFFICES ASSUME Init PROVE SipInv
  OBVIOUS
<1>1. /\ sip_events = << >> /\ \A i \in SipId : inv[i] = "NULL"
      /\ \A c \in Ctx : SipLeg(c) = InvalidId /\ ~InWait(c)
  BY DEF Init, SipInit, NoBridge, SipLeg, InWait
<1>2. Up = {}
  BY <1>1 DEF Up, Alive
<1>3. Heard(sip_events, Up)
  BY <1>1 DEF Heard
<1> QED
  BY <1>1, <1>2, <1>3 DEF SipInv, OneOwner

(* The SIP legs are in order as long as every call finds a fresh slot. *)
LEMMA SipInvariance == Spec /\ [][FreshDial]_vars => [](LegInv /\ SipInv)
<1>1. LegInv /\ SipInv /\ [Next]_vars /\ [FreshDial]_vars => SipInv'
  BY SipStep
<1> QED
  BY <1>1, InitSip, InitLeg, LegStep, PTL DEF Spec

(* A slot the queue names has its event there. *)
LEMMA NamedQueued ==
    ASSUME Inv, NEW i \in SipId
    PROVE  /\ i \in Gone => SipQueued(CallStateUpdate(i, "DISCONNECTED"))
           /\ i \in Calling => \E x \in {"valid", "invalid"} :
                                  SipQueued(IncomingCall(i, x))
<1>0. sip_events \in Seq(SipEvent)
  BY DEF Inv, SipTypeOK
<1>1. \A n \in 1 .. Len(sip_events) : sip_events[n] \in SipEvent
  BY <1>0
<1>2. ASSUME i \in Gone
      PROVE  SipQueued(CallStateUpdate(i, "DISCONNECTED"))
  <2>1. PICK n \in 1 .. Len(sip_events) :
           sip_events[n].id = i /\ sip_events[n].arg \in Bye
    BY <1>2 DEF Gone, Named
  <2>2. sip_events[n] = CallStateUpdate(i, "DISCONNECTED")
    BY <1>1, <2>1, EventArgs
  <2> QED
    BY <2>2 DEF SipQueued
<1>3. ASSUME i \in Calling
      PROVE  \E x \in {"valid", "invalid"} : SipQueued(IncomingCall(i, x))
  <2>1. PICK n \in 1 .. Len(sip_events) :
           sip_events[n].id = i /\ sip_events[n].arg \in Invite
    BY <1>3 DEF Calling, Named
  <2>2. sip_events[n] = IncomingCall(i, sip_events[n].arg)
    BY <1>1, <2>1, EventArgs
  <2>3. SipQueued(IncomingCall(i, sip_events[n].arg))
    BY <2>2 DEF SipQueued
  <2> QED
    BY <2>1, <2>3 DEF Invite
<1> QED
  BY <1>2, <1>3

(* A known call is not orphaned. *)
LEMMA KnownIsOwned == LegInv /\ SipInv => NoOrphanedSipCall
<1> SUFFICES ASSUME LegInv, SipInv, NEW i \in SipId, Alive(i)
             PROVE  \/ ~Unowned("sip_call_id", i)
                    \/ \E x \in {"valid", "invalid"} :
                           SipQueued(IncomingCall(i, x))
  BY DEF NoOrphanedSipCall
<1>1. Known(i)
  BY DEF SipInv, Up
<1>2. CASE i \in Calling
  BY <1>2, NamedQueued DEF LegInv
<1>3. ASSUME NEW c \in Ctx, SipLeg(c) = i
      PROVE  ~Unowned("sip_call_id", i)
  <2>1. BridgeOK(bridges[c])
    BY DEF LegInv, ShapeInv
  <2>2. bridges[c].from # "none"
    BY <1>3, <2>1 DEF BridgeOK, NoBridge, SipLeg
  <2> QED
    BY <1>3, <2>2 DEF Unowned, Owners, Exists, SipLeg
<1> QED
  BY <1>1, <1>2, <1>3 DEF Known

(* A leg that is up or gone is accounted for. *)
LEMMA WaitsAccounted == LegInv /\ SipInv => SipLegAccounted
<1> SUFFICES ASSUME LegInv, SipInv, NEW c \in Ctx, InWait(c)
             PROVE  \/ ErrorQueued(c)
                    \/ /\ bridges[c].sip_call_id # InvalidId
                       /\ \/ Alive(bridges[c].sip_call_id)
                          \/ SipQueued(CallStateUpdate(bridges[c].sip_call_id,
                                                       "DISCONNECTED"))
  BY DEF SipLegAccounted, InWait
<1>1. CASE ErrorQueued(c)
  BY <1>1
<1>2. CASE SipLeg(c) \in Up \cup Gone
  <2>1. PICK i \in SipId : i = SipLeg(c) /\ i \in Up \cup Gone
    BY <1>2 DEF Up, Gone, Named
  <2>2. i # InvalidId
    BY SipAssumption
  <2>3. Alive(i) \/ SipQueued(CallStateUpdate(i, "DISCONNECTED"))
    BY <2>1, NamedQueued DEF Up, LegInv
  <2> QED
    BY <2>1, <2>2, <2>3 DEF SipLeg
<1> QED
  BY <1>1, <1>2 DEF SipInv

(* Why a conversation may end. *)
Cause(c) == \/ ErrorQueued(c)
            \/ ~Alive(bridges[c].sip_call_id)
            \/ tg_call[bridges[c].tg_call_id] = "ended"

(* A step that ends a conversation has a cause. *)
LEMMA TearDown ==
    ASSUME LegInv, SipInv, [Next]_vars, NEW c \in Ctx,
           bridges[c].state = "wait_dtmf", bridges'[c].state = "X"
    PROVE  Cause(c)
<1>i. /\ Inv /\ ShapeInv /\ HandlerInv /\ TgQueueInv
      /\ bridges[c] \in Bridge
  BY DEF LegInv, Inv, BridgeInv
<1>1. Effect(c)
  <2>1. ASSUME NEW d \in Ctx, Effect(d), d # c PROVE FALSE
    BY <2>1, OthersStay
  <2>2. ~(Idle \/ TgMoves \/ TgIgnores)
    BY DEF Idle, TgMoves, TgIgnores
  <2> QED
    BY <1>i, <2>1, <2>2, StepEffect
<1>2. CASE Fails(c)
  <2>1. internal_events \in Seq(Ctx) /\ internal_events # << >>
    BY <1>2, <1>i DEF Fails, Inv, LoopType
  <2>2. 1 \in 1 .. Len(internal_events) /\ internal_events[1] = c
    BY <1>2, <2>1, PopKeeps DEF Fails
  <2> QED
    BY <2>2 DEF Cause, ErrorQueued
<1>3. CASE HungUp(c)
  <2>1. /\ sip_events # << >> /\ Head(sip_events).arg \in Bye
        /\ SipLeg(c) = Head(sip_events).id
    BY <1>3 DEF HungUp, Bye, SipLeg
  <2>2. SipLeg(c) \notin Up
    BY <2>1, LegIsOver
  <2>3. SipLeg(c) \in SipId
    <3>1. sip_events \in Seq(SipEvent)
      BY <1>i DEF Inv, SipTypeOK
    <3> QED
      BY <2>1, <3>1, HeadTail, EventArgs
  <2> QED
    BY <2>2, <2>3 DEF Up, SipLeg, Cause
<1>4. CASE Ends(c)
  <2>1. tg_events \in Seq(TgEvent) /\ tg_events # << >>
    BY <1>4, <1>i DEF Ends, TgPopped, Inv, TgInv, TgTypeOK
  <2>2. /\ 1 \in 1 .. Len(tg_events)
        /\ tg_events[1] = UpdateCall(bridges[c].tg_call_id, "Ended")
    BY <1>4, <2>1, PopKeeps DEF Ends
  <2>3. /\ tg_events[1].state = "Ended"
        /\ tg_events[1].id = bridges[c].tg_call_id
    BY <2>2 DEF UpdateCall
  <2> QED
    BY <1>i, <2>2, <2>3 DEF TgQueueInv, Cause
<1>5. CASE Discarded(c)
  BY <1>5, <1>i DEF Discarded, HandlerInv
<1>6. CASE Rings(c) \/ Invited(c)
  <2>1. bridges[c] = NoBridge
    BY <1>6, <1>i, NewBridge DEF Rings, Invited
  <2> QED
    BY <2>1 DEF NoBridge
<1>7. CASE \/ TalksFromTg(c) \/ AnswersSip(c) \/ Accepting(c) \/ DialsTg(c)
           \/ TalksFromSip(c) \/ DialsSip(c) \/ Accepted(c) \/ Created(c)
  BY <1>7, <1>i DEF TalksFromTg, AnswersSip, Accepting, DialsTg,
        TalksFromSip, DialsSip, Accepted, Created, Sets, Bridge
<1> QED
  BY <1>1, <1>2, <1>3, <1>4, <1>5, <1>6, <1>7 DEF Effect

-----------------------------------------------------------------------------
(* When every call finds a fresh slot: as long as the table has not been   *)
(* used up once, and always if the gateway never dials.                    *)

(* A slot that no call has had yet. *)
Untouched(i) ==
    /\ calls[i] = "none" /\ inv[i] = "NULL"
    /\ \A n \in 1 .. Len(sip_events) : sip_events[n].id # i

(* The first k slots have been handed out, one for each invitation and one *)
(* for each context that has dialled.                                      *)
HandedOut(k) ==
    /\ k <= incoming + ctx_counter
    /\ query.op = "getUser" => k < incoming + ctx_counter
    /\ k < MaxCalls => next_call_id = k
    /\ \A i \in SipId : i >= k => Untouched(i)

FirstRound == \E k \in 0 .. MaxCalls : HandedOut(k)

(* A context is made for every call that is still to be dialled. *)
LEMMA ContextsGrow ==
    ASSUME LegInv, [Next]_vars
    PROVE  \/ /\ ctx_counter' = ctx_counter
              /\ query'.op = "getUser" => query.op = "getUser"
           \/ ctx_counter' = ctx_counter + 1
<1>1. Inv /\ HandlerInv
  BY DEF LegInv
<1>2. NoQuery.op # "getUser" /\ \A op, c : Query(op, c).op = op
  BY DEF NoQuery, Query
<1>3. CASE Idle \/ TgMoves \/ TgIgnores
  <2>1. ctx_counter' = ctx_counter /\ (query' = query \/ query' = NoQuery)
    BY <1>3 DEF Idle, TgMoves, TgIgnores, Silent
  <2> QED
    BY <1>2, <2>1
<1>4. ASSUME NEW c \in Ctx, Effect(c)
      PROVE  \/ /\ ctx_counter' = ctx_counter
                /\ query'.op = "getUser" => query.op = "getUser"
             \/ ctx_counter' = ctx_counter + 1
  <2>1. CASE Rings(c) \/ Invited(c)
    BY <2>1 DEF Rings, Invited
  <2>2. CASE Fails(c) \/ HungUp(c)
    BY <1>2, <2>2 DEF Fails, HungUp, Cleaned, Silent
  <2>3. CASE \/ Ends(c) \/ TalksFromTg(c) \/ AnswersSip(c) \/ Accepting(c)
             \/ DialsTg(c) \/ TalksFromSip(c) \/ DialsSip(c) \/ Accepted(c)
             \/ Created(c) \/ Discarded(c)
    <3>1. ctx_counter' = ctx_counter
      BY <2>3 DEF Ends, TalksFromTg, AnswersSip, Accepting, DialsTg,
            TalksFromSip, DialsSip, Accepted, Created, Discarded, Silent,
            Reports
    <3>2. \/ query' = NoQuery \/ query' = Query("acceptCall", c)
          \/ query' = Query("createCall", c)
      BY <2>3 DEF Ends, TalksFromTg, AnswersSip, Accepting, DialsTg,
            TalksFromSip, DialsSip, Accepted, Created, Discarded
    <3> QED
      BY <1>2, <3>1, <3>2
  <2> QED
    BY <1>4, <2>1, <2>2, <2>3 DEF Effect
<1> QED
  BY <1>1, <1>3, <1>4, StepEffect

(* A step that hands out no slot and touches no new one. *)
LEMMA RoundKept ==
    ASSUME LegInv, FirstRound, [Next]_vars,
           UNCHANGED <<incoming, next_call_id>>,
           \A i \in SipId : Untouched(i) => Untouched(i)'
    PROVE  FirstRound'
<1>1. PICK k \in 0 .. MaxCalls : HandedOut(k)
  BY DEF FirstRound
<1>2. incoming \in Nat /\ ctx_counter \in Nat /\ k \in Int
  BY SipAssumption, GatewayAssumption DEF LegInv, Inv, SipTypeOK, LoopType
<1>3. /\ k <= incoming' + ctx_counter'
      /\ query'.op = "getUser" => k < incoming' + ctx_counter'
  BY <1>1, <1>2, ContextsGrow DEF HandedOut
<1>4. HandedOut(k)'
  BY <1>1, <1>3 DEF HandedOut
<1> QED
  BY <1>4 DEF FirstRound

(* The queue names no new slot. *)
SameQueue(q) == \/ q = sip_events
                \/ sip_events # << >> /\ q = Tail(sip_events)

(* A pop names no new slot, and a push that of its event. *)
LEMMA UntouchedQueue ==
    ASSUME Inv, NEW i \in SipId, Untouched(i), NEW q, SameQueue(q), NEW e,
           e.id # i
    PROVE  /\ \A n \in 1 .. Len(q) : q[n].id # i
           /\ \A n \in 1 .. Len(Append(q, e)) : Append(q, e)[n].id # i
<1>0. sip_events \in Seq(SipEvent)
  BY DEF Inv, SipTypeOK
<1>1. q \in Seq(SipEvent) /\ \A n \in 1 .. Len(q) : q[n].id # i
  <2>1. CASE q = sip_events
    BY <1>0, <2>1 DEF Untouched
  <2>2. CASE sip_events # << >> /\ q = Tail(sip_events)
    <3>1. q \in Seq(SipEvent)
      BY <1>0, <2>2, HeadTail
    <3>2. \A n \in 1 .. Len(Tail(sip_events)) :
             /\ n + 1 \in 1 .. Len(sip_events)
             /\ Tail(sip_events)[n] = sip_events[n + 1]
      BY <1>0, <2>2, PopKeeps
    <3> QED
      BY <2>2, <3>1, <3>2 DEF Untouched
  <2> QED
    BY <2>1, <2>2 DEF SameQueue
<1>2. /\ \A n \in 1 .. Len(q) : Append(q, e)[n] = q[n]
      /\ Append(q, e)[Len(q) + 1] = e
      /\ \A n \in 1 .. Len(Append(q, e)) : n \in 1 .. Len(q) \/ n = Len(q) + 1
  BY <1>1, PushKeeps
<1> QED
  BY <1>1, <1>2

(* The methods that end or answer a call, and the callbacks that report on *)
(* one, touch its slot only.                                               *)
LEMMA UntouchedKept ==
    ASSUME Inv, NEW i \in SipId, Untouched(i), NEW q, SameQueue(q),
           NEW j \in SipId, j # i, NEW e, e.id = j,
           calls' = calls \/ \E s : calls' = [calls EXCEPT ![j] = s],
           inv' = inv \/ \E s : inv' = [inv EXCEPT ![j] = s],
           sip_events' = q \/ sip_events' = Append(q, e)
    PROVE  Untouched(i)'
<1>1. calls'[i] = calls[i] /\ inv'[i] = inv[i]
  BY DEF Inv, SipTypeOK
<1>2. \A n \in 1 .. Len(sip_events') : sip_events'[n].id # i
  BY UntouchedQueue
<1> QED
  BY <1>1, <1>2 DEF Untouched

(* What a handler may call, after its pop. *)
Methods ==
    \E q : /\ SameQueue(q)
           /\ \/ SipSkip(q)
              \/ \E i \in SipId \cup {InvalidId} :
                    AnswerRinging(q, i) \/ AnswerOK(q, i) \/ Hangup(q, i)

(* No method but Dial hands out a slot. *)
LEMMA MethodsKeep ==
    ASSUME LegInv, FirstRound, [Next]_vars, Methods
    PROVE  FirstRound'
<1>0. Inv
  BY DEF LegInv
<1>1. PICK q : /\ SameQueue(q)
               /\ \/ SipSkip(q)
                  \/ \E i \in SipId \cup {InvalidId} :
                        AnswerRinging(q, i) \/ AnswerOK(q, i) \/ Hangup(q, i)
  BY DEF Methods
<1>2. UNCHANGED <<incoming, next_call_id>>
  BY <1>1 DEF SipSkip, AnswerRinging, AnswerOK, Hangup
<1>3. ASSUME NEW j \in SipId, Untouched(j) PROVE Untouched(j)'
  <2>1. CASE SipSkip(q)
    <3>1. PICK e : e = [id |-> InvalidId]
      OBVIOUS
    <3>2. e.id # j
      BY <3>1, SipAssumption
    <3>3. \A n \in 1 .. Len(q) : q[n].id # j
      BY <1>0, <1>1, <1>3, <3>2, UntouchedQueue
    <3> QED
      BY <1>3, <2>1, <3>3 DEF SipSkip, Untouched
  <2>2. ASSUME NEW i \in SipId \cup {InvalidId},
               AnswerRinging(q, i) \/ AnswerOK(q, i) \/ Hangup(q, i),
               ~SipSkip(q)
        PROVE  Untouched(j)'
    <3>1. i \in SipId /\ calls[i] = "live" /\ i # j
      BY <1>3, <2>2 DEF AnswerRinging, AnswerOK, Hangup, CanAnswer, Untouched
    <3>2. \A s : CallStateUpdate(i, s).id = i
      BY DEF CallStateUpdate
    <3>3. PICK e : e.id = i /\ (sip_events' = q \/ sip_events' = Append(q, e))
      BY <2>2, <3>1, <3>2 DEF AnswerRinging, AnswerOK, Hangup
    <3>4. /\ calls' = calls \/ \E s : calls' = [calls EXCEPT ![i] = s]
          /\ \E s : inv' = [inv EXCEPT ![i] = s]
      BY <2>2, <3>1 DEF AnswerRinging, AnswerOK, Hangup
    <3> QED
      BY <1>0, <1>1, <1>3, <3>1, <3>3, <3>4, UntouchedKept
  <2> QED
    BY <1>1, <2>1, <2>2
<1> QED
  BY <1>2, <1>3, RoundKept

(* A handler calls no other, except where it dials. *)
LEMMA LoopMethods == ASSUME LegInv, Loop PROVE Methods
<1>0. /\ SameQueue(sip_events) /\ Inv
      /\ \A c \in Ctx : bridges[c] \in Bridge
  BY DEF SameQueue, LegInv, Inv, BridgeInv
<1>1. ASSUME UNCHANGED sipVars PROVE Methods
  BY <1>0, <1>1 DEF Methods, SipSkip, sipVars
<1>2. ASSUME NEW c, NEW b \in Bridge, NEW q, SameQueue(q), CleanUp(c, b, q)
      PROVE  Methods
  <2>1. b.sip_call_id \in SipId \cup {InvalidId}
    BY DEF Bridge
  <2> QED
    BY <1>2, <2>1 DEF CleanUp, Methods
<1>3. CASE \/ Exit \/ NoInternalEvent \/ NoTgEvent \/ NoSipEvent
           \/ StrayUpdate \/ PendingDialSip \/ PendingReject
           \/ \E c \in Ctx : TgIgnored(c) \/ ReadyFromTg(c)
  BY <1>1, <1>3 DEF Exit, NoInternalEvent, NoTgEvent, NoSipEvent,
        StrayUpdate, PendingDialSip, PendingReject, TgIgnored, ReadyFromTg
<1>4. CASE InternalError
  <2>1. PICK c \in Ctx : c = Head(internal_events)
    BY <1>0, <1>4, HeadTail DEF InternalError, TickStart, Inv, LoopType
  <2>2. CleanUp(c, bridges[c], sip_events) \/ SipSkip(sip_events)
    BY <1>4, <2>1 DEF InternalError
  <2> QED
    BY <1>0, <1>2, <2>2 DEF Methods
<1>5. ASSUME NEW c \in Ctx, ReadyFromSip(c) PROVE Methods
  <2>1. bridges[c].sip_call_id \in SipId \cup {InvalidId}
    BY <1>0 DEF Bridge
  <2> QED
    BY <1>0, <1>5, <2>1 DEF ReadyFromSip, Methods
<1>6. ASSUME NEW c \in Ctx, TgEnded(c) PROVE Methods
  <2>1. [bridges[c] EXCEPT !.tg_call_id = NoTg] \in Bridge
    BY <1>0 DEF Bridge
  <2> QED
    BY <1>0, <1>2, <1>6, <2>1 DEF TgEnded
<1>7. ASSUME NEW c \in Ctx, SipDisconnected(c) PROVE Methods
  <2>1. [bridges[c] EXCEPT !.sip_call_id = InvalidId] \in Bridge
    BY <1>0 DEF Bridge
  <2>2. SameQueue(Tail(sip_events))
    BY <1>7 DEF SipDisconnected, PopSip, SameQueue
  <2> QED
    BY <1>2, <1>7, <2>1, <2>2 DEF SipDisconnected
<1>8. ASSUME sip_events # << >>, SipSkip(Tail(sip_events)) PROVE Methods
  BY <1>8 DEF Methods, SameQueue
<1>9. CASE AcceptIncomingSip
  <2>1. PICK i \in SipId : i = Head(sip_events).id /\ sip_events # << >>
    BY <1>0, <1>9, PopSipFacts DEF AcceptIncomingSip, PopSip, Inv
  <2>2. AnswerRinging(Tail(sip_events), i) \/ SipSkip(Tail(sip_events))
    BY <1>9, <2>1 DEF AcceptIncomingSip
  <2> QED
    BY <1>8, <2>1, <2>2 DEF Methods, SameQueue
<1>10. ASSUME NEW type, StraySipEvent(type) PROVE Methods
  BY <1>8, <1>10 DEF StraySipEvent, PopSip
<1>11. ASSUME NEW c \in Ctx, \/ MediaFromTg(c) \/ EarlyFromSip(c)
                             \/ MediaFromSip(c) \/ SipIgnored(c)
       PROVE  Methods
  BY <1>8, <1>11 DEF MediaFromTg, EarlyFromSip, MediaFromSip, SipIgnored,
                     PopSip
<1> QED
  BY <1>3, <1>4, <1>5, <1>6, <1>7, <1>9, <1>10, <1>11 DEF Loop

(* Distances round the table, from k. *)
LEMMA Distances ==
    ASSUME NEW M \in Nat \ {0}, NEW k \in 0 .. M - 1
    PROVE  /\ (k - k + M) % M = 0
           /\ \A i \in 0 .. M - 1 : (i - k + M) % M <= 0 => i = k
<1>1. (k - k + M) % M = 0
  <2>1. k - k + M = M
    OBVIOUS
  <2>2. M % M = 0
    OBVIOUS
  <2> QED
    BY <2>1, <2>2
<1>2. ASSUME NEW i \in 0 .. M - 1, (i - k + M) % M <= 0 PROVE i = k
  <2>1. PICK a \in 1 .. 2 * M - 1 : a = i - k + M
    OBVIOUS
  <2>2. a % M = 0
    BY <1>2, <2>1
  <2>3. a = M
    BY <2>2
  <2> QED
    BY <2>1, <2>3
<1> QED
  BY <1>1, <1>2

(* The slot after k. *)
LEMMA NextSlot ==
    ASSUME NEW M \in Nat \ {0}, NEW k \in Nat, k + 1 < M
    PROVE  (k + 1) % M = k + 1
  OBVIOUS

(* While one is left, PJSUA hands out the first slot no call has had.      *)
LEMMA HandsOutNext ==
    ASSUME LegInv, NEW k \in 0 .. MaxCalls - 1, HandedOut(k),
           NEW i \in SipId, IsNextSlot(i)
    PROVE  i = k
<1>1. MaxCalls \in Nat \ {0} /\ k \in SipId /\ next_call_id = k
  BY SipAssumption DEF HandedOut
<1>2. k \in FreeSlots
  BY <1>1 DEF HandedOut, Untouched, FreeSlots
<1>3. (i - k + MaxCalls) % MaxCalls <= (k - k + MaxCalls) % MaxCalls
  BY <1>1, <1>2 DEF IsNextSlot, SlotDistance
<1>4. (k - k + MaxCalls) % MaxCalls = 0
  BY <1>1, Distances
<1> QED
  BY <1>1, <1>3, <1>4, Distances

(* After that, one slot fewer is left. *)
LEMMA HandedNext ==
    ASSUME LegInv, NEW k \in 0 .. MaxCalls - 1, HandedOut(k),
           NEW state, NEW r, Emplace(k, state, r), NEW e, e.id = k,
           sip_events' = sip_events \/ sip_events' = Append(sip_events, e),
           k + 1 <= incoming' + ctx_counter',
           query'.op = "getUser" => k + 1 < incoming' + ctx_counter'
    PROVE  FirstRound'
<1>0. Inv /\ MaxCalls \in Nat \ {0} /\ k \in SipId /\ SameQueue(sip_events)
  BY SipAssumption DEF LegInv, SameQueue
<1>1. k + 1 < MaxCalls => next_call_id' = k + 1
  <2>1. next_call_id' = (k + 1) % MaxCalls
    BY DEF Emplace
  <2>2. ASSUME k + 1 < MaxCalls PROVE (k + 1) % MaxCalls = k + 1
    <3>1. k \in Nat
      OBVIOUS
    <3> QED
      BY <1>0, <2>2, <3>1, NextSlot
  <2> QED
    BY <2>1, <2>2
<1>2. ASSUME NEW i \in SipId, i >= k + 1 PROVE Untouched(i)'
  <2>1. Untouched(i) /\ i # k
    BY <1>0, <1>2 DEF HandedOut
  <2>2. /\ calls' = calls \/ \E s : calls' = [calls EXCEPT ![k] = s]
        /\ inv' = inv \/ \E s : inv' = [inv EXCEPT ![k] = s]
    BY DEF Emplace
  <2> QED
    BY <1>0, <2>1, <2>2, UntouchedKept
<1>3. k + 1 \in 0 .. MaxCalls
  BY <1>0
<1>4. HandedOut(k + 1)'
  BY <1>1, <1>2 DEF HandedOut
<1> QED
  BY <1>3, <1>4 DEF FirstRound

(* Every step keeps the first round, if there are slots for all calls. *)
LEMMA RoundStep ==
    ASSUME MaxIncoming + MaxCtx <= MaxCalls, LegInv, FirstRound, [Next]_vars
    PROVE  FirstRound'
<1>0. /\ Inv /\ HandlerInv /\ SameQueue(sip_events)
      /\ incoming \in 0 .. MaxIncoming /\ ctx_counter \in 0 .. MaxCtx
      /\ MaxIncoming \in Nat /\ MaxCtx \in Nat /\ MaxCalls \in Nat \ {0}
  BY SipAssumption, GatewayAssumption
     DEF LegInv, Inv, SipTypeOK, LoopType, SameQueue
<1>1. PICK k \in 0 .. MaxCalls : HandedOut(k)
  BY DEF FirstRound
<1>2. ASSUME UNCHANGED sipVars PROVE FirstRound'
  BY <1>0, <1>2, MethodsKeep DEF Methods, SipSkip, sipVars
<1>3. CASE Signal \/ UNCHANGED vars
  BY <1>2, <1>3 DEF Signal, vars
<1>4. CASE Loop
  BY <1>4, LoopMethods, MethodsKeep
<1>5. CASE UserFound
  <2>1. query.op = "getUser" /\ query' = NoQuery /\ ctx_counter' = ctx_counter
    BY <1>5 DEF UserFound, Answered, Return
  <2>2. ASSUME NEW i \in SipId, Dial(sip_events, i) PROVE FirstRound'
    <3>1. k \in 0 .. MaxCalls - 1
      BY <1>0, <1>1, <2>1 DEF HandedOut
    <3>2. i = k
      BY <1>1, <2>2, <3>1, HandsOutNext DEF Dial
    <3>3. /\ Emplace(k, "CALLING", "UAC") /\ sip_events' = sip_events
          /\ incoming' = incoming
      BY <2>2, <3>2 DEF Dial
    <3>4. k + 1 <= incoming' + ctx_counter' /\ query'.op # "getUser"
      BY <1>0, <1>1, <2>1, <3>3 DEF HandedOut, NoQuery
    <3>5. PICK e : e = [id |-> k]
      OBVIOUS
    <3> QED
      BY <1>1, <3>1, <3>3, <3>4, <3>5, HandedNext
  <2>3. CASE SipSkip(sip_events)
    BY <1>0, <2>3, MethodsKeep DEF Methods
  <2> QED
    BY <1>5, <2>2, <2>3 DEF UserFound
<1>6. CASE UserFailed \/ CallAccepted \/ CallCreated
  BY <1>2, <1>6 DEF UserFailed, CallAccepted, CallCreated
<1>7. CASE CallDiscarded
  <2>1. PICK c \in Ctx : c = query.ctx
    BY <1>0, <1>7 DEF CallDiscarded, Answered, Inv, WaitInv
  <2>2. bridges[c].sip_call_id \in SipId \cup {InvalidId}
    BY <1>0, LegIds DEF Inv
  <2>3. Hangup(sip_events, bridges[c].sip_call_id)
    BY <1>7, <2>1 DEF CallDiscarded
  <2> QED
    BY <1>0, <2>2, <2>3, MethodsKeep DEF Methods
<1>8. CASE SipRemote /\ UNCHANGED gwVars
  <2>0. query' = query /\ ctx_counter' = ctx_counter
    BY <1>8 DEF gwVars
  <2>1. PICK i \in SipId :
           \/ OnIncomingCall(i) \/ OnEarly(i) \/ OnConfirmed(i)
           \/ OnDisconnected(i) \/ \E m \in MediaState : OnMediaState(i, m)
    BY <1>8 DEF SipRemote
  <2>2. CASE OnIncomingCall(i)
    <3>1. incoming < MaxIncoming /\ incoming' = incoming + 1
      BY <2>2 DEF OnIncomingCall
    <3>2. k \in 0 .. MaxCalls - 1
      BY <1>0, <1>1, <3>1 DEF HandedOut
    <3>3. i = k
      BY <1>1, <2>2, <3>2, HandsOutNext DEF OnIncomingCall
    <3>4. Emplace(k, "INCOMING", "UAS")
      BY <2>2, <3>3 DEF OnIncomingCall
    <3>5. PICK e : e.id = k /\ sip_events' = Append(sip_events, e)
      BY <2>2, <3>3 DEF OnIncomingCall, IncomingCall
    <3>6. /\ k + 1 <= incoming' + ctx_counter'
          /\ query'.op = "getUser" => k + 1 < incoming' + ctx_counter'
      BY <1>0, <1>1, <2>0, <3>1 DEF HandedOut
    <3> QED
      BY <1>1, <3>2, <3>4, <3>5, <3>6, HandedNext
  <2>3. CASE ~OnIncomingCall(i)
    <3>1. /\ Alive(i) /\ UNCHANGED <<incoming, next_call_id>>
          /\ calls' = calls \/ \E s : calls' = [calls EXCEPT ![i] = s]
          /\ inv' = inv \/ \E s : inv' = [inv EXCEPT ![i] = s]
      BY <2>1, <2>3 DEF OnEarly, OnConfirmed, OnDisconnected, OnMediaState,
                        Alive
    <3>2. PICK e : e.id = i /\ sip_events' = Append(sip_events, e)
      BY <2>1, <2>3 DEF OnEarly, OnConfirmed, OnDisconnected, OnMediaState,
                        CallStateUpdate, CallMediaStateUpdate
    <3>3. ASSUME NEW j \in SipId, Untouched(j) PROVE Untouched(j)'
      <4>1. i # j
        BY <3>1, <3>3 DEF Alive, Untouched
      <4> QED
        BY <1>0, <3>1, <3>2, <3>3, <4>1, UntouchedKept
    <3> QED
      BY <3>1, <3>3, RoundKept
  <2> QED
    BY <2>2, <2>3
<1>9. CASE Network
  BY <1>2, <1>8, <1>9 DEF Network
<1> QED
  BY <1>3, <1>4, <1>5, <1>6, <1>7, <1>9 DEF Next, Response

(* At the start no slot has been handed out. *)
LEMMA InitRound == Init => FirstRound
<1> SUFFICES ASSUME Init PROVE FirstRound
  OBVIOUS
<1>1. /\ incoming = 0 /\ next_call_id = 0 /\ ctx_counter = 0
      /\ query.op # "getUser" /\ \A i \in SipId : Untouched(i)
  BY DEF Init, SipInit, NoQuery, Untouched
<1>2. 0 \in 0 .. MaxCalls
  BY SipAssumption
<1>3. HandedOut(0)
  BY <1>1 DEF HandedOut
<1> QED
  BY <1>2, <1>3 DEF FirstRound

(* In the first round the gateway dials into a fresh slot. *)
LEMMA RoundIsFresh ==
    ASSUME MaxIncoming + MaxCtx <= MaxCalls, LegInv, FirstRound, UserFound
    PROVE  FreshDial
<1>0. /\ Inv /\ HandlerInv /\ ShapeInv
      /\ incoming \in 0 .. MaxIncoming /\ ctx_counter \in 0 .. MaxCtx
      /\ MaxIncoming \in Nat /\ MaxCtx \in Nat /\ MaxCalls \in Nat \ {0}
      /\ bridges \in [Ctx -> Bridge]
  BY SipAssumption, GatewayAssumption
     DEF LegInv, Inv, SipTypeOK, LoopType, BridgeInv
<1>1. PICK c \in Ctx : c = query.ctx
  BY <1>0 DEF UserFound, Answered, Inv, WaitInv
<1>2. bridges[c].sip_call_id = InvalidId /\ query.op = "getUser"
  <2>1. query.op = "getUser"
    BY DEF UserFound, Answered
  <2> QED
    BY <1>0, <1>1, <2>1 DEF HandlerInv, ShapeInv, BridgeOK
<1>3. SUFFICES ASSUME bridges'[c].sip_call_id # InvalidId
               PROVE  /\ calls[bridges'[c].sip_call_id] = "none"
                      /\ ~SipQueued(CallStateUpdate(bridges'[c].sip_call_id,
                                                    "DISCONNECTED"))
  BY <1>1 DEF FreshDial
<1>4. PICK i \in SipId :
         /\ Dial(sip_events, i)
         /\ bridges' = [bridges EXCEPT ![c].state = "sip_wait_media",
                                       ![c].sip_call_id = i]
  <2>1. ASSUME bridges' = [bridges EXCEPT ![c].state = "sip_wait_media"]
        PROVE  FALSE
    <3>1. bridges'[c].sip_call_id = bridges[c].sip_call_id
      BY <1>0, <2>1 DEF Bridge
    <3> QED
      BY <1>2, <1>3, <3>1
  <2> QED
    BY <1>1, <2>1 DEF UserFound
<1>5. bridges'[c].sip_call_id = i
  BY <1>0, <1>4 DEF Bridge
<1>6. PICK k \in 0 .. MaxCalls : HandedOut(k)
  BY DEF FirstRound
<1>7. k \in 0 .. MaxCalls - 1
  BY <1>0, <1>2, <1>6 DEF HandedOut
<1>8. i = k
  BY <1>4, <1>6, <1>7, HandsOutNext DEF Dial
<1>9. Untouched(i)
  BY <1>6, <1>7, <1>8 DEF HandedOut
<1>10. CallStateUpdate(i, "DISCONNECTED").id = i
  BY DEF CallStateUpdate
<1> QED
  BY <1>5, <1>9, <1>10 DEF Untouched, SipQueued

(* No handler is about to dial. *)
NoDial == query.op # "getUser"

(* Without a callback URI that is so after every step. *)
LEMMA NeverDials ==
    ASSUME ~CallbackUri, NoDial, LegInv, [Next]_vars
    PROVE  NoDial'
<1> USE DEF NoDial
<1>1. Inv /\ HandlerInv
  BY DEF LegInv
<1>2. NoQuery.op # "getUser" /\ \A op, c : Query(op, c).op = op
  BY DEF NoQuery, Query
<1>3. CASE Loop
  <2>1. \/ query' = NoQuery \/ query' = query
        \/ \E c : \/ query' = Query("discardCall", c)
                  \/ query' = Query("acceptCall", c)
                  \/ query' = Query("createCall", c)
    BY <1>3 DEF Loop, Exit, NoInternalEvent, InternalError, NoTgEvent,
          PendingDialSip, PendingReject, StrayUpdate, NoSipEvent,
          AcceptIncomingSip, StraySipEvent, ReadyFromTg, ReadyFromSip,
          TgEnded, TgIgnored, MediaFromTg, EarlyFromSip, MediaFromSip,
          SipDisconnected, SipIgnored, Return, Await, CleanUp
  <2> QED
    BY <1>2, <2>1
<1>4. CASE Response
  BY <1>2, <1>4 DEF Response, UserFound, UserFailed, CallAccepted,
        CallCreated, CallDiscarded, Return
<1>5. CASE Network \/ Signal \/ UNCHANGED vars
  BY <1>5 DEF Network, Signal, vars, gwVars
<1> QED
  BY <1>3, <1>4, <1>5 DEF Next

-----------------------------------------------------------------------------
(* Both legs. *)

(* Neither network is left with a call that nothing will end, as long as   *)
(* the gateway's own calls get slots with nothing left of an old call.     *)
THEOREM Call_NeverOrphaned ==
    Spec /\ [][FreshDial]_vars => []NoOrphanedCall
<1>1. LegInv /\ SipInv => NoOrphanedCall
  BY HeldIsOwned, KnownIsOwned DEF NoOrphanedCall
<1> QED
  BY <1>1, SipInvariance, PTL

(* Under the same condition no bridge waits for a leg that is over.        *)
THEOREM Legs_Accounted ==
    Spec /\ [][FreshDial]_vars => []LegsAccounted
<1>1. LegInv /\ SipInv => LegsAccounted
  BY WaitsAccounted DEF LegsAccounted, LegInv
<1> QED
  BY <1>1, SipInvariance, PTL

(* And a conversation is torn down only when one of its legs has ended or  *)
(* its context has an error: never for the end of somebody else's call.    *)
THEOREM TornDown_ForCause ==
    Spec /\ [][FreshDial]_vars => TornDownForCause
<1>1. LegInv /\ SipInv /\ [Next]_vars =>
         [\A c \in Ctx :
             bridges[c].state = "wait_dtmf" /\ bridges'[c].state = "X" =>
                 \/ ErrorQueued(c)
                 \/ ~Alive(bridges[c].sip_call_id)
                 \/ tg_call[bridges[c].tg_call_id] = "ended"]_vars
  BY TearDown DEF Cause
<1> QED
  BY <1>1, SipInvariance, PTL DEF Spec, TornDownForCause

(* What makes every slot fresh: the gateway never dials, or there are as   *)
(* many slots as calls.                                                    *)
Rested == \/ ~CallbackUri /\ NoDial
          \/ MaxIncoming + MaxCtx <= MaxCalls /\ FirstRound

(* It lasts, and a call that is made then finds a fresh slot. *)
LEMMA RestedStep ==
    ASSUME LegInv, Rested, [Next]_vars
    PROVE  Rested' /\ [FreshDial]_vars
<1>1. CASE ~CallbackUri /\ NoDial
  <2>1. NoDial'
    BY <1>1, NeverDials
  <2>2. FreshDial
    BY <1>1 DEF FreshDial, UserFound, Answered, NoDial
  <2> QED
    BY <1>1, <2>1, <2>2 DEF Rested
<1>2. CASE MaxIncoming + MaxCtx <= MaxCalls /\ FirstRound
  <2>1. FirstRound'
    BY <1>2, RoundStep
  <2>2. FreshDial
    BY <1>2, RoundIsFresh DEF FreshDial
  <2> QED
    BY <1>2, <2>1, <2>2 DEF Rested
<1> QED
  BY <1>1, <1>2 DEF Rested

(* It holds at the start. *)
LEMMA InitRested ==
    ASSUME ~CallbackUri \/ MaxIncoming + MaxCtx <= MaxCalls, Init
    PROVE  Rested
<1>1. NoDial
  BY DEF Init, NoQuery, NoDial
<1>2. FirstRound
  BY InitRound
<1> QED
  BY <1>1, <1>2 DEF Rested

(* The condition holds by itself when there is no callback URI, so that    *)
(* the gateway never dials, and as long as PJSUA's table has not been used *)
(* up once: every call then has a slot of its own.                         *)
THEOREM Fresh_Slots ==
    ASSUME ~CallbackUri \/ MaxIncoming + MaxCtx <= MaxCalls
    PROVE  Spec => [][FreshDial]_vars
<1>1. Init => Rested
  BY InitRested
<1>2. LegInv /\ Rested /\ [Next]_vars => Rested' /\ [FreshDial]_vars
  BY RestedStep
<1> QED
  BY <1>1, <1>2, LegInvariance, PTL DEF Spec

-----------------------------------------------------------------------------
(* The same with messages. *)

(* A message leaves the legs, and the slots, alone. *)
Message == /\ PopMessage /\ query' = NoQuery
           /\ stage' \in {"sip", "aborted"}

LegsAndSlots == LegInv /\ SipInv /\ Rested

(* Every step is one of the gateway or a message. *)
LEMMA DtmfSteps ==
    ASSUME [DtmfNext]_<<vars, dtmfVars>>
    PROVE  [Next]_vars \/ Message
<1>1. CASE MessageDropped
  BY <1>1 DEF MessageDropped, PopMessage, Return, NextStage, AtStage, Message
<1>2. ASSUME NEW c \in Ctx, NEW s \in ChatIds, DialDtmf(c, s)
      PROVE  Message
  BY <1>2 DEF DialDtmf, PopMessage, NextStage, AtStage, Message
<1> QED
  BY <1>1, <1>2 DEF DtmfNext

(* A message keeps the invariant. *)
LEMMA MessageSip == ASSUME LegsAndSlots, Message PROVE LegsAndSlots'
<1>1. /\ UNCHANGED <<sipVars, bridges, ctx_counter, internal_events>>
      /\ query' = query
  BY DEF Message, PopMessage, AtStage
<1>2. LegInv'
  BY MessageLeg DEF Message, LegsAndSlots
<1>3. SipInv'
  <2>1. /\ Up' = Up /\ Gone' = Gone /\ Calling' = Calling
        /\ \A c \in Ctx : /\ SipLeg(c)' = SipLeg(c)
                          /\ InWait(c)' <=> InWait(c)
                          /\ ErrorQueued(c)' <=> ErrorQueued(c)
    BY <1>1 DEF Up, Gone, Calling, Named, Alive, SipLeg, InWait, ErrorQueued,
                sipVars
  <2>2. Heard(sip_events, Up)'
    BY <1>1, <2>1 DEF Heard, LegsAndSlots, SipInv, sipVars
  <2> QED
    BY <2>1, <2>2 DEF SipInv, LegsAndSlots, Known, OneOwner
<1>4. Rested'
  BY <1>1 DEF LegsAndSlots, Rested, NoDial, FirstRound, HandedOut, Untouched,
              sipVars
<1> QED
  BY <1>2, <1>3, <1>4 DEF LegsAndSlots

(* So does every other step. *)
LEMMA LegsAndSlotsStep ==
    ASSUME LegsAndSlots, [DtmfNext]_<<vars, dtmfVars>>
    PROVE  LegsAndSlots'
<1>1. CASE [Next]_vars
  <2>1. LegInv'
    BY <1>1, LegStep DEF LegsAndSlots
  <2>2. Rested' /\ [FreshDial]_vars
    BY <1>1, RestedStep DEF LegsAndSlots
  <2>3. SipInv'
    BY <1>1, <2>2, SipStep DEF LegsAndSlots
  <2> QED
    BY <2>1, <2>2, <2>3 DEF LegsAndSlots
<1>2. CASE Message
  BY <1>2, MessageSip
<1> QED
  BY <1>1, <1>2, DtmfSteps

(* A gateway without a callback URI, however often PJSUA reuses its slots, *)
(* and any gateway until they have been used up once, leaves no call of    *)
(* either network without a bridge, lets no bridge wait for a leg that is  *)
(* over and ends no conversation without a cause, whatever the networks,   *)
(* the queries and the messages do.                                        *)
THEOREM Gateway_Correct ==
    ASSUME ~CallbackUri \/ MaxIncoming + MaxCtx <= MaxCalls
    PROVE  DtmfSpec => []NoOrphanedCall /\ []LegsAccounted /\ TornDownForCause
<1>1. DtmfInit => LegsAndSlots
  BY InitLeg, InitSip, InitRested DEF DtmfInit, LegsAndSlots
<1>2. LegsAndSlots /\ [DtmfNext]_<<vars, dtmfVars>> => LegsAndSlots'
  BY LegsAndSlotsStep
<1>3. LegsAndSlots => NoOrphanedCall /\ LegsAccounted
  BY HeldIsOwned, KnownIsOwned, WaitsAccounted
     DEF LegsAndSlots, NoOrphanedCall, LegsAccounted, LegInv
<1>4. LegsAndSlots /\ [DtmfNext]_<<vars, dtmfVars>> =>
         [\A c \in Ctx :
             bridges[c].state = "wait_dtmf" /\ bridges'[c].state = "X" =>
                 \/ ErrorQueued(c)
                 \/ ~Alive(bridges[c].sip_call_id)
                 \/ tg_call[bridges[c].tg_call_id] = "ended"]_vars
  <2>1. SUFFICES ASSUME LegsAndSlots, [DtmfNext]_<<vars, dtmfVars>>,
                        NEW c \in Ctx, bridges[c].state = "wait_dtmf",
                        bridges'[c].state = "X"
                 PROVE  Cause(c)
    BY DEF Cause
  <2>2. CASE [Next]_vars
    BY <2>1, <2>2, TearDown DEF LegsAndSlots
  <2>3. CASE Message
    BY <2>1, <2>3 DEF Message, PopMessage
  <2> QED
    BY <2>1, <2>2, <2>3, DtmfSteps
<1> QED
  BY <1>1, <1>2, <1>3, <1>4, PTL DEF DtmfSpec, TornDownForCause

(* With messages too, and with slots reused as PJSUA likes, the types, the *)
(* one bridge of a Telegram call, its being accounted for and BridgeAudio  *)
(* before a conversation are kept.                                         *)
THEOREM Dtmf_KeepsTgLegs ==
    DtmfSpec => [](/\ TypeOK /\ UniqueTgLeg /\ NoOrphanedTgCall
                   /\ TgLegAccounted /\ TalkingWasWired)
<1>1. LegInv => TypeOK
  BY DEF LegInv, Inv, TgInv, BridgeInv, WaitInv, LoopType, TypeOK
<1>2. LegInv => UniqueTgLeg
  BY DEF LegInv, Inv, BridgeInv, UniqueTgLeg
<1>3. LegInv => TgLegAccounted /\ TalkingWasWired
  BY DEF LegInv
<1> QED
  BY <1>1, <1>2, <1>3, HeldIsOwned, DtmfInvariance, PTL

=============================================================================
