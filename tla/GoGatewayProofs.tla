-------------------------- MODULE GoGatewayProofs --------------------------
(***************************************************************************)
(* Proofs about GoGateway, for any sets of calls and channels of any       *)
(* capacity.                                                               *)
(***************************************************************************)
EXTENDS GoGateway, TLAPS

InviteOf(c) == handler[<<"INVITE", c>>]

(* A context knows the leg it was made for; that of a Telegram call never  *)
(* learns the Call-ID of the leg Dial made.                                *)
ContextInv ==
    \A i \in Ids : HasContext(i) =>
        calls[i].SIPCallID = IF i \in SipCalls THEN i ELSE NoCall

(* The context of an INVITE is made before anyone hears of the call, its   *)
(* session after; a clean-up that comes in between finds no session, which *)
(* Hangup reports.                                                         *)
InviteInv ==
    \A c \in SipCalls :
        /\ InviteOf(c) \in {"events", "internal", "track"} =>
              HasContext(c) \/ c \in unhung
        /\ InviteOf(c) # "done" => c \notin sessions

(* Only a SIP request ends a call, and it never names a Telegram call.     *)
CleanupInv ==
    \A n \in 1 .. Len(internalEvents) :
        internalEvents[n].typ = "Cleanup" => internalEvents[n].ctxID \in Legs

(* The loop dials for a context it has just made. *)
LoopInv ==
    loop.pc \in {"events", "internal", "dial"} =>
        loop.id \in TgIds /\ HasContext(loop.id)

SessionInv ==
    /\ \A c \in SipCalls \cap sessions : HasContext(c) \/ c \in unhung
    /\ \A t \in TgIds : Dialled(t) \in sessions => HasContext(t)

Inv == /\ TypeOK /\ ContextInv /\ InviteInv /\ CleanupInv /\ LoopInv
       /\ SessionInv

-----------------------------------------------------------------------------
(* The ids of the two networks do not clash. *)
LEMMA Names ==
    /\ \A t \in TgIds : Dialled(t) \in Legs /\ Dialled(t) \notin SipCalls
    /\ \A c \in SipCalls :
          c \in Legs /\ c \in Ids /\ c \notin TgIds /\ c # NoCall
    /\ \A t \in TgIds : t \in Ids /\ t \notin Legs /\ t \notin SipCalls
    /\ NoCall \notin Legs /\ NoCall \notin Ids
  BY GoAssumption DEF Legs, Ids, Dialled

(* A request is a method and the leg it belongs to. *)
LEMMA RequestParts ==
    /\ \A r \in Requests :
          /\ r[1] \in {"INVITE", "ACK", "INFO", "BYE"} /\ r[2] \in Legs
          /\ r[1] = "INVITE" => r = <<"INVITE", r[2]>> /\ r[2] \in SipCalls
    /\ \A c \in SipCalls : /\ <<"INVITE", c>> \in Requests
                           /\ <<"INVITE", c>>[1] = "INVITE"
                           /\ <<"INVITE", c>>[2] = c
<1>1. ASSUME NEW r \in Requests
      PROVE  /\ r[1] \in {"INVITE", "ACK", "INFO", "BYE"} /\ r[2] \in Legs
             /\ r[1] = "INVITE" => r = <<"INVITE", r[2]>> /\ r[2] \in SipCalls
  <2>1. CASE r \in ({"INVITE"} \cup Methods) \X SipCalls
    <3>1. /\ r = <<r[1], r[2]>> /\ r[2] \in SipCalls
          /\ r[1] = "INVITE" \/ r[1] \in Methods
      BY <2>1
    <3>2. r[1] \in {"INVITE", "ACK", "INFO", "BYE"}
      BY <3>1, GoAssumption
    <3> QED
      BY <3>1, <3>2 DEF Legs
  <2>2. CASE r \in (Methods \ {"ACK"}) \X {Dialled(t) : t \in TgIds}
    BY <2>2, GoAssumption DEF Legs
  <2> QED
    BY <2>1, <2>2 DEF Requests
<1>2. \A c \in SipCalls : /\ <<"INVITE", c>> \in Requests
                          /\ <<"INVITE", c>>[1] = "INVITE"
                          /\ <<"INVITE", c>>[2] = c
  BY DEF Requests
<1> QED
  BY <1>1, <1>2

(* The contexts the handlers make. *)
LEMMA Contexts ==
    /\ NoContext \notin Context
    /\ \A c \in SipCalls : [SIPCallID |-> c, TGCallID |-> NoCall,
                            State |-> "Incoming"] \in Context
    /\ \A t \in TgIds : [SIPCallID |-> NoCall, TGCallID |-> t,
                         State |-> "Outgoing"] \in Context
  BY DEF Context, NoContext

(* A context that is cleaned up loses its session, or Hangup reported that *)
(* it did not.                                                             *)
LEMMA CleanedUp ==
    ASSUME TypeOK, NEW C \in SUBSET Ids, CleanUp(C)
    PROVE  /\ sessions' \subseteq sessions /\ unhung \subseteq unhung'
           /\ unhung' \subseteq Legs
           /\ \A c \in C : calls[c].SIPCallID # NoCall =>
                 \/ calls[c].SIPCallID \in unhung'
                 \/ /\ calls[c].SIPCallID \in sessions
                    /\ calls[c].SIPCallID \notin sessions'
           /\ tgIn' \in [TgIds -> {"none", "pending", "ignored", "accepted",
                                   "discarded"}]
<1> DEFINE legs == {calls[c].SIPCallID : c \in C} \ {NoCall}
<1>1. PICK failed \in SUBSET (legs \cap sessions) :
         /\ sessions' = sessions \ (legs \ failed)
         /\ unhung' = unhung \cup failed \cup (legs \ sessions)
  BY DEF CleanUp
<1>2. PICK ended \in SUBSET {t \in TgIds :
                              \E c \in C : calls[c].TGCallID = t} :
         tgIn' = [t \in TgIds |-> IF t \in ended THEN "discarded" ELSE tgIn[t]]
  BY DEF CleanUp
<1>3. legs \subseteq Legs
  <2>1. \A c \in C : calls[c].SIPCallID \in SipCalls \cup {NoCall}
    BY DEF TypeOK, Context, NoContext
  <2> QED
    BY <2>1 DEF Legs
<1>4. \A c \in C : calls[c].SIPCallID # NoCall => calls[c].SIPCallID \in legs
  OBVIOUS
<1>5. tgIn' \in [TgIds -> {"none", "pending", "ignored", "accepted",
                          "discarded"}]
  BY <1>2 DEF TypeOK
<1> HIDE DEF legs
<1> QED
  BY <1>1, <1>3, <1>4, <1>5 DEF TypeOK

(* What processInternalEvent does with an event: nothing, the end of its   *)
(* context, or another state in it.                                        *)
LEMMA EventHandled ==
    ASSUME TypeOK, ProcessInternalEvent
    PROVE  LET e == Head(internalEvents)
           IN  /\ internalEvents # << >> /\ loop = AtSelect
               /\ internalEvents' = Tail(internalEvents)
               /\ UNCHANGED <<events, handler, loop, tgOut, canceled>>
               /\ \/ UNCHANGED <<calls, sessions, unhung, tgIn>>
                  \/ /\ e.typ = "Cleanup" /\ e.ctxID \in Ids
                     /\ HasContext(e.ctxID) /\ CleanUp({e.ctxID})
                     /\ calls' = [calls EXCEPT ![e.ctxID] = NoContext]
                  \/ /\ calls' \in [Ids -> Context \cup {NoContext}]
                     /\ \A i \in Ids :
                           /\ HasContext(i)' <=> HasContext(i)
                           /\ calls'[i].SIPCallID = calls[i].SIPCallID
                     /\ UNCHANGED <<sessions, unhung, tgIn>>
<1> DEFINE e == Head(internalEvents)
<1>1. /\ internalEvents # << >> /\ loop = AtSelect
      /\ internalEvents' = Tail(internalEvents)
      /\ UNCHANGED <<events, handler, loop, tgOut, canceled>>
  BY DEF ProcessInternalEvent, Known, Selecting
<1>2. CASE e.ctxID \notin Ids \/ ~HasContext(e.ctxID)
  <2>1. UNCHANGED <<calls, sessions, unhung, tgIn>>
    BY <1>2 DEF ProcessInternalEvent, Known
  <2> QED
    BY <1>1, <2>1
<1>3. CASE e.ctxID \in Ids /\ HasContext(e.ctxID) /\ e.typ = "Cleanup"
  BY <1>1, <1>3 DEF ProcessInternalEvent, Known
<1>4. CASE e.ctxID \in Ids /\ HasContext(e.ctxID) /\ e.typ # "Cleanup"
  <2>1. /\ calls' = [calls EXCEPT ![e.ctxID].State = e.typ]
        /\ UNCHANGED <<sessions, unhung, tgIn>>
    BY <1>4 DEF ProcessInternalEvent, Known
  <2>2. e.typ \in {"Incoming", "Outgoing", "WaitMedia", "WaitDTMF"}
    <3> DEFINE Events == [ctxID : Ids \cup Legs,
                          typ : {"Incoming", "Outgoing", "WaitMedia",
                                 "WaitDTMF", "Cleanup"}]
    <3>1. internalEvents \in Seq(Events) /\ internalEvents # << >>
      BY <1>1 DEF TypeOK
    <3>2. ASSUME NEW S, NEW q \in Seq(S), q # << >> PROVE Head(q) \in S
      BY <3>2
    <3> HIDE DEF Events
    <3>3. e \in Events
      BY <3>1, <3>2
    <3> QED
      BY <1>4, <3>3 DEF Events
  <2>3. calls[e.ctxID] \in Context
    BY <1>4 DEF TypeOK, HasContext
  <2>4. [calls[e.ctxID] EXCEPT !.State = e.typ] \in Context
    BY <2>2, <2>3 DEF Context
  <2>5. calls' \in [Ids -> Context \cup {NoContext}]
    BY <2>1, <2>4 DEF TypeOK
  <2>6. \A i \in Ids : /\ HasContext(i)' <=> HasContext(i)
                       /\ calls'[i].SIPCallID = calls[i].SIPCallID
    BY <1>4, <2>1, <2>3, <2>4, Contexts DEF TypeOK, HasContext, Context
  <2> QED
    BY <1>1, <2>1, <2>5, <2>6
<1> QED
  BY <1>2, <1>3, <1>4

(* The invariant holds when the gateway starts. *)
LEMMA InitInv == Init => Inv
<1> SUFFICES ASSUME Init PROVE Inv
  OBVIOUS
<1>1. TypeOK
  <2>1. internalEvents \in Seq([ctxID : Ids \cup Legs,
                                typ : {"Incoming", "Outgoing", "WaitMedia",
                                       "WaitDTMF", "Cleanup"}])
    BY DEF Init
  <2>2. Len(internalEvents) <= Cap /\ events \in 0 .. Cap
    BY GoAssumption DEF Init
  <2> QED
    BY <2>1, <2>2 DEF Init, TypeOK, AtSelect
<1>2. ContextInv /\ InviteInv /\ LoopInv /\ SessionInv
  BY RequestParts DEF Init, ContextInv, InviteInv, InviteOf, LoopInv,
       SessionInv, HasContext, AtSelect
<1>3. CleanupInv
  BY DEF Init, CleanupInv
<1> QED
  BY <1>1, <1>2, <1>3 DEF Inv

(* Every step keeps the types. *)
LEMMA NextType == TypeOK /\ LoopInv /\ [Next]_vars => TypeOK'
<1> SUFFICES ASSUME TypeOK, LoopInv, [Next]_vars PROVE TypeOK'
  OBVIOUS
<1> USE GoAssumption, RequestParts, Names
<1>0. CASE UNCHANGED vars
  BY <1>0 DEF vars, TypeOK
<1>1. ASSUME LogEvent PROVE TypeOK'
  BY <1>1 DEF LogEvent, Selecting, TypeOK
<1>2. ASSUME ProcessInternalEvent PROVE TypeOK'
  <2> DEFINE Events == [ctxID : Ids \cup Legs,
                        typ : {"Incoming", "Outgoing", "WaitMedia",
                               "WaitDTMF", "Cleanup"}]
  <2>1. internalEvents' \in Seq(Events) /\ Len(internalEvents') <= Cap
    <3>1. internalEvents # << >> /\ internalEvents' = Tail(internalEvents)
      BY <1>2, EventHandled
    <3>2. internalEvents \in Seq(Events) /\ Len(internalEvents) <= Cap
      BY DEF TypeOK
    <3> HIDE DEF Events
    <3> QED
      BY <3>1, <3>2
  <2>2. /\ calls' \in [Ids -> Context \cup {NoContext}]
        /\ sessions' \subseteq Legs /\ unhung' \subseteq Legs
        /\ tgIn' \in [TgIds -> {"none", "pending", "ignored", "accepted",
                                "discarded"}]
    BY <1>2, EventHandled, CleanedUp DEF TypeOK
  <2> QED
    BY <1>2, <2>1, <2>2, EventHandled DEF TypeOK
<1>3. ASSUME NEW t \in TgIds, HandleTelegramCall(t) PROVE TypeOK'
  <2>1. calls' \in [Ids -> Context \cup {NoContext}]
    BY <1>3, Contexts DEF HandleTelegramCall, TypeOK
  <2>2. /\ loop' \in [pc : {"select", "events", "internal", "dial",
                            "returned"},
                      id : TgIds \cup {NoCall}]
        /\ tgIn' \in [TgIds -> {"none", "pending", "ignored", "accepted",
                                "discarded"}]
    BY <1>3 DEF HandleTelegramCall, TypeOK
  <2> QED
    BY <1>3, <2>1, <2>2 DEF HandleTelegramCall, TypeOK
<1>4. ASSUME LoopSendEvent PROVE TypeOK'
  BY <1>4 DEF LoopSendEvent, TypeOK
<1>5. ASSUME LoopSendInternal PROVE TypeOK'
  <2>1. Event(loop.id, "Outgoing") \in
           [ctxID : Ids \cup Legs, typ : {"Incoming", "Outgoing", "WaitMedia",
                                          "WaitDTMF", "Cleanup"}]
    BY <1>5 DEF LoopSendInternal, Event, LoopInv, Ids
  <2> QED
    BY <1>5, <2>1 DEF LoopSendInternal, TypeOK
<1>6. ASSUME Dial PROVE TypeOK'
  <2>1. sessions' \subseteq Legs
    BY <1>6 DEF Dial, LoopInv, TypeOK
  <2>2. loop' \in [pc : {"select", "events", "internal", "dial", "returned"},
                   id : TgIds \cup {NoCall}]
    BY <1>6 DEF Dial, AtSelect
  <2> QED
    BY <1>6, <2>1, <2>2 DEF Dial, TypeOK
<1>7. ASSUME Shutdown PROVE TypeOK'
  <2>1. /\ sessions' \subseteq Legs /\ unhung' \subseteq Legs
        /\ tgIn' \in [TgIds -> {"none", "pending", "ignored", "accepted",
                                "discarded"}]
    BY <1>7, CleanedUp DEF Shutdown, TypeOK
  <2>2. loop' \in [pc : {"select", "events", "internal", "dial", "returned"},
                   id : TgIds \cup {NoCall}]
    BY <1>7 DEF Shutdown, TypeOK
  <2> QED
    BY <1>7, <2>1, <2>2 DEF Shutdown, TypeOK
<1>8. ASSUME NEW c \in SipCalls, Invite(c) PROVE TypeOK'
  BY <1>8 DEF Invite, Goto, TypeOK
<1>9. ASSUME NEW r \in Requests, Arrive(r) PROVE TypeOK'
  BY <1>9 DEF Arrive, InDialog, Goto, TypeOK
<1>10. ASSUME NEW t \in TgIds, TgRing(t) PROVE TypeOK'
  BY <1>10 DEF TgRing, TypeOK
<1>11. ASSUME Sigterm PROVE TypeOK'
  BY <1>11 DEF Sigterm, TypeOK
<1>12. ASSUME NEW r \in Requests, SendEvent(r) PROVE TypeOK'
  BY <1>12 DEF SendEvent, Goto, TypeOK
<1>13. ASSUME NEW r \in Requests, SendInternal(r) PROVE TypeOK'
  BY <1>13 DEF SendInternal, Goto, Event, EventType, TypeOK
<1>14. ASSUME NEW c \in SipCalls, CreateCall(c) PROVE TypeOK'
  <2>1. calls' \in [Ids -> Context \cup {NoContext}]
    BY <1>14, Contexts DEF CreateCall, TypeOK
  <2>2. handler' \in [Requests -> {"idle", "create", "events", "internal",
                                   "track", "done", "refused"}]
    <3>1. PICK pc \in {"refused", "events"} :
             handler' = [handler EXCEPT ![<<"INVITE", c>>] = pc]
      BY <1>14 DEF CreateCall, Goto
    <3> QED
      BY <3>1 DEF TypeOK
  <2>3. tgOut' \in [SipCalls -> {"none", "up"}]
    BY <1>14 DEF CreateCall, TypeOK
  <2> QED
    BY <1>14, <2>1, <2>2, <2>3 DEF CreateCall, TypeOK
<1>15. ASSUME NEW c \in SipCalls, TrackInvite(c) PROVE TypeOK'
  BY <1>15 DEF TrackInvite, Goto, TypeOK
<1> QED
  BY <1>0, <1>1, <1>2, <1>3, <1>4, <1>5, <1>6, <1>7, <1>8, <1>9, <1>10, <1>11,
     <1>12, <1>13, <1>14, <1>15, RequestParts
     DEF Next, Loop, Environment, Handle

(* Every step keeps the contexts and their index. *)
LEMMA NextContext == TypeOK /\ ContextInv /\ [Next]_vars => ContextInv'
<1> SUFFICES ASSUME TypeOK, ContextInv, [Next]_vars PROVE ContextInv'
  OBVIOUS
<1>0. CASE UNCHANGED vars
  BY <1>0 DEF vars, TypeOK, ContextInv, HasContext
<1>1. ASSUME LogEvent PROVE ContextInv'
  BY <1>1, Names, Contexts DEF LogEvent, Selecting, TypeOK, ContextInv,
                               HasContext
<1>2. ASSUME ProcessInternalEvent PROVE ContextInv'
  BY <1>2, EventHandled DEF TypeOK, ContextInv, HasContext
<1>3. ASSUME NEW t \in TgIds, HandleTelegramCall(t) PROVE ContextInv'
  BY <1>3, Names, Contexts DEF HandleTelegramCall, Selecting, AtSelect, TypeOK,
                               ContextInv, HasContext
<1>4. ASSUME LoopSendEvent PROVE ContextInv'
  BY <1>4, Names, Contexts DEF LoopSendEvent, TypeOK, ContextInv, HasContext
<1>5. ASSUME LoopSendInternal PROVE ContextInv'
  BY <1>5, Names, Contexts DEF LoopSendInternal, Event, TypeOK, ContextInv,
                               HasContext
<1>6. ASSUME Dial PROVE ContextInv'
  BY <1>6, Names, Contexts DEF Dial, AtSelect, TypeOK, ContextInv, HasContext
<1>7. ASSUME Shutdown PROVE ContextInv'
  BY <1>7, Names, Contexts DEF Shutdown, Selecting, AtSelect, TypeOK,
                               ContextInv, HasContext
<1>8. ASSUME NEW c \in SipCalls, Invite(c) PROVE ContextInv'
  BY <1>8, Names, Contexts DEF Invite, Goto, TypeOK, ContextInv, HasContext
<1>9. ASSUME NEW r \in Requests, Arrive(r) PROVE ContextInv'
  BY <1>9, Names, Contexts DEF Arrive, InDialog, Goto, TypeOK, ContextInv,
                               HasContext
<1>10. ASSUME NEW t \in TgIds, TgRing(t) PROVE ContextInv'
  BY <1>10, Names, Contexts DEF TgRing, TypeOK, ContextInv, HasContext
<1>11. ASSUME Sigterm PROVE ContextInv'
  BY <1>11, Names, Contexts DEF Sigterm, TypeOK, ContextInv, HasContext
<1>12. ASSUME NEW r \in Requests, SendEvent(r) PROVE ContextInv'
  BY <1>12, Names, Contexts DEF SendEvent, Goto, TypeOK, ContextInv, HasContext
<1>13. ASSUME NEW r \in Requests, SendInternal(r) PROVE ContextInv'
  BY <1>13, Names, Contexts DEF SendInternal, Goto, Event, EventType, TypeOK,
                                ContextInv, HasContext
<1>14. ASSUME NEW c \in SipCalls, CreateCall(c) PROVE ContextInv'
  BY <1>14, Names, Contexts DEF CreateCall, Goto, TypeOK, ContextInv,
                                HasContext
<1>15. ASSUME NEW c \in SipCalls, TrackInvite(c) PROVE ContextInv'
  BY <1>15, Names, Contexts DEF TrackInvite, Goto, TypeOK, ContextInv,
                                HasContext
<1> QED
  BY <1>0, <1>1, <1>2, <1>3, <1>4, <1>5, <1>6, <1>7, <1>8, <1>9, <1>10, <1>11,
     <1>12, <1>13, <1>14, <1>15, RequestParts
     DEF Next, Loop, Environment, Handle

(* Every step keeps what is known of the INVITEs. *)
LEMMA NextInvite ==
    TypeOK /\ LoopInv /\ ContextInv /\ InviteInv /\ [Next]_vars => InviteInv'
<1> SUFFICES ASSUME TypeOK, LoopInv, ContextInv, InviteInv, [Next]_vars
             PROVE  InviteInv'
  OBVIOUS
<1>0. CASE UNCHANGED vars
  BY <1>0 DEF vars, TypeOK, InviteInv, InviteOf, HasContext
<1>1. ASSUME LogEvent PROVE InviteInv'
  BY <1>1, Names, Contexts, RequestParts DEF LogEvent, Selecting, TypeOK,
                                             InviteInv, InviteOf, HasContext
<1>2. ASSUME ProcessInternalEvent PROVE InviteInv'
  <2> DEFINE e == Head(internalEvents)
  <2>1. handler' = handler
    BY <1>2, EventHandled
  <2>2. CASE UNCHANGED <<calls, sessions, unhung>>
    BY <2>1, <2>2 DEF InviteInv, InviteOf, HasContext
  <2>3. CASE /\ e.typ = "Cleanup" /\ e.ctxID \in Ids
             /\ HasContext(e.ctxID) /\ CleanUp({e.ctxID})
             /\ calls' = [calls EXCEPT ![e.ctxID] = NoContext]
    <3>1. /\ sessions' \subseteq sessions /\ unhung \subseteq unhung'
          /\ calls[e.ctxID].SIPCallID # NoCall =>
                \/ calls[e.ctxID].SIPCallID \in unhung'
                \/ calls[e.ctxID].SIPCallID \in sessions
      BY <2>3, CleanedUp
    <3>2. ASSUME NEW c \in SipCalls, c # e.ctxID
          PROVE  HasContext(c)' = HasContext(c)
      BY <2>3, <3>2, Names DEF HasContext, TypeOK
    <3>3. ASSUME NEW c \in SipCalls, c = e.ctxID, InviteOf(c) # "done"
          PROVE  c \in unhung'
      <4>1. calls[c].SIPCallID = c /\ c # NoCall
        BY <2>3, <3>3, Names DEF ContextInv
      <4> QED
        BY <3>1, <3>3, <4>1 DEF InviteInv
    <3> QED
      BY <2>1, <3>1, <3>2, <3>3 DEF InviteInv, InviteOf
  <2>4. CASE /\ \A i \in Ids : HasContext(i)' <=> HasContext(i)
             /\ UNCHANGED <<sessions, unhung>>
    BY <2>1, <2>4, Names DEF InviteInv, InviteOf
  <2> QED
    BY <1>2, <2>2, <2>3, <2>4, EventHandled
<1>3. ASSUME NEW t \in TgIds, HandleTelegramCall(t) PROVE InviteInv'
  <2>1. \A c \in SipCalls : calls'[c] = calls[c]
    BY <1>3, Names DEF HandleTelegramCall, TypeOK
  <2> QED
    BY <1>3, <2>1 DEF HandleTelegramCall, InviteInv, InviteOf, HasContext
<1>4. ASSUME LoopSendEvent PROVE InviteInv'
  BY <1>4, Names, Contexts, RequestParts DEF LoopSendEvent, TypeOK, InviteInv,
                                             InviteOf, HasContext
<1>5. ASSUME LoopSendInternal PROVE InviteInv'
  BY <1>5, Names, Contexts, RequestParts DEF LoopSendInternal, Event, TypeOK,
                                             InviteInv, InviteOf, HasContext
<1>6. ASSUME Dial PROVE InviteInv'
  <2>1. \A c \in SipCalls : c \in sessions' => c \in sessions
    BY <1>6, Names DEF Dial, LoopInv
  <2> QED
    BY <1>6, <2>1 DEF Dial, InviteInv, InviteOf, HasContext
<1>7. ASSUME Shutdown PROVE InviteInv'
  <2>1. sessions' \subseteq sessions /\ unhung \subseteq unhung'
    BY <1>7, CleanedUp DEF Shutdown
  <2> QED
    BY <1>7, <2>1 DEF Shutdown, InviteInv, InviteOf, HasContext
<1>8. ASSUME NEW c \in SipCalls, Invite(c) PROVE InviteInv'
  <2>1. /\ InviteOf(c)' \in {"create", "refused"} /\ InviteOf(c) = "idle"
        /\ \A d \in SipCalls : d # c => InviteOf(d)' = InviteOf(d)
    BY <1>8, RequestParts DEF Invite, Goto, TypeOK, InviteOf
  <2> QED
    BY <1>8, <2>1 DEF Invite, InviteInv, HasContext
<1>9. ASSUME NEW r \in Requests, Arrive(r) PROVE InviteInv'
  BY <1>9, Names, Contexts, RequestParts DEF Arrive, InDialog, Goto, TypeOK,
                                             InviteInv, InviteOf, HasContext
<1>10. ASSUME NEW t \in TgIds, TgRing(t) PROVE InviteInv'
  BY <1>10, Names, Contexts, RequestParts DEF TgRing, TypeOK, InviteInv,
                                              InviteOf, HasContext
<1>11. ASSUME Sigterm PROVE InviteInv'
  BY <1>11, Names, Contexts, RequestParts DEF Sigterm, TypeOK, InviteInv,
                                              InviteOf, HasContext
<1>12. ASSUME NEW r \in Requests, SendEvent(r) PROVE InviteInv'
  <2>1. ASSUME NEW d \in SipCalls
        PROVE  \/ InviteOf(d)' = InviteOf(d)
               \/ InviteOf(d) = "events" /\ InviteOf(d)' = "internal"
    <3>1. CASE r = <<"INVITE", d>>
      BY <1>12, <3>1, RequestParts DEF SendEvent, Goto, TypeOK, InviteOf
    <3>2. CASE r # <<"INVITE", d>>
      BY <1>12, <3>2, RequestParts DEF SendEvent, Goto, TypeOK, InviteOf
    <3> QED
      BY <3>1, <3>2
  <2> QED
    BY <1>12, <2>1 DEF SendEvent, InviteInv, HasContext
<1>13. ASSUME NEW r \in Requests, SendInternal(r) PROVE InviteInv'
  <2>1. ASSUME NEW d \in SipCalls
        PROVE  \/ InviteOf(d)' = InviteOf(d)
               \/ InviteOf(d) = "internal" /\ InviteOf(d)' = "track"
    <3>1. CASE r = <<"INVITE", d>>
      BY <1>13, <3>1, RequestParts DEF SendInternal, Goto, TypeOK, InviteOf
    <3>2. CASE r # <<"INVITE", d>>
      BY <1>13, <3>2, RequestParts DEF SendInternal, Goto, TypeOK, InviteOf
    <3> QED
      BY <3>1, <3>2
  <2> QED
    BY <1>13, <2>1 DEF SendInternal, InviteInv, HasContext
<1>14. ASSUME NEW c \in SipCalls, CreateCall(c) PROVE InviteInv'
  <2>1. /\ InviteOf(c) = "create" /\ InviteOf(c)' \in {"events", "refused"}
        /\ \A d \in SipCalls : d # c => InviteOf(d)' = InviteOf(d)
    BY <1>14, RequestParts DEF CreateCall, Goto, TypeOK, InviteOf
  <2>2. /\ InviteOf(c)' = "events" => HasContext(c)'
        /\ \A d \in SipCalls : d # c => calls'[d] = calls[d]
    <3>1. CASE handler' = [handler EXCEPT ![<<"INVITE", c>>] = "events"]
      <4>1. calls' = [calls EXCEPT ![c] =
                        [SIPCallID |-> c, TGCallID |-> NoCall,
                         State |-> "Incoming"]]
        BY <1>14, <3>1, RequestParts DEF CreateCall, Goto, TypeOK
      <4> QED
        BY <4>1, Contexts, Names DEF TypeOK, HasContext
    <3>2. CASE handler' # [handler EXCEPT ![<<"INVITE", c>>] = "events"]
      BY <1>14, <3>2, RequestParts DEF CreateCall, Goto, TypeOK, InviteOf
    <3> QED
      BY <3>1, <3>2
  <2> QED
    BY <1>14, <2>1, <2>2 DEF CreateCall, InviteInv, HasContext
<1>15. ASSUME NEW c \in SipCalls, TrackInvite(c) PROVE InviteInv'
  BY <1>15, Names, Contexts, RequestParts DEF TrackInvite, Goto, TypeOK,
                                              InviteInv, InviteOf, HasContext
<1> QED
  BY <1>0, <1>1, <1>2, <1>3, <1>4, <1>5, <1>6, <1>7, <1>8, <1>9, <1>10, <1>11,
     <1>12, <1>13, <1>14, <1>15, RequestParts
     DEF Next, Loop, Environment, Handle

(* Every step keeps what is known of the clean-ups. *)
LEMMA NextCleanup ==
    TypeOK /\ LoopInv /\ CleanupInv /\ [Next]_vars => CleanupInv'
<1> SUFFICES ASSUME TypeOK, LoopInv, CleanupInv, [Next]_vars PROVE CleanupInv'
  OBVIOUS
<1>0. CASE UNCHANGED vars
  BY <1>0 DEF vars, TypeOK, CleanupInv, InviteOf
<1>1. ASSUME LogEvent PROVE CleanupInv'
  BY <1>1, Names, RequestParts DEF LogEvent, Selecting, TypeOK, CleanupInv,
                                   InviteOf
<1>2. ASSUME ProcessInternalEvent PROVE CleanupInv'
  <2>1. /\ internalEvents # << >> /\ internalEvents' = Tail(internalEvents)
        /\ handler' = handler
    BY <1>2, EventHandled
  <2>2. \A n \in 1 .. Len(internalEvents') :
           /\ n + 1 \in 1 .. Len(internalEvents)
           /\ internalEvents'[n] = internalEvents[n + 1]
    BY <2>1 DEF TypeOK
  <2> QED
    BY <2>1, <2>2 DEF CleanupInv, InviteOf
<1>3. ASSUME NEW t \in TgIds, HandleTelegramCall(t) PROVE CleanupInv'
  BY <1>3, Names, RequestParts DEF HandleTelegramCall, Selecting, AtSelect,
                                   TypeOK, CleanupInv, InviteOf
<1>4. ASSUME LoopSendEvent PROVE CleanupInv'
  BY <1>4, Names, RequestParts DEF LoopSendEvent, TypeOK, CleanupInv, InviteOf
<1>5. ASSUME LoopSendInternal PROVE CleanupInv'
  BY <1>5, Names, RequestParts DEF LoopSendInternal, Event, TypeOK, CleanupInv,
                                   InviteOf
<1>6. ASSUME Dial PROVE CleanupInv'
  BY <1>6, Names, RequestParts DEF Dial, AtSelect, TypeOK, CleanupInv, InviteOf
<1>7. ASSUME Shutdown PROVE CleanupInv'
  BY <1>7, Names, RequestParts DEF Shutdown, Selecting, AtSelect, TypeOK,
                                   CleanupInv, InviteOf
<1>8. ASSUME NEW c \in SipCalls, Invite(c) PROVE CleanupInv'
  BY <1>8, Names, RequestParts DEF Invite, Goto, TypeOK, CleanupInv, InviteOf
<1>9. ASSUME NEW r \in Requests, Arrive(r) PROVE CleanupInv'
  BY <1>9, Names, RequestParts DEF Arrive, InDialog, Goto, TypeOK, CleanupInv,
                                   InviteOf
<1>10. ASSUME NEW t \in TgIds, TgRing(t) PROVE CleanupInv'
  BY <1>10, Names, RequestParts DEF TgRing, TypeOK, CleanupInv, InviteOf
<1>11. ASSUME Sigterm PROVE CleanupInv'
  BY <1>11, Names, RequestParts DEF Sigterm, TypeOK, CleanupInv, InviteOf
<1>12. ASSUME NEW r \in Requests, SendEvent(r) PROVE CleanupInv'
  BY <1>12, Names, RequestParts DEF SendEvent, Goto, TypeOK, CleanupInv,
                                    InviteOf
<1>13. ASSUME NEW r \in Requests, SendInternal(r) PROVE CleanupInv'
  BY <1>13, Names, RequestParts DEF SendInternal, Goto, Event, EventType,
                                    TypeOK, CleanupInv, InviteOf
<1>14. ASSUME NEW c \in SipCalls, CreateCall(c) PROVE CleanupInv'
  BY <1>14, Names, RequestParts DEF CreateCall, Goto, TypeOK, CleanupInv,
                                    InviteOf
<1>15. ASSUME NEW c \in SipCalls, TrackInvite(c) PROVE CleanupInv'
  BY <1>15, Names, RequestParts DEF TrackInvite, Goto, TypeOK, CleanupInv,
                                    InviteOf
<1> QED
  BY <1>0, <1>1, <1>2, <1>3, <1>4, <1>5, <1>6, <1>7, <1>8, <1>9, <1>10, <1>11,
     <1>12, <1>13, <1>14, <1>15, RequestParts
     DEF Next, Loop, Environment, Handle

(* Every step keeps the event loop's own state. *)
LEMMA NextLoop == TypeOK /\ LoopInv /\ [Next]_vars => LoopInv'
<1> SUFFICES ASSUME TypeOK, LoopInv, [Next]_vars PROVE LoopInv'
  OBVIOUS
<1>0. CASE UNCHANGED vars
  BY <1>0 DEF vars, TypeOK, LoopInv, HasContext
<1>1. ASSUME LogEvent PROVE LoopInv'
  BY <1>1, Names, Contexts DEF LogEvent, Selecting, TypeOK, LoopInv, HasContext
<1>2. ASSUME ProcessInternalEvent PROVE LoopInv'
  BY <1>2, EventHandled DEF LoopInv, AtSelect
<1>3. ASSUME NEW t \in TgIds, HandleTelegramCall(t) PROVE LoopInv'
  BY <1>3, Names, Contexts DEF HandleTelegramCall, Selecting, AtSelect, TypeOK,
                               LoopInv, HasContext
<1>4. ASSUME LoopSendEvent PROVE LoopInv'
  BY <1>4, Names, Contexts DEF LoopSendEvent, TypeOK, LoopInv, HasContext
<1>5. ASSUME LoopSendInternal PROVE LoopInv'
  BY <1>5, Names, Contexts DEF LoopSendInternal, Event, TypeOK, LoopInv,
                               HasContext
<1>6. ASSUME Dial PROVE LoopInv'
  BY <1>6, Names, Contexts DEF Dial, AtSelect, TypeOK, LoopInv, HasContext
<1>7. ASSUME Shutdown PROVE LoopInv'
  BY <1>7, Names, Contexts DEF Shutdown, Selecting, AtSelect, TypeOK, LoopInv,
                               HasContext
<1>8. ASSUME NEW c \in SipCalls, Invite(c) PROVE LoopInv'
  BY <1>8, Names, Contexts DEF Invite, Goto, TypeOK, LoopInv, HasContext
<1>9. ASSUME NEW r \in Requests, Arrive(r) PROVE LoopInv'
  BY <1>9, Names, Contexts DEF Arrive, InDialog, Goto, TypeOK, LoopInv,
                               HasContext
<1>10. ASSUME NEW t \in TgIds, TgRing(t) PROVE LoopInv'
  BY <1>10, Names, Contexts DEF TgRing, TypeOK, LoopInv, HasContext
<1>11. ASSUME Sigterm PROVE LoopInv'
  BY <1>11, Names, Contexts DEF Sigterm, TypeOK, LoopInv, HasContext
<1>12. ASSUME NEW r \in Requests, SendEvent(r) PROVE LoopInv'
  BY <1>12, Names, Contexts DEF SendEvent, Goto, TypeOK, LoopInv, HasContext
<1>13. ASSUME NEW r \in Requests, SendInternal(r) PROVE LoopInv'
  BY <1>13, Names, Contexts DEF SendInternal, Goto, Event, EventType, TypeOK,
                                LoopInv, HasContext
<1>14. ASSUME NEW c \in SipCalls, CreateCall(c) PROVE LoopInv'
  BY <1>14, Names, Contexts DEF CreateCall, Goto, TypeOK, LoopInv, HasContext
<1>15. ASSUME NEW c \in SipCalls, TrackInvite(c) PROVE LoopInv'
  BY <1>15, Names, Contexts DEF TrackInvite, Goto, TypeOK, LoopInv, HasContext
<1> QED
  BY <1>0, <1>1, <1>2, <1>3, <1>4, <1>5, <1>6, <1>7, <1>8, <1>9, <1>10, <1>11,
     <1>12, <1>13, <1>14, <1>15, RequestParts
     DEF Next, Loop, Environment, Handle

(* Every step keeps the sessions. *)
LEMMA NextSession ==
    /\ TypeOK /\ ContextInv /\ InviteInv /\ CleanupInv /\ LoopInv /\ SessionInv
    /\ [Next]_vars
    => SessionInv'
<1> SUFFICES ASSUME TypeOK, ContextInv, InviteInv, CleanupInv, LoopInv,
                    SessionInv, [Next]_vars
             PROVE  SessionInv'
  OBVIOUS
<1>0. CASE UNCHANGED vars
  BY <1>0 DEF vars, TypeOK, SessionInv, HasContext
<1>1. ASSUME LogEvent PROVE SessionInv'
  BY <1>1, Names, Contexts DEF LogEvent, Selecting, TypeOK, SessionInv,
                               HasContext
<1>2. ASSUME ProcessInternalEvent PROVE SessionInv'
  <2> DEFINE e == Head(internalEvents)
  <2>1. CASE UNCHANGED <<calls, sessions, unhung>>
    BY <2>1 DEF SessionInv, HasContext
  <2>2. CASE /\ e.typ = "Cleanup" /\ e.ctxID \in Ids
             /\ HasContext(e.ctxID) /\ CleanUp({e.ctxID})
             /\ calls' = [calls EXCEPT ![e.ctxID] = NoContext]
    <3>1. e.ctxID \in SipCalls
      <4>1. internalEvents # << >>
        BY <1>2, EventHandled
      <4>2. 1 \in 1 .. Len(internalEvents) /\ e = internalEvents[1]
        BY <4>1 DEF TypeOK
      <4>3. e.ctxID \in Legs
        BY <2>2, <4>2 DEF CleanupInv
      <4> QED
        BY <2>2, <4>3, Names DEF Ids
    <3>2. /\ sessions' \subseteq sessions /\ unhung \subseteq unhung'
          /\ e.ctxID \in sessions' => e.ctxID \in unhung'
      <4>1. calls[e.ctxID].SIPCallID = e.ctxID /\ e.ctxID # NoCall
        BY <2>2, <3>1, Names DEF ContextInv
      <4> QED
        BY <2>2, <4>1, CleanedUp
    <3>3. \A i \in Ids : i # e.ctxID => HasContext(i)' = HasContext(i)
      BY <2>2 DEF HasContext, TypeOK
    <3> QED
      BY <3>1, <3>2, <3>3, Names DEF SessionInv
  <2>3. CASE /\ \A i \in Ids : HasContext(i)' <=> HasContext(i)
             /\ UNCHANGED <<sessions, unhung>>
    BY <2>3, Names DEF SessionInv
  <2> QED
    BY <1>2, <2>1, <2>2, <2>3, EventHandled
<1>3. ASSUME NEW t \in TgIds, HandleTelegramCall(t) PROVE SessionInv'
  BY <1>3, Names, Contexts DEF HandleTelegramCall, Selecting, AtSelect, TypeOK,
                               SessionInv, HasContext
<1>4. ASSUME LoopSendEvent PROVE SessionInv'
  BY <1>4, Names, Contexts DEF LoopSendEvent, TypeOK, SessionInv, HasContext
<1>5. ASSUME LoopSendInternal PROVE SessionInv'
  BY <1>5, Names, Contexts DEF LoopSendInternal, Event, TypeOK, SessionInv,
                               HasContext
<1>6. ASSUME Dial PROVE SessionInv'
  <2>1. loop.id \in TgIds /\ HasContext(loop.id)
    BY <1>6 DEF Dial, LoopInv
  <2>2. \A t \in TgIds : Dialled(t) = Dialled(loop.id) => t = loop.id
    BY DEF Dialled
  <2>3. \A l \in sessions' : l \in sessions \/ l = Dialled(loop.id)
    BY <1>6 DEF Dial
  <2> QED
    BY <1>6, <2>1, <2>2, <2>3, Names DEF Dial, SessionInv, HasContext
<1>7. ASSUME Shutdown PROVE SessionInv'
  <2>1. sessions' \subseteq sessions /\ unhung \subseteq unhung'
    BY <1>7, CleanedUp DEF Shutdown
  <2> QED
    BY <1>7, <2>1 DEF Shutdown, SessionInv, HasContext
<1>8. ASSUME NEW c \in SipCalls, Invite(c) PROVE SessionInv'
  BY <1>8, Names, Contexts DEF Invite, Goto, TypeOK, SessionInv, HasContext
<1>9. ASSUME NEW r \in Requests, Arrive(r) PROVE SessionInv'
  BY <1>9, Names, Contexts DEF Arrive, InDialog, Goto, TypeOK, SessionInv,
                               HasContext
<1>10. ASSUME NEW t \in TgIds, TgRing(t) PROVE SessionInv'
  BY <1>10, Names, Contexts DEF TgRing, TypeOK, SessionInv, HasContext
<1>11. ASSUME Sigterm PROVE SessionInv'
  BY <1>11, Names, Contexts DEF Sigterm, TypeOK, SessionInv, HasContext
<1>12. ASSUME NEW r \in Requests, SendEvent(r) PROVE SessionInv'
  BY <1>12, Names, Contexts DEF SendEvent, Goto, TypeOK, SessionInv, HasContext
<1>13. ASSUME NEW r \in Requests, SendInternal(r) PROVE SessionInv'
  BY <1>13, Names, Contexts DEF SendInternal, Goto, Event, EventType, TypeOK,
                                SessionInv, HasContext
<1>14. ASSUME NEW c \in SipCalls, CreateCall(c) PROVE SessionInv'
  BY <1>14, Names, Contexts DEF CreateCall, Goto, TypeOK, SessionInv,
                                HasContext
<1>15. ASSUME NEW c \in SipCalls, TrackInvite(c) PROVE SessionInv'
  <2>1. HasContext(c) \/ c \in unhung
    BY <1>15 DEF TrackInvite, InviteInv, InviteOf
  <2>2. \A t \in TgIds : Dialled(t) # c
    BY Names
  <2> QED
    BY <1>15, <2>1, <2>2 DEF TrackInvite, SessionInv, HasContext
<1> QED
  BY <1>0, <1>1, <1>2, <1>3, <1>4, <1>5, <1>6, <1>7, <1>8, <1>9, <1>10, <1>11,
     <1>12, <1>13, <1>14, <1>15, RequestParts
     DEF Next, Loop, Environment, Handle

(* So every step keeps the invariant. *)
LEMMA NextInv == Inv /\ [Next]_vars => Inv'
  BY NextType, NextContext, NextInvite, NextCleanup, NextLoop, NextSession
     DEF Inv

(* And it always holds. *)
LEMMA AlwaysInv == Spec => []Inv
  BY InitInv, NextInv, PTL DEF Spec

-----------------------------------------------------------------------------
(* Every SIP session has a context in Gateway.calls by which its end is    *)
(* found, or cleanUp dropped an error of Hangup for its leg, whatever the  *)
(* order in which the goroutines of INVITE and BYE and the loop go through *)
(* the two tables; a BYE may come while its INVITE is still being handled  *)
(* (gateway.go:314, 447-454, 482, sipclient.go:64-66, 189-222).            *)
THEOREM Session_HasContext == Spec => []SessionHasContext
<1>1. Inv => SessionHasContext
  BY DEF Inv, SessionInv, SessionHasContext
<1> QED
  BY <1>1, AlwaysInv, PTL

=============================================================================
