----------------------------- MODULE SipClient -----------------------------
(***************************************************************************)
(* sip::Client of tg2sip/sip.cpp on top of the PJSUA call table.           *)
(*                                                                         *)
(* Two threads share this state.  PJSIP's worker thread runs the callbacks *)
(* (an incoming call, a call state or media change) and pushes events; the *)
(* gateway thread calls Dial, Answer, Hangup and BridgeAudio.  The         *)
(* callbacks are actions here; the four methods are action fragments that  *)
(* Gateway conjoins into its own steps, so they take the queue the caller  *)
(* has already popped from as their first parameter.                       *)
(*                                                                         *)
(* `calls' is the map from pjsua call id to Call object.  An entry is      *)
(*   none   no object under this id,                                       *)
(*   live   the object of the call that occupies the id now,               *)
(*   stale  the object of a call that was disconnected and not erased.     *)
(* PJSIP's CALLING/CONNECTING/CONFIRMED differ for no guard of the gateway *)
(* (only EARLY and DISCONNECTED are tested), so CONNECTING is folded into  *)
(* CONFIRMED, and the CALLING notification, which no row handles, into the *)
(* stutter of the bridge that owns the call.                               *)
(***************************************************************************)
EXTENDS Integers, Sequences

CONSTANTS
    MaxCalls,      \* PJSUA_MAX_CALLS: slots in the PJSUA call table
    MaxIncoming,   \* bound: INVITEs the PBX sends in one behaviour
    MediaChanges   \* bound: the media changes the PBX makes (see MediaChange)

(* The media changes of a call: an exchange that leaves the audio off, its *)
(* coming up, and its going away.                                          *)
MediaChange == {<<"none", "off">>, <<"none", "active">>, <<"off", "active">>,
                <<"active", "lost">>}

ASSUME SipAssumption ==
    /\ MaxCalls \in Nat \ {0}
    /\ MaxIncoming \in Nat
    /\ MediaChanges \subseteq MediaChange

VARIABLES
    sip_events,    \* OptionalQueue<sip::events::Event>
    calls,         \* Client::calls
    inv,           \* PJSUA: state of the INVITE session in a slot
    media,         \* PJSUA: media of the call in a slot
    role,          \* PJSUA: UAS (the PBX called) or UAC (we called)
    next_call_id,  \* PJSUA: where the search for a free slot starts
    incoming       \* INVITEs received so far

sipVars == <<sip_events, calls, inv, media, role, next_call_id, incoming>>

SipId == 0 .. MaxCalls - 1
InvalidId == -1                                 \* PJSUA_INVALID_ID

InvState == {"NULL", "CALLING", "INCOMING", "EARLY", "CONFIRMED"}
MediaState == {"none", "off", "active", "lost"}

IncomingCall(i, e) == [type |-> "IncomingCall", id |-> i, arg |-> e]
CallStateUpdate(i, s) == [type |-> "CallStateUpdate", id |-> i, arg |-> s]
CallMediaStateUpdate(i, m) ==
    [type |-> "CallMediaStateUpdate", id |-> i,
     arg |-> IF m = "active" THEN "has_media" ELSE "no_media"]

SipEvent ==
    [type : {"IncomingCall"}, id : SipId, arg : {"valid", "invalid"}]
    \cup [type : {"CallStateUpdate"}, id : SipId,
          arg : {"EARLY", "CONFIRMED", "DISCONNECTED"}]
    \cup [type : {"CallMediaStateUpdate"}, id : SipId,
          arg : {"has_media", "no_media"}]

SipTypeOK ==
    /\ sip_events \in Seq(SipEvent)
    /\ calls \in [SipId -> {"none", "live", "stale"}]
    /\ inv \in [SipId -> InvState]
    /\ media \in [SipId -> MediaState]
    /\ role \in [SipId -> {"UAC", "UAS"}]
    /\ next_call_id \in SipId
    /\ incoming \in 0 .. MaxIncoming

SipInit ==
    /\ sip_events = << >>
    /\ calls = [i \in SipId |-> "none"]
    /\ inv = [i \in SipId |-> "NULL"]
    /\ media = [i \in SipId |-> "none"]
    /\ role = [i \in SipId |-> "UAC"]
    /\ next_call_id = 0
    /\ incoming = 0

-----------------------------------------------------------------------------
(* The PJSUA call table. *)

FreeSlots == {i \in SipId : inv[i] = "NULL"}

(* PJSUA hands out the first free slot at or after next_call_id, cyclically. *)
SlotDistance(i) == (i - next_call_id + MaxCalls) % MaxCalls

IsNextSlot(i) ==
    i \in FreeSlots /\ \A j \in FreeSlots : SlotDistance(i) <= SlotDistance(j)

Alive(i) == inv[i] # "NULL"

(* calls.emplace(id, call) keeps an entry that is already there: the new   *)
(* Call object is then destroyed at the end of the caller's scope, and     *)
(* pj::Call's destructor detaches it and hangs the call up.                *)
Emplace(i, state, r) ==
    /\ next_call_id' = (i + 1) % MaxCalls
    /\ IF calls[i] = "none"
       THEN /\ calls' = [calls EXCEPT ![i] = "live"]
            /\ inv' = [inv EXCEPT ![i] = state]
            /\ role' = [role EXCEPT ![i] = r]
       ELSE UNCHANGED <<calls, inv, role>>
    /\ UNCHANGED media

-----------------------------------------------------------------------------
(* Callbacks, on PJSIP's thread. *)

(* The handler Client's constructor registers with the account. *)
OnIncomingCall(i) ==
    /\ incoming < MaxIncoming
    /\ IsNextSlot(i)
    /\ incoming' = incoming + 1
    /\ Emplace(i, "INCOMING", "UAS")
    /\ \E ext \in {"valid", "invalid"} :
          sip_events' = Append(sip_events, IncomingCall(i, ext))

(* onCallState: 180/183 from the callback URI. *)
OnEarly(i) ==
    /\ inv[i] = "CALLING"
    /\ inv' = [inv EXCEPT ![i] = "EARLY"]
    /\ sip_events' = Append(sip_events, CallStateUpdate(i, "EARLY"))
    /\ UNCHANGED <<calls, media, role, next_call_id, incoming>>

(* onCallState: 200 from the callback URI. *)
OnConfirmed(i) ==
    /\ role[i] = "UAC"
    /\ inv[i] \in {"CALLING", "EARLY"}
    /\ inv' = [inv EXCEPT ![i] = "CONFIRMED"]
    /\ sip_events' = Append(sip_events, CallStateUpdate(i, "CONFIRMED"))
    /\ UNCHANGED <<calls, media, role, next_call_id, incoming>>

(* mutant: the entry is erased with the call *)
OnDisconnectedErases(i) ==
    /\ Alive(i)
    /\ inv' = [inv EXCEPT ![i] = "NULL"]
    /\ media' = [media EXCEPT ![i] = "none"]
    /\ calls' = [calls EXCEPT ![i] = "none"]
    /\ sip_events' = Append(sip_events, CallStateUpdate(i, "DISCONNECTED"))
    /\ UNCHANGED <<role, next_call_id, incoming>>

(* onCallState: BYE, CANCEL, a final failure, or a transport timeout.  The *)
(* Call object stays in `calls'.                                           *)
OnDisconnected(i) ==
    /\ Alive(i)
    /\ inv' = [inv EXCEPT ![i] = "NULL"]
    /\ media' = [media EXCEPT ![i] = "none"]
    /\ calls' = [calls EXCEPT ![i] = "stale"]
    /\ sip_events' = Append(sip_events, CallStateUpdate(i, "DISCONNECTED"))
    /\ UNCHANGED <<role, next_call_id, incoming>>

(* onCallMediaState: an offer/answer exchange ended.  A call we made may   *)
(* have early media; one we received has none before it is answered.       *)
(* MediaChange bounds the changes: the audio of a call comes up once.      *)
OnMediaState(i, m) ==
    /\ \/ inv[i] = "CONFIRMED"
       \/ inv[i] = "EARLY" /\ role[i] = "UAC"
    /\ <<media[i], m>> \in MediaChanges
    /\ media' = [media EXCEPT ![i] = m]
    /\ sip_events' = Append(sip_events, CallMediaStateUpdate(i, m))
    /\ UNCHANGED <<calls, inv, role, next_call_id, incoming>>

SipRemote ==
    \E i \in SipId :
        \/ OnIncomingCall(i)
        \/ OnEarly(i)
        \/ OnConfirmed(i)
        \/ OnDisconnected(i)
        \/ \E m \in MediaState : OnMediaState(i, m)

-----------------------------------------------------------------------------
(* Methods, on the gateway thread.  q is the event queue after the pop.    *)

(* No method of the client is called. *)
SipSkip(q) ==
    /\ sip_events' = q
    /\ UNCHANGED <<calls, inv, media, role, next_call_id, incoming>>

(* makeCall fails, with pj::Error, if nothing else then when the table is  *)
(* full.                                                                   *)
Dial(q, i) ==
    /\ IsNextSlot(i)
    /\ Emplace(i, "CALLING", "UAC")
    /\ sip_events' = q
    /\ UNCHANGED incoming

(* Client::Answer throws when the id has no entry (runtime_error) or when  *)
(* the entry's call is over (pj::Error).                                   *)
CanAnswer(i) == i # InvalidId /\ calls[i] = "live"

(* Answer with 180: PJSIP reports EARLY from within the call. *)
AnswerRinging(q, i) ==
    /\ CanAnswer(i)
    /\ inv' = [inv EXCEPT ![i] = "EARLY"]
    /\ sip_events' = Append(q, CallStateUpdate(i, "EARLY"))
    /\ UNCHANGED <<calls, media, role, next_call_id, incoming>>

(* Answer with 200. *)
AnswerOK(q, i) ==
    /\ CanAnswer(i)
    /\ inv' = [inv EXCEPT ![i] = "CONFIRMED"]
    /\ sip_events' = Append(q, CallStateUpdate(i, "CONFIRMED"))
    /\ UNCHANGED <<calls, media, role, next_call_id, incoming>>

(* BridgeAudio throws CALL_NOT_FOUND, SIP_MEDIA_NOT_READY or, for a call   *)
(* that is over, pj::Error.                                                *)
CanBridgeAudio(i) == CanAnswer(i) /\ media[i] = "active"

(* Hangup erases the entry only when pj::Call::hangup does not throw; the  *)
(* DISCONNECTED callback runs from within it, or finds the object gone.    *)
Hangup(q, i) ==
    IF i # InvalidId /\ calls[i] = "live"
    THEN /\ calls' = [calls EXCEPT ![i] = "none"]
         /\ inv' = [inv EXCEPT ![i] = "NULL"]
         /\ media' = [media EXCEPT ![i] = "none"]
         /\ \/ sip_events' = q
            \/ sip_events' = Append(q, CallStateUpdate(i, "DISCONNECTED"))
         /\ UNCHANGED <<role, next_call_id, incoming>>
    ELSE SipSkip(q)
=============================================================================
