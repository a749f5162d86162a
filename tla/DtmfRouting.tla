---------------------------- MODULE DtmfRouting ----------------------------
(***************************************************************************)
(* The updateNewMessage events of tg2sip/gateway.cpp: a text message with  *)
(* DTMF digits is routed by Context::user_id to the bridge of its sender,  *)
(* whose wait_dtmf row dials the digits into the SIP leg.                  *)
(*                                                                         *)
(* Messages share the Telegram queue with the call updates but depend on   *)
(* nothing in it, so a message is chosen when it is popped.                *)
(*                                                                         *)
(* The sender test is the code's: a message whose sender is a              *)
(* messageSenderUser is dropped, and any other sender is cast to one, so   *)
(* the chat_id_ of a messageSenderChat is compared with the user ids.      *)
(***************************************************************************)
EXTENDS Gateway

CONSTANTS
    UserOf,       \* the user at the other end of a Telegram call
    ChatIds,      \* chat_id_ of the chats messages are sent as
    MaxMessages   \* bound: messages popped in one behaviour

VARIABLES
    user_id,      \* Context::user_id
    messages      \* messages popped so far

dtmfVars == <<user_id, messages>>

NoUser == 0
Users == {UserOf[t] : t \in TgId}

ASSUME DtmfAssumption ==
    /\ DOMAIN UserOf = TgId /\ NoUser \notin Users \cup ChatIds
    /\ MaxMessages \in Nat

DtmfInit ==
    /\ Init
    /\ user_id = [c \in Ctx |-> NoUser]
    /\ messages = 0

-----------------------------------------------------------------------------
(* The rows that run StoreTgUserId: init on an incoming Telegram call, and *)
(* wait_tg of from_sip on callStateReady.                                  *)
StoresUser(c) ==
    \/ ~Exists(c) /\ bridges'[c].from = "tg" /\ bridges'[c].state = "init"
    \/ /\ bridges[c].from = "sip"
       /\ bridges[c].state = "wait_tg" /\ bridges'[c].state = "sip_wait_media"

StoreTgUserId(c) == user_id'[c] = UserOf[bridges'[c].tg_call_id]

(* AcceptIncomingSip stores the user of an extension that is a number; a   *)
(* name or a phone number leaves user_id as the constructor set it.        *)
AcceptsExtension(c) ==
    /\ ~Exists(c) /\ bridges'[c].from = "sip"
    /\ Head(sip_events).arg = "valid"

(* dial_by_id calls the user whose id the context holds. *)
CreatesCall(c) ==
    query = Query("createCall", c) /\ bridges'[c].tg_call_id # NoTg

ContextUsers ==
    /\ user_id' \in [Ctx -> Users \cup {NoUser}]
    /\ \A c \in Ctx :
          /\ StoresUser(c) => StoreTgUserId(c)
          /\ bridges'[c].from = "none" => user_id'[c] = NoUser
          /\ \/ StoresUser(c) \/ AcceptsExtension(c)
             \/ bridges'[c].from = "none" \/ user_id'[c] = user_id[c]
          /\ CreatesCall(c) =>
                user_id[c] \in {NoUser, UserOf[bridges'[c].tg_call_id]}

PopMessage ==
    /\ AtStage("tg")
    /\ messages < MaxMessages
    /\ messages' = messages + 1
    /\ UNCHANGED <<sipVars, tgVars, bridges, ctx_counter, internal_events,
                   e_flag, undiscarded, user_id>>

Matches(s) == {c \in Ctx : Exists(c) /\ user_id[c] = s}

Routed(c, s) == Matches(s) = {c}

(* A messageSenderUser returns early.  A chat that matches no bridge, or   *)
(* two ("ambiguous message"), goes nowhere; nor does a message without     *)
(* digits, or one no row of its bridge's state takes.                      *)
MessageDropped ==
    /\ PopMessage
    /\ Return

(* wait_dtmf: sip::Client::DialDtmf throws pj::Error for a call that is    *)
(* over, which is caught, and std::runtime_error for an id without an      *)
(* entry, which nothing catches.                                           *)
DialDtmf(c, s) ==
    /\ PopMessage
    /\ Routed(c, s)
    /\ bridges[c].state = "wait_dtmf"
    /\ stage' = IF calls[bridges[c].sip_call_id] = "none"
                THEN "aborted" ELSE NextStage
    /\ query' = NoQuery

DtmfNext ==
    \/ Next /\ ContextUsers /\ UNCHANGED messages
    \/ MessageDropped
    \/ \E c \in Ctx, s \in ChatIds : DialDtmf(c, s)

DtmfSpec == DtmfInit /\ [][DtmfNext]_<<vars, dtmfVars>>

(* As in Gateway: the loop and TDLib's answers go on. *)
DtmfFairSpec == DtmfSpec /\ WF_vars(Loop) /\ WF_vars(Response)
-----------------------------------------------------------------------------
(* Correctness. *)

(* A message never ends the process: whatever the SIP side did since the   *)
(* conversation was established, its id still has an entry in              *)
(* Client::calls, so DialDtmf never throws the std::runtime_error that     *)
(* actions::DialDtmf does not catch (gateway.cpp:586).                     *)
DtmfFindsCall ==
    \A c \in Ctx :
        bridges[c].state = "wait_dtmf" => calls[bridges[c].sip_call_id] # "none"
=============================================================================
