------------------------------ MODULE TgCalls ------------------------------
(***************************************************************************)
(* The Telegram side as the gateway sees it: TDLib's calls, the updateCall *)
(* events tg::Client::process_update pushes, and the effect of the call    *)
(* queries the gateway sends.  TDLib itself is external; only what the     *)
(* gateway can observe of it is kept.                                      *)
(*                                                                         *)
(* callStateDiscarded and callStateError are tested together by every row  *)
(* of the state machine, so both are the update state "Ended".             *)
(* callStateExchangingKeys and HangingUp are matched by no row and left    *)
(* out.                                                                    *)
(***************************************************************************)
EXTENDS Integers, Sequences

CONSTANTS
    TgIn,     \* ids of the calls Telegram users place
    TgOut,    \* ids TDLib hands out to the calls the gateway places
    NoTg,     \* tg_call_id = 0: no call
    Repeats   \* BOOLEAN: TDLib reports callStatePending a second time

ASSUME TgAssumption ==
    /\ TgIn \cap TgOut = {}
    /\ NoTg \notin TgIn \cup TgOut
    /\ Repeats \in BOOLEAN

VARIABLES
    tg_events,  \* OptionalQueue<tg::Client::Object>
    tg_call     \* TDLib: the state of every call

tgVars == <<tg_events, tg_call>>

TgId == TgIn \cup TgOut

TgCallState ==
    {"none", "pending", "received", "accepted", "ready", "discarding", "ended"}

(* A call that rings or talks, and that only a discard or its peer ends. *)
TgLive(t) == tg_call[t] \in {"pending", "received", "accepted", "ready"}

UpdateCall(t, s) == [id |-> t, state |-> s]
TgEvent == [id : TgId, state : {"Pending", "Ready", "Ended"}]

TgTypeOK ==
    /\ tg_events \in Seq(TgEvent)
    /\ tg_call \in [TgId -> TgCallState]

TgInit ==
    /\ tg_events = << >>
    /\ tg_call = [t \in TgId |-> "none"]

(* TDLib moves a call and reports it; process_update pushes the update. *)
TgMove(t, state, update) ==
    /\ tg_call' = [tg_call EXCEPT ![t] = state]
    /\ tg_events' = Append(tg_events, UpdateCall(t, update))

-----------------------------------------------------------------------------
TgRing(t) ==
    /\ t \in TgIn
    /\ tg_call[t] = "none"
    /\ TgMove(t, "pending", "Pending")

(* callStatePending is reported again when is_received_ turns true. *)
TgReceived(t) ==
    /\ Repeats
    /\ t \in TgIn
    /\ tg_call[t] = "pending"
    /\ TgMove(t, "received", "Pending")

(* The key exchange is over: the peer answered, or we accepted. *)
TgReady(t) ==
    /\ tg_call[t] = IF t \in TgIn THEN "accepted" ELSE "pending"
    /\ TgMove(t, "ready", "Ready")

(* The peer hangs up, the call fails, or our discard takes effect. *)
TgEnd(t) ==
    /\ TgLive(t) \/ tg_call[t] = "discarding"
    /\ TgMove(t, "ended", "Ended")

TgRemote ==
    \E t \in TgId : TgRing(t) \/ TgReceived(t) \/ TgReady(t) \/ TgEnd(t)

-----------------------------------------------------------------------------
(* Successful queries of the gateway. *)

AcceptCall(t) ==
    /\ tg_call[t] \in {"pending", "received"}
    /\ tg_call' = [tg_call EXCEPT ![t] = "accepted"]
    /\ UNCHANGED tg_events

CreateCall(t) ==
    /\ t \in TgOut
    /\ tg_call[t] = "none"
    /\ TgMove(t, "pending", "Pending")

DiscardCall(t) ==
    /\ TgLive(t)
    /\ tg_call' = [tg_call EXCEPT ![t] = "discarding"]
    /\ UNCHANGED tg_events
=============================================================================
