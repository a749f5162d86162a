# tg2sip in TLA+

tg2sip is a gateway between Telegram voice calls and SIP. A Telegram user who
calls the gateway's account is put through to one SIP URI (`callback_uri`); a
call from the PBX to an extension `tg#name`, `+number` or a user id is put
through to that Telegram user. This directory holds TLA+ models of the C++
gateway (`src/tg2sip`), of its rewrite in Go (`src/go`) and of the parts of the
bundled libtgvoip that decide whether a call's sound gets through, the TLC
configurations that check them, and proofs checked by TLAPS.

## The system

| part | state it keeps | operations | thread |
|---|---|---|---|
| `Gateway` (gateway.cpp) | `bridges`, `internal_events`, `cache_`, `block_until`, `e_flag` | `start` (the loop), `load_cache`, `process_event` for updateCall, updateNewMessage, the three SIP events and InternalError | main |
| `state_machine` (gateway.cpp) | per bridge: an sml state and a `Context` (both call ids, the controller, what was dialled) | `DialSip`, `AnswerTg`, `AcceptIncomingSip`, `DialTg`, `AnswerSip`, `CreateTgVoip`, `BridgeAudio`, `DialDtmf`, `CleanUp` | main |
| `sip::Client` (sip.cpp) | `calls`: pjsua id to `Call` object | `Dial`, `Answer`, `Hangup`, `BridgeAudio`, `DialDtmf`; callbacks for an incoming call, a call state, a media state | callbacks on PJSIP's worker, the rest on main |
| `tg::Client` (tg.cpp) | `handlers`, `current_query_id`, `is_ready_` | `send_query`, `send_query_async`, `process_response`, `process_update`, authorization | receive loop on its own thread |
| `OptionalQueue` (queue.h) | a mutex and a `std::queue` | `emplace`, `pop` | all |
| `main`, `Settings`, `gen_db`, logging | configuration | start-up, shut-down, login | main |
| Go `Gateway` (go/gateway.go) | call table, two channels of 16, `blockUntil` | `Start` (the loop), handlers of INVITE, ACK, INFO and BYE, `cleanUp` | the loop, and a goroutine per SIP request |
| Go `SIPClient`, `ContactCache` | sessions; usernames and phones to user ids | `TrackInvite`, `Dial`, `Hangup`; `Refresh`, `Update`, `SearchAndAdd` | loop and request goroutines, an hourly ticker |
| `VoIPController` (libtgvoip) | sequence numbers, receive window, extras, reliable packets, call state | sending, receiving, INIT handshake, timeouts | sender, receiver, message thread, encoder |
| `MessageThread` | ordered queue of functions | `Post`, `Cancel`, `Stop`, `Run` | its own |
| audio path (`SoftwareAudio*`, `OpusEncoder`, `OpusDecoder`, `EchoCanceller`) | pools and `BlockingQueue`s | 10 ms callbacks, three threads, `Stop` and deletion | PJSUA's clock, encoder, decoder, far end, main |

The parts meet in three queues. PJSIP's worker pushes SIP events, the Telegram
thread pushes updates, the handlers push InternalErrors at themselves; the main
thread pops one of each per tick and runs the state machine of the bridge the
event belongs to. Handlers call the SIP client directly, and block in
`send_query_async(...).get()` for Telegram. A bridge that talks owns a
VoIPController, whose audio ports PJSUA's conference bridge calls on its clock
thread; the gateway sets no callbacks and uses Start, Connect, Stop and deletion.

In the Go rewrite gosip runs a goroutine per request; they meet the loop in two
bounded channels, and the loop also writes to the channels it reads.

What is hard, and what correctness means for each part:

* **Two networks move while a handler waits.** Either leg may end while the
  handler waits for getUser, acceptCall, createCall or discardCall. No leg may
  be left without a bridge, and no bridge on a dead leg without an event coming
  that removes it.
* **Ids are the only link.** Events find their bridge by `tg_call_id` or
  `sip_call_id`, ids are cleared before clean-up, and PJSUA reuses its ids. An
  event must not reach a stranger's conversation.
* **Every step can fail half-way**, and failures are reported through a queue
  which must lead to clean-up.
* **Everything ends.** When a leg is over, the bridge goes away.
* **Flood control** over time: a demand of Telegram to slow down must not be cut
  short by another one.
* **Caches**: the user who is called is the one who was asked for.
* **Bounded channels** (Go): nobody may wait for a channel that only he drains.
* **Threads that hand buffers on** (audio): no queue overflows, no buffer or
  credit is lost, and every thread ends when the call does.
* **Acknowledgements**: what is taken for acknowledged was received, over a
  network that loses, repeats and reorders packets and with several senders.
* **Two controllers agree**: sound starts on both sides or a side fails, and a
  timer that comes late does not undo what happened meanwhile.

PROJECT.json lists the hazards with their lines and the properties aimed at
them.

## Modules

| module | models | how |
|---|---|---|
| `SipClient` | sip.cpp, with the PJSUA call table | callbacks are actions (`OnIncomingCall`, `OnEarly`, ...); `Dial`, `AnswerRinging`, `AnswerOK`, `Hangup` are action fragments that take the popped queue |
| `TgCalls` | updates in order, effects of the call queries | `TgRing`, `TgReceived`, `TgReady`, `TgEnd` are TDLib's moves; `AcceptCall`, `CreateCall`, `DiscardCall` fragments |
| `Gateway` | gateway.cpp but for DTMF and directory lookups (`DtmfRouting`, `DialTg`) | composes the two; one action per row of the transition tables and per continuation of a wait |
| `DialTg` | load_cache, `DialTg`, parse_error | caches, block and a clock; one pending query |
| `TgClient` | tg.cpp with main's start and stop, and the order of load_cache's queries | two threads; `send_query` in three steps, an access to `handlers` as an interval |
| `GenDb` | gen_db.cpp | the login dialogue; the handler of an update and the query it sends after the user has typed are two steps |
| `DtmfRouting` | updateNewMessage, `DialDtmf`, the wait_dtmf rows | extends `Gateway` with `user_id` and messages; the sender test is the code's, which drops a messageSenderUser and compares chat ids with user ids |
| `QueryService` | what `send_query_async(...).get()` promises | abstract: asked, answered, sound |
| `GoGateway` | go/gateway.go, go/sipclient.go | a step is a channel operation, a Telegram request or the code between two; one process per request |
| `MessageThread` | MessageThread.cpp | relative times; the wait, the signal and the join are steps, Stop takes no lock |
| `AudioPath` | the four audio classes and the controller's end | queues as lengths, pools as counts; one step per queue or semaphore operation; the encoder is deleted in one step and the ports in a later one |
| `VoipAcks` | sequence numbers, window, mask, header, reliable packets, extras | taking the number and writing the header are two steps of a sending thread; the receiver moves lastRemoteSeq first and processes the extras later |
| `VoipHandshake` | INIT, INIT_ACK, sound, timers, RECONNECTING | two controllers, packets under way counted per kind; receivedInitAck and the Cancel of the timeout are two steps |
| `MC...` | | constants for TLC |
| `GatewayProofs`, `DialTgProofs`, `TgClientProofs`, `GenDbProofs`, `GoGatewayProofs`, `MessageThreadProofs`, `AudioPathProofs`, `VoipControllerProofs` | | theorems about the module of that name; `GatewayProofs` is about `DtmfRouting` too, `VoipControllerProofs` about `VoipAcks` (whose specification is `AcksSpec`) and `VoipHandshake` |

A step of `Gateway` is one pop with everything its handler does up to the next
`.get()`; the continuation (`UserFound`, `CallAccepted`, `CallCreated`,
`CallDiscarded`) is a step of its own, so both networks may move in between.
Between two waits a handler calls the SIP client at most once, so treating the
rest as one step hides no interleaving. `CleanUp`, the entry action of `X`, is
part of every action that reaches `X`, and so is the deletion of the bridge in
`process_event`.

Abstractions. A bridge made for an event that takes it straight to `X` has
nothing to clean up and is deleted in the same call: those are `StrayUpdate` and
`StraySipEvent`, which use no context id. Discarded and Error are one update
("Ended"), since every row tests both. PJSIP's CONNECTING is folded into
CONFIRMED; no guard tells them apart. Messages, headers and hang-up reasons are
left out. The extension of an incoming call is valid or invalid.

External libraries, from how the code uses them and what it relies on:

* PJSUA gives out call slots round-robin; `Call::hangup` and `answer` throw on a
  call that is over; `hangup` of a live one may report DISCONNECTED from within
  it, or later when the object is gone and nobody is told; destroying a `Call`
  object hangs its call up.
* TDLib answers every query once, reports updates in order, may report
  callStatePending twice (received by the other side), and ends a call whose
  discard it accepted.

* TDLib signs on in the order parameters, key, ready (or a phone number is asked
  for), may revoke the session later, and answers in any order.

`handlers` is a `std::map` that main and the Telegram thread change without a
lock. `TgClient` makes each access an interval. Two accesses do overlap: the
promise wakes main, which may store the handler of its next query while the
Telegram thread erases the previous one. From then on (`raced`) an entry may be
lost or not found and the process may crash. What is claimed of the client is
claimed until that happens; that the two senders never overlap, so that query
ids are unique, is claimed always.

* PJSUA's conference bridge calls its ports under a lock that unregistering a
  port takes too (`AudioPath`). The network loses, repeats and reorders packets
  in `VoipAcks`; in `VoipHandshake` it loses and reorders them, a repeated one
  having been dropped by its number before. gosip runs a handler per request, and
  a request of a dialog may come as soon as its INVITE has, while the handler of
  the INVITE still runs.

In `VoipAcks` sequence numbers start at 1 and do not wrap; the window of 32 is
`Window` and a header's mask covers it as in the code. In `VoipHandshake` whether
the versions of the two controllers fit is fixed at the start, and the endpoints are
relays, so that the receive timeout's change from P2P to a relay
(VoIPController.cpp:3720-3744) has nothing to do. In `VoipAcks` packets are well
formed and `endpoints.at` finds the current one, so that nothing is thrown between
the two steps of the receiver. In `MessageThread`
a message that is late stays as late as `MaxLate`. In `GoGateway` `events` is a
length, since its elements are only logged, and an INVITE may be refused at any
time, which stands for the flood block and a failed lookup.

A data race on `Client::calls` between PJSIP's thread and main is possible in
the code; the model takes each access as atomic.

## Runs

Bounds: `MaxCalls` (PJSUA slots), `MaxIncoming` (INVITEs), `MaxCtx` (bridges in
one behaviour), `MediaChanges` (which media changes may happen), `MaxMessages`,
the sets of Telegram calls, for `DialTg` `MaxTime`, and for `TgClient`
`MaxQuery`: three queries of the sign-on, one search and two contacts (a burst),
or handlers' queries when the search fails, so that each kind of query can race
with the answer before it. In `GenDb`, `MaxTrouble` bounds refusals and expiries
together; two are needed for a failure to arrive late in a state that is itself
answered again, and `MaxQuery` leaves room for every question the longest path
then asks. One call in each direction, or two in one, are enough for every pair
of events of two conversations to meet; `MaxCalls` below the number of calls
makes ids be reused, otherwise not.

In `GoGateway` channels hold one element instead of 16, so that one request fills
them; there is one call from the PBX with INFO and BYE at any time after its INVITE,
and one from Telegram; an ACK would do what an INFO does but for the state it sets.
`MessageThread` has three messages: one that is delivered, one posted and one
cancelled meanwhile. `AudioPath` has pools of three and two buffers and queues one
longer, the relation the code's 32/33 and 10/11 have. `VoipAcks` numbers three packets
in one direction against a window of three, so that packets come within it, move it by
one or by two, jump past it and come again (one that comes too late for the window
needs a fourth, and is left to the theorem), with two values of the extra and two
threads. `VoipHandshake` has one packet of each kind under way to each side.

| run | question | outcome |
|---|---|---|
| `gateway` | a call in each direction: no orphaned leg, every bridge's legs accounted for, no bridge torn down for another's event, a bridge ends when a leg does | holds |
| `tg_to_sip` | one call from Telegram, repeated updates, all media changes, a signal, a message: types, one bridge per call, no conversation without BridgeAudio, a message never ends the process, and the call is taken up | holds |
| `slot_reuse` | one PJSUA slot and two calls, no `callback_uri`: no Telegram call is orphaned, by refusal or by a handler's failure, every bridge's Telegram leg is accounted for, no conversation starts without BridgeAudio and a message never ends the process, although media comes and goes and the SIP id is reused | holds |
| `dead_leg` | the SIP leg of a bridge is alive, or an event that ends the bridge is coming | **violated**: a stale object in `calls` makes Dial destroy, and so hang up, the new call |
| `dial_tg` | the right user is called, no dial before every pause asked for in the answer to a lookup or createCall is over, the block is never shortened | holds |
| `tg_client` | senders exclude each other, the handler table matches the queries under way (every answer finds its handler, no handler outlives its answer); the client implements `QueryService` with its liveness; a revoked session ends the process; the destructor's join ends | holds |
| `gen_db` | the login dialogue with refused and expired answers: no question twice for a late failure, no state unanswered, and an end | holds |
| `go_gateway` | an INVITE, the requests that may overtake its handler, a Telegram call and a shutdown compete for channels of one element: the tables agree, handlers return and a BYE removes its context, unless the loop waits for itself | holds |
| `message_thread` | no message in the queue is slept past, cancelled is cancelled, due is taken, Stop returns | holds |
| `audio_path` | no overflow, no lost buffer or credit up to the encoder's deletion, the clock goes on while the controller lives, the deletion ends | holds |
| `voip_acks` | nothing in the window is accepted twice; an extra taken for acknowledged reached the peer in that value | holds |
| `voip_handshake` | established is mutual, sound starts on both sides or one fails, RECONNECTING ends | holds |

Some properties name the one circumstance in which the code does not keep them;
without it TLC finds the behaviour described.

* `HandlersReturn` and `ByeRemovesContext` make an exception of a loop that is `Wedged`:
  handleTelegramCall runs on the loop's goroutine and writes to channels only
  the loop drains (gateway.go:243). A context made for a Telegram call is not found
  by the Call-ID of the leg dialled for it, so `ByeRemovesContext` is about calls
  from the PBX. It is about BYEs whose context exists: one that comes before it is
  lost. And it is about the context only. The id of the Telegram call made for an
  INVITE is not stored, so that call stays up although the comment of cleanUp says
  it "hangs up on both sides" (gateway.go:308).
* `SessionHasContext` makes one of a leg for which cleanUp dropped an error of Hangup
  (gateway.go:314). A BYE applied between the announcement of an INVITE and its
  TrackInvite (gateway.go:447-454) removes the context, finds no session to hang up,
  and the session that is stored afterwards stays.
* `DeletionEnds` makes one of a clock thread that is `Starved`: it may wait in
  GetBlocking when Stop makes the decoder leave (OpusDecoder.cpp:113, 182-185),
  with the bridge's lock held. And of one that is inside the encoder when that is
  deleted (VoIPController.cpp:315): the ports are taken off the bridge only afterwards
  (318), so `OpusEncoder::Callback` (OpusEncoder.cpp:110-125) may use freed memory.
  From then on nothing is claimed (`clock` is "undefined"). The far-end thread is never told to end
  (EchoCanceller.cpp:106) and no property claims it does.
* `InOrderExtraAckedArrived` speaks of headers written in the order of their
  numbers; two sending threads or the queue for the socket can turn it round. "Arrived"
  includes the extra the receiving thread has in hand: the packet is acknowledged from
  VoIPController.cpp:2085 on, its extras are processed in 2225-2233.
* The mask of an acknowledgement is written and read with different offsets
  (VoIPController.cpp:1348 and 2126); both are in the model, and a reliable packet
  that was lost may be taken for acknowledged.
* A controller that failed may become ESTABLISHED by a late timer (line 2437);
  `EstablishedIsMutual` says that it was answered then.
* The handshake's timeout may fail a controller that was answered, between setting
  receivedInitAck (2349) and the Cancel (2351). `SoundOnBothSides` counts that as a
  side that failed, and `TimesOutBeforeCancelOnly` says that it is the only place.
* `TalkingWasWired` says that BridgeAudio succeeded before a conversation began. Media
  that is lost later is not noticed by the code, which has no row for it in wait_dtmf.
* `NoDialUnderEmbargo` is about dialling and about pauses in the answers to dialling.
  The comment of settings.ini.example:81-83 speaks of all outgoing Telegram
  requests; the code lets every other query through under the block, and forgets a
  "retry after" in the answer to one (gateway.cpp:228-237).
* Nothing is claimed of where digits go. The test at gateway.cpp:857 is inverted: a
  message of a user is dropped, and what is routed is a chat whose id happens to be
  a user's. `DtmfFindsCall` says of what does get through that it ends no process.

`OnceWithinTheWindow` leaves out the packet whose number jumps past the whole
window: the code clears the window without marking that packet, so a repeat of it
is accepted again.

`StopReturns` is claimed when a message is left in the queue: Stop signals without
the mutex, the signal may come before the wait, and then only a timeout ends it.
VoIPController always has periodic messages posted.

`SipLegAccounted` (half of `LegsAccounted`), `NoOrphanedSipCall` (half of
`NoOrphanedCall`) and `TornDownForCause` fail in one circumstance: the gateway
dials, and PJSUA, which goes round its table, gives the new call a slot that still
has an old object in `calls` or an old DISCONNECTED in the queue. That is what
`dead_leg` shows. A slot reused by an incoming call does no harm, and the proofs
below say so; `gateway` checks all three with as many slots as calls.

A type invariant is checked by itself (`Gateway`, `GenDb`), or as a
conjunct of the module's state invariant elsewhere (`HandlersMatchQueries`,
`SessionHasContext`, `CancelIsFinal`, `NothingLost`, `OnceWithinTheWindow`,
`EstablishedIsMutual`). That of `DialTg` is proved and not checked.

Deadlock checking is off where the system may stop: in the `Gateway`,
`TgClient` and `GenDb` runs the process may exit or abort, in `GoGateway` every
call may be over (`HandlersReturn` looks for the deadlocks), in `MessageThread` and `AudioPath` the
threads have ended, in `VoipHandshake` both sides may have failed. Elsewhere it
is on.

Fairness (`FairSpec`): weak fairness of the loop, which sleeps at most 10 ms and
never blocks outside a wait, and of TDLib's answers, without which the code
itself would hang. In `TgClient` both threads and each answer of TDLib are
weakly fair; main's wait for the verdict has a time limit and `receive` one of
its own, so neither blocks for ever. In `GenDb` the user answers and TDLib
serves what it is sent. In `GoGateway` the loop and every handler
that can run does, as the Go scheduler promises. In `MessageThread` the thread, a
caller of Stop and the clock go on; in `AudioPath` each thread and the bridge's
clock. In `VoipHandshake` the threads and timers are weakly fair and the receipt
of INIT and INIT_ACK strongly: a packet that is repeated for ever arrives at some
time. Callers, the PBX and signals owe nothing. Liveness
properties of the gateway and its client say "or the process has ended".

## Proofs

`DialTgProofs` proves, for every contact list, setting and reply, `TypeOK`,
`CallsWhoWasAsked`, `NoDialUnderEmbargo` and `BlockNeverShortened`. The
invariant behind them says that every cache entry was told by TDLib for its key,
that what is about to be dialled is such an entry or the id itself, that
`block_until` is the end of the longest pause asked for in the answer to a lookup or
createCall (`embargo`), and that a dial
query is only pending while the block is over. The last is what makes the
plain assignment in `parse_error` safe: a dial starts only when the block has
run out and there is one pending query at a time, so a new block starts from a
time past the old one.

`GatewayProofs` proves, for any number of slots, calls, contexts and messages,
`TypeOK`, `UniqueTgLeg`, `NoOrphanedTgCall`, `TgLegAccounted`, `TalkingWasWired`,
and of `DtmfRouting` `DtmfFindsCall`. The first five are
proved of `DtmfSpec`, with messages, as well (`Dtmf_KeepsTgLegs`). Of the SIP side it
proves `NoOrphanedCall`, `LegsAccounted` and `TornDownForCause` on the condition
that a dialled call gets a slot without remains (`FreshDial`), and that the condition
holds where there is no `callback_uri`, or where the table has not been gone round
once.

* `UniqueTgLeg` alone is not inductive. The invariant `Inv` adds: a Telegram id in
  a bridge belongs to an existing bridge and to a call TDLib has made, and so does
  every queued update; a handler that waits for createCall has a bridge, and one
  that waits for discardCall a call to discard. Then the id createCall returns is
  new to every bridge, and the id of a first update is unowned by the handler's own
  check. There is one lemma per group of actions.
* The others need what state goes with which ids. `LegInv` adds the shape of a
  bridge in each state of the two machines (`ShapeInv`), that the bridge whose
  handler waits stays as it was (`HandlerInv`), that the end of a call whose first
  update is still queued is queued behind it (`TgQueueInv`), that a call the
  gateway placed is a bridge's from its first moment (`OrphanInv`), and that the
  live call of a slot belongs to one bridge or one queued IncomingCall and an entry
  somebody refers to is not erased, reused or not (`SlotInv`).
* A step changes one bridge and one queue at most, but in a few dozen places. So
  every step is first shown to leave the bridges alone, to be a move of Telegram or
  a dropped update, or to have one of fourteen effects on one bridge (`StepEffect`),
  and each part of the invariant is then proved kept by the effects (`ShapeStep`,
  `HandlerStep`, `TgQueueStep`, `OrphanStep`, `TgLegStep`, `TalkStep`, `SlotStep`).
* The SIP legs need the events that are still queued, because a pjsua id outlives
  its call. `FreshDial` says of a step that dials: the slot it gets has no entry in
  `calls` and no DISCONNECTED in the queue. Under `[][FreshDial]_vars`, `SipInv` is
  kept: a live call has a bridge or a queued IncomingCall (`Known`); a DISCONNECTED
  queued for a live slot is that of the call before, and the IncomingCall of the new
  one comes behind it (`Heard`), which is why reuse by incoming calls does no harm;
  a leg has one owner (`OneOwner`); and a bridge that waits for its SIP leg or talks
  (`InWait`) has a leg that is alive or whose end is queued, or its own error is. From
  it follow `Call_NeverOrphaned`, `Legs_Accounted` and, looking at
  the event a step pops, `TornDown_ForCause`.
* `Fresh_Slots` proves the condition from the constants,
  `~ CallbackUri \/ MaxIncoming + MaxCtx <= MaxCalls`. Without a URI the gateway never
  dials. Otherwise the slots handed out are no more than the incoming calls
  and the contexts that dialled, so they are those before `next_call_id`, each handed
  out once, and the others are as they were at the start (`FirstRound`).
  `Gateway_Correct` puts the two together for `DtmfSpec`, the specification the runs
  check: on such a gateway the three properties hold with no condition on the
  behaviour. The bound is not the best one, since a context made for an incoming
  call does not dial; some bound is needed, as `dead_leg` shows. The constants of
  `tg_to_sip` and of `slot_reuse` satisfy it.
* `SipInv` and `FirstRound` were checked by TLC first, with one slot for two calls and no
  URI, and with three slots.

`TgClientProofs` proves `SendersExclude`, `HandlersMatchQueries` and that the client
implements the safety part of `QueryService`, for any number of queries. Updates
come in TDLib's order, so nothing is left for the Telegram thread to answer when
the verdict is there (`OrderInv`), and main sends nothing before it (`TurnInv`). A
query has its handler from before it is sent until its answer is handled
(`QueryInv`, `HandlerInv`), and a race is noticed when it begins (`PromiseInv`).
For the refinement every step is an Ask, an Answer, a Fail or a stutter.

`GenDbProofs` proves `TypeOK`, `QueryIds` and `AskedAgainOnFailure` for any number of queries,
refusals and expiries. A failed query is matched to its question by
`authentication_query_id` alone, so the invariant has to say that one handler at most
carries the present value (`LastQuery`), which with an id being at TDLib or in the
inbox once (`QueryIds`) leaves no other answer to wait for.

`GoGatewayProofs` proves `SessionHasContext` for any calls and any capacity. It needs
that a context is made before anyone hears of the call and its session after
(`InviteInv`), and that a clean-up that comes in between leaves its mark in `unhung`;
a clean-up names a SIP leg, never a Telegram call (`CleanupInv`), so the legs the loop
dials keep their contexts. The proof found a `CASE` with
two true guards in `ProcessInternalEvent`; it is now three guarded alternatives.

`MessageThreadProofs` proves `NeverOversleeps` and `CancelIsFinal` for any number of
messages, delays and intervals. The timeout is that of the first message, so the
queue must be sorted; no id may be in it twice. That inserting and erasing keep both
is proved of the loops themselves. The erasing loop (`Keep`) is a recursive function:
that it has a result, and that the result is a subsequence, is shown by induction over
positions, which is derived from the library's well-foundedness of the natural
numbers through sets instead of predicates (`Least`, `UpTo`).

`AudioPathProofs` proves `NeverAborts` and `NothingLost` for pools and queues of any
size with the relations of `PoolAssumption`, and that the running decoder finds a
buffer for each frame (`FillFindsBuffer`). The invariant counts what goes round
between decoder and clock thread (`Circulating`), which Stop's release raises by
one at most, and allows the encoder's queue the one end marker Stop puts. It also says
that the encoder's own thread has left before the encoder is deleted; of its buffers
nothing is claimed after that.

`VoipControllerProofs` proves `OnceWithinTheWindow` and `InOrderExtraAckedArrived` for a
window of any width and any number of packets and threads. What was accepted is
marked in the window unless it jumped past it (`WindowInv`), what is acknowledged
was accepted and its extra processed or in hand (`AckInv`, `Known`), and while headers are written in order every packet since
the extra's first carries its value (`ExtraInv`).

Of the handshake it proves `EstablishedIsMutual`, and that the timeout fails an
answered controller only while the receiving thread is on its way to the Cancel
(`TimesOutBeforeCancelOnly`): an INIT is sent after the timer was posted (`DoneInv`), so
the Cancel finds it and leaves none behind (`TimeoutInv`).
Whatever can still make a call ESTABLISHED, a timer or a decision half made, goes
back to an INIT_ACK (`StateInv`), which goes back to an INIT received (`AnswerInv`).

Assumptions are those named in the modules, and TLC evaluates them in the runs:
sizes are numbers, the sets of ids of the two networks are disjoint and hold no
null id (`GoAssumption` also keeps the legs the gateway dials apart from the PBX's
calls), `VoipHandshake` has exactly two controllers, queues of the audio path are
longer than their pools as 33 and 11 are than 32 and 10, and delays are shorter
than DBL_MAX.

Only model-checked:

* Liveness under fairness (`AnswersEveryState`, `JoinEnds`, `DeletionEnds` and the
  others, and the liveness half of `Implements`): it needs ENABLED, which is out of
  the prover's reach.

Every safety property the passing runs check, state invariant or action property, is
a theorem. `SipLegAccounted`,
`NoOrphanedSipCall` and `TornDownForCause` are proved with the condition above
because they are false without it.

## Not modelled

* Numeric code without control to check: the codecs, `webrtc_dsp` (the largest
  part of the repository), resampling, bit-rate adaptation with
  `CongestionControl`, and the jitter buffer with the statistics behind its delay.
* The Go rewrite's contact cache and flood block: in `GoGateway` a lookup ends in a
  user or a refusal.
* I/O and the platform: sockets, proxies, operating-system audio, the INI reader,
  settings, logging, PJSIP's set-up, the cgo binding.
* Parts of libtgvoip the gateway never uses: video and `PacketReassembler`, group
  calls.
* Encryption, and the choice of an endpoint (relay, P2P, fallback to TCP): in the
  models a packet reaches the peer or does not.
* Data races inside a standard container (`sip::Client::calls`, `sendQueue`),
  whose outcomes cannot be enumerated usefully.
* Bundled headers (`sml.hpp`, `INIReader.h`); `Gateway` models what the tables
  written in sml do.

## Plan

Done: the C++ gateway with its clients, dialling, DTMF and login; the Go
rewrite's loop and call tables; libtgvoip's timer thread, audio path,
acknowledgements and handshake; the theorems above.

Left: the liveness properties, which this prover cannot state the rules for; the
Go rewrite's contact cache and flood block; and the choice of an endpoint in
libtgvoip.
