---------------------------- MODULE VoipHandshake ----------------------------
(***************************************************************************)
(* How two tgvoip::VoIPControllers find each other and keep the call:      *)
(* INIT and INIT_ACK, the first packet of sound, the timers that go with   *)
(* them, and the states WAIT_INIT ... RECONNECTING.  Packets are lost and  *)
(* reordered; a repeated one has the number of the first and is dropped    *)
(* before it gets here (VoipAcks).                                         *)
(*                                                                         *)
(* A packet is handled by the receiving thread, a timer by the message     *)
(* thread, Connect's work is done by the sending thread.  The endpoints    *)
(* are relays.                                                             *)
(***************************************************************************)
EXTENDS Integers, FiniteSets

CONSTANTS
    Peers,          \* the two controllers
    MaxInFlight,    \* bound: packets of a kind under way to a controller
    Silent          \* controllers whose packets may stay away for seconds

ASSUME VoipHandshakeAssumption ==
    /\ IsFiniteSet(Peers) /\ Cardinality(Peers) = 2 /\ Silent \subseteq Peers
    /\ MaxInFlight \in Nat \ {0}

States == {"WAIT_INIT", "WAIT_INIT_ACK", "ESTABLISHED", "FAILED",
           "RECONNECTING"}
Kinds == {"INIT", "INIT_ACK", "STREAM_DATA"}
Timers == {"init", "resend", "delay", "first"}
Other(p) == CHOOSE q \in Peers : q # p

VARIABLES
    compatible,     \* the versions of the controllers fit
    phase,          \* how far Connect is: "no", "timers", "done"
    state,
    receivedInit, receivedInitAck, audioStarted, receivedFirst,
    answered,       \* the receiving thread is in its first PKT_INIT_ACK
    timers,         \* messages posted with a delay
    silent,         \* packets stayed away for 0, 2 (1) or 20 (2) seconds
    deciding,       \* UpdateAudioBitrate saw them stay away for 2 seconds
    net             \* packets under way to a controller

flags == <<receivedInit, receivedInitAck, audioStarted, receivedFirst,
           answered>>
vars == <<compatible, phase, state, flags, timers, silent, deciding, net>>

TypeOK ==
    /\ compatible \in BOOLEAN
    /\ phase \in [Peers -> {"no", "timers", "done"}]
    /\ state \in [Peers -> States]
    /\ {receivedInit, receivedInitAck, audioStarted, receivedFirst, answered,
        deciding} \subseteq [Peers -> BOOLEAN]
    /\ timers \in [Peers -> SUBSET Timers]
    /\ silent \in [Peers -> 0 .. 2]
    /\ net \in [Peers -> [Kinds -> 0 .. MaxInFlight]]

Init ==
    LET none == [p \in Peers |-> FALSE]
    IN  /\ compatible \in BOOLEAN
        /\ phase = [p \in Peers |-> "no"]
        /\ state = [p \in Peers |-> "WAIT_INIT"]
        /\ receivedInit = none /\ receivedInitAck = none
        /\ audioStarted = none /\ receivedFirst = none /\ answered = none
        /\ timers = [p \in Peers |-> {}]
        /\ silent = [p \in Peers |-> 0] /\ deciding = none
        /\ net = [p \in Peers |-> [k \in Kinds |-> 0]]

-----------------------------------------------------------------------------
SetState(p, s) == state' = [state EXCEPT ![p] = s]

(* A packet of kind k to p is under way; at the bound it is lost.          *)
Under(n, p, k) ==
    [n EXCEPT ![p][k] = IF @ < MaxInFlight THEN @ + 1 ELSE @]

(* The receiving thread is through with the packet before. *)
Arrives(p, k) == net[p][k] > 0 /\ ~answered[p]

(* RunRecvThread takes one. *)
Taken(p, k) == [net EXCEPT ![p][k] = @ - 1]

(* RunSendThread: InitializeAudio, InitializeTimers. *)
InitializeTimers(p) ==
    /\ phase[p] = "no"
    /\ phase' = [phase EXCEPT ![p] = "timers"]
    /\ timers' = [timers EXCEPT ![p] = @ \cup {"init"}]
    /\ UNCHANGED <<compatible, state, flags, silent, deciding, net>>

(* RunSendThread: SendInit. *)
SendInit(p) ==
    /\ phase[p] = "timers"
    /\ phase' = [phase EXCEPT ![p] = "done"]
    /\ net' = Under(net, Other(p), "INIT")
    /\ SetState(p, IF state[p] = "WAIT_INIT" THEN "WAIT_INIT_ACK"
                   ELSE state[p])
    /\ timers' = [timers EXCEPT ![p] = @ \cup {"resend"}]
    /\ UNCHANGED <<compatible, flags, silent, deciding>>

(* SendInit's message after half a second, which may call it again. *)
ResendInit(p) ==
    /\ "resend" \in timers[p]
    /\ IF state[p] = "WAIT_INIT_ACK"
       THEN net' = Under(net, Other(p), "INIT") /\ UNCHANGED timers
       ELSE /\ timers' = [timers EXCEPT ![p] = @ \ {"resend"}]
            /\ UNCHANGED net
    /\ UNCHANGED <<compatible, phase, state, flags, silent, deciding>>

(* initTimeoutID: no INIT_ACK in config.initTimeout. *)
InitTimeout(p) ==
    /\ "init" \in timers[p]
    /\ timers' = [timers EXCEPT ![p] = @ \ {"init"}]
    /\ SetState(p, "FAILED")
    /\ UNCHANGED <<compatible, phase, flags, silent, deciding, net>>

(* established_delay_if_no_stream_data after INIT_ACK, or half a second    *)
(* after the first packet of sound, whatever the state is then.            *)
Established(p, t) ==
    /\ t \in timers[p] \cap {"delay", "first"}
    /\ timers' = [timers EXCEPT ![p] = @ \ {t}]
    /\ IF t = "first" \/ state[p] = "WAIT_INIT_ACK"
       THEN SetState(p, "ESTABLISHED") ELSE UNCHANGED state
    /\ UNCHANGED <<compatible, phase, flags, silent, deciding, net>>

-----------------------------------------------------------------------------
(* mutant: a packet does not end RECONNECTING *)
StateOnPacketKept(p) == state[p]

(* ProcessIncomingPacket, for every packet that can be decrypted. *)
StateOnPacket(p) ==
    IF state[p] = "RECONNECTING" THEN "ESTABLISHED" ELSE state[p]

OnPacket(p) == silent' = [silent EXCEPT ![p] = 0]

(* mutant: only the first INIT is acknowledged *)
AnswersFirst(p) == ~receivedInit[p]

(* Every INIT that gets here is acknowledged. *)
Answers(p) == p \in Peers

(* PKT_INIT *)
ReceiveInit(p) ==
    /\ Arrives(p, "INIT")
    /\ OnPacket(p)
    /\ IF compatible
       THEN /\ net' = IF Answers(p)
                      THEN Under(Taken(p, "INIT"), Other(p), "INIT_ACK")
                      ELSE Taken(p, "INIT")
            /\ receivedInit' = [receivedInit EXCEPT ![p] = TRUE]
            /\ audioStarted' = [audioStarted EXCEPT ![p] =
                                  @ \/ receivedInitAck[p]]
            /\ SetState(p, StateOnPacket(p))
       ELSE /\ net' = Taken(p, "INIT")
            /\ SetState(p, "FAILED")
            /\ UNCHANGED <<receivedInit, audioStarted>>
    /\ UNCHANGED <<compatible, phase, receivedInitAck, receivedFirst,
                   answered, timers, deciding>>

(* PKT_INIT_ACK: only the first one counts, and from the flag on the       *)
(* message thread may still get at the timeout.                            *)
ReceiveInitAck(p) ==
    /\ Arrives(p, "INIT_ACK")
    /\ net' = Taken(p, "INIT_ACK")
    /\ OnPacket(p)
    /\ SetState(p, StateOnPacket(p))
    /\ receivedInitAck' = [receivedInitAck EXCEPT ![p] = TRUE]
    /\ answered' = [answered EXCEPT ![p] = ~receivedInitAck[p]]
    /\ UNCHANGED <<compatible, phase, receivedInit, audioStarted,
                   receivedFirst, timers, deciding>>

(* The timeout is cancelled, ESTABLISHED comes without sound as well. *)
AckTimers(p) == (timers[p] \ {"init"}) \cup {"delay"}

(* The rest of the first PKT_INIT_ACK. *)
CancelInitTimeout(p) ==
    /\ answered[p]
    /\ answered' = [answered EXCEPT ![p] = FALSE]
    /\ timers' = [timers EXCEPT ![p] = AckTimers(p)]
    /\ audioStarted' = [audioStarted EXCEPT ![p] = @ \/ receivedInit[p]]
    /\ UNCHANGED <<compatible, phase, state, receivedInit, receivedInitAck,
                   receivedFirst, silent, deciding, net>>

(* mutant: sound counts as well before INIT_ACK *)
FirstCountsAlways(p) == StateOnPacket(p) # "ESTABLISHED"

(* The first packet of sound is to make the call ESTABLISHED. *)
FirstCounts(p) == StateOnPacket(p) # "ESTABLISHED" /\ receivedInitAck[p]

(* PKT_STREAM_DATA *)
ReceiveData(p) ==
    /\ Arrives(p, "STREAM_DATA")
    /\ net' = Taken(p, "STREAM_DATA")
    /\ OnPacket(p)
    /\ SetState(p, StateOnPacket(p))
    /\ receivedFirst' = [receivedFirst EXCEPT ![p] = TRUE]
    /\ timers' = IF ~receivedFirst[p] /\ FirstCounts(p)
                 THEN [timers EXCEPT ![p] = @ \cup {"first"}] ELSE timers
    /\ UNCHANGED <<compatible, phase, receivedInit, receivedInitAck,
                   audioStarted, answered, deciding>>

(* HandleAudioInput: the encoder runs from StartAudio on. *)
HandleAudioInput(p) ==
    /\ audioStarted[p] /\ receivedInitAck[p]
    /\ net' = Under(net, Other(p), "STREAM_DATA")
    /\ UNCHANGED <<compatible, phase, state, flags, timers, silent, deciding>>

(* A packet is lost. *)
Lose(p, k) ==
    /\ net[p][k] > 0
    /\ net' = Taken(p, k)
    /\ UNCHANGED <<compatible, phase, state, flags, timers, silent, deciding>>

-----------------------------------------------------------------------------
(* Seconds pass without a packet. *)
StaySilent(p) ==
    /\ p \in Silent /\ silent[p] < 2
    /\ state[p] \in {"ESTABLISHED", "RECONNECTING"}
    /\ silent' = [silent EXCEPT ![p] = @ + 1]
    /\ UNCHANGED <<compatible, phase, state, flags, timers, deciding, net>>

(* UpdateAudioBitrate finds the call ESTABLISHED and silent ... *)
FindSilent(p) ==
    /\ state[p] = "ESTABLISHED" /\ silent[p] >= 1 /\ ~deciding[p]
    /\ deciding' = [deciding EXCEPT ![p] = TRUE]
    /\ UNCHANGED <<compatible, phase, state, flags, timers, silent, net>>

(* ... and says so: a packet may have come in between. *)
Reconnect(p) ==
    /\ deciding[p]
    /\ deciding' = [deciding EXCEPT ![p] = FALSE]
    /\ SetState(p, "RECONNECTING")
    /\ UNCHANGED <<compatible, phase, flags, timers, silent, net>>

(* config.recvTimeout is over. *)
TimeIsUp(p) == state[p] \in {"ESTABLISHED", "RECONNECTING"} /\ silent[p] = 2

(* UpdateAudioBitrate, the current endpoint being a relay. *)
RecvTimeout(p) ==
    /\ TimeIsUp(p) /\ ~deciding[p]
    /\ SetState(p, "FAILED")
    /\ UNCHANGED <<compatible, phase, flags, timers, silent, deciding, net>>

Next ==
    \E p \in Peers :
      \/ InitializeTimers(p) \/ SendInit(p) \/ ResendInit(p) \/ InitTimeout(p)
      \/ \E t \in Timers : Established(p, t)
      \/ ReceiveInit(p) \/ ReceiveInitAck(p) \/ CancelInitTimeout(p)
      \/ ReceiveData(p)
      \/ HandleAudioInput(p)
      \/ \E k \in Kinds : Lose(p, k)
      \/ StaySilent(p) \/ FindSilent(p) \/ Reconnect(p) \/ RecvTimeout(p)

(* The threads run and their timers come due; of packets sent over and     *)
(* over again one arrives.                                                 *)
HandshakeFairness ==
    \A p \in Peers :
      /\ WF_vars(InitializeTimers(p)) /\ WF_vars(SendInit(p))
      /\ WF_vars(ResendInit(p)) /\ WF_vars(CancelInitTimeout(p))
      /\ SF_vars(ReceiveInit(p)) /\ SF_vars(ReceiveInitAck(p))

(* Time passes, and UpdateAudioBitrate is called again and again. *)
SilenceFairness ==
    \A p \in Peers : WF_vars(StaySilent(p)) /\ WF_vars(Reconnect(p))
                      /\ WF_vars(RecvTimeout(p))

Spec == Init /\ [][Next]_vars /\ HandshakeFairness /\ SilenceFairness

-----------------------------------------------------------------------------
(* A call that counts as established was answered, and the peer knows of   *)
(* it: the state is set by timers (VoIPController.cpp:2423 and 2436) long  *)
(* after the packet that posted them.                                      *)
EstablishedIsMutual ==
    /\ TypeOK
    /\ \A p \in Peers : state[p] \in {"ESTABLISHED", "RECONNECTING"} =>
                          receivedInitAck[p] /\ receivedInit[Other(p)]

(* Whatever INITs and INIT_ACKs are lost, sound starts on both sides or    *)
(* one of them fails: a side stops repeating its INIT                      *)
(* (VoIPController.cpp:1534) only when the other has it.                   *)
SoundOnBothSides ==
    <>(\/ \A p \in Peers : audioStarted[p]
       \/ \E p \in Peers : state[p] = "FAILED")

(* RECONNECTING does not last: a packet ends it (VoIPController.cpp:1979), *)
(* or the receive timeout does (line 3748), also when the packet came      *)
(* between the look at the clock and the change of state.                  *)
ReconnectingEnds ==
    \A p \in Peers : state[p] = "RECONNECTING" ~> state[p] # "RECONNECTING"
=============================================================================
