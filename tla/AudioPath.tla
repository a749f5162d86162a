----------------------------- MODULE AudioPath -----------------------------
(***************************************************************************)
(* The way of the sound between PJSUA's conference bridge and a call's     *)
(* VoIPController: SoftwareAudioInput and SoftwareAudioOutput, called by   *)
(* the bridge's clock thread; OpusEncoder and OpusDecoder with a thread    *)
(* each; the far-end thread of EchoCanceller; and the gateway thread that  *)
(* stops the controller and deletes it.  The module starts when StartAudio *)
(* has run.                                                                *)
(*                                                                         *)
(* Threads hand buffers to each other through BlockingQueues: Put aborts   *)
(* the process beyond the capacity, GetBlocking waits for an element.      *)
(* A buffer is one of a BufferPool and what it holds is left out, so a     *)
(* pool is the number of its used buffers and a queue its length.          *)
(***************************************************************************)
EXTENDS Integers, Sequences, FiniteSets

CONSTANTS
    DecPool, DecCapacity,   \* OpusDecoder: bufferPool, decodedQueue
    EncPool, EncCapacity,   \* OpusEncoder: bufferPool, queue
    FarPool, FarCapacity,   \* EchoCanceller: farendBufferPool, farendQueue
    EnableAEC               \* Config::enableAEC

(* 32 buffers and a queue of 33; 10 and 11; 10 and 11. *)
ASSUME PoolAssumption ==
    /\ {DecPool, EncPool, FarPool} \subseteq Nat
    /\ {DecCapacity, EncCapacity, FarCapacity} \subseteq Nat
    /\ DecPool >= 2 /\ DecCapacity > DecPool
    /\ EncCapacity > EncPool /\ FarCapacity > FarPool
    /\ EnableAEC \in BOOLEAN

VARIABLES
    clock,                          \* where the bridge's clock thread is
    inActive, outActive,            \* isActive of the input and the output
    read_buffer,                    \* the next 10 ms begin a new buffer
    decoder, left,                  \* RunThread, packets left of its frame
    decRunning, primed,             \* running, outputBufferSize # 0
    credit,                         \* OpusDecoder::semaphore
    decQueue, decUsed,
    encoder, encRunning,            \* RunThread and running of the encoder
    encQueue, encUsed,
    farend, farQueue, farUsed,      \* RunBufferFarendThread
    control,                        \* VoIPController::Stop and destructor
    aborted                         \* a Put went over its queue's capacity

decVars == <<decoder, left, decRunning, primed, credit, decQueue, decUsed>>
encVars == <<encoder, encRunning, encQueue, encUsed>>
farVars == <<farend, farQueue, farUsed>>
outVars == <<outActive, read_buffer>>
vars == <<clock, inActive, outVars, decVars, encVars, farVars, control, aborted>>

Tokens == 2     \* packetsNeeded: two for a callback of one packet

TypeOK ==
    /\ clock \in {"idle", "put", "enqueue", "get", "dequeue", "played",
                  "undefined"}
    /\ {inActive, outActive, read_buffer} \subseteq BOOLEAN
    /\ decoder \in {"decode", "acquire", "fill", "ended"} /\ left \in 0 .. 4
    /\ {decRunning, primed, encRunning, aborted} \subseteq BOOLEAN
    /\ credit \in 0 .. Tokens + 1
    /\ decQueue \in 0 .. DecCapacity /\ decUsed \in 0 .. DecPool
    /\ encoder \in {"get", "encode", "ended"}
    /\ encQueue \in Seq({"packet", "NULL"}) /\ encUsed \in 0 .. EncPool
    /\ farend \in {"get", "process", "ended"}
    /\ farQueue \in 0 .. FarCapacity /\ farUsed \in 0 .. FarPool
    /\ control \in {"up", "stopped", "join_decoder", "join_encoder",
                    "encoder_deleted", "deleted"}

Init ==
    /\ clock = "idle" /\ inActive = TRUE
    /\ outActive = FALSE /\ read_buffer = TRUE
    /\ decoder = "decode" /\ left = 0 /\ decRunning = TRUE /\ primed = FALSE
    /\ credit = 0 /\ decQueue = 0 /\ decUsed = 0
    /\ encoder = "get" /\ encRunning = TRUE /\ encQueue = << >> /\ encUsed = 0
    /\ farend = "get" /\ farQueue = 0 /\ farUsed = 0
    /\ control = "up" /\ aborted = FALSE

-----------------------------------------------------------------------------
(* The clock thread: sound from SIP. *)

(* encoder points to an object: not after `delete encoder`. *)
EncoderThere == control \notin {"encoder_deleted", "deleted"}

PutFrame ==
    /\ clock = "idle" /\ inActive
    /\ clock' = "put"
    /\ UNCHANGED <<inActive, outVars, decVars, encVars, farVars, control,
                   aborted>>

(* mutant: a packet that finds no buffer gets one from the heap *)
TakeBufferAlways ==
    /\ clock = "put" /\ EncoderThere
    /\ clock' = "enqueue"
    /\ encUsed' = IF encUsed < EncPool THEN encUsed + 1 ELSE encUsed
    /\ UNCHANGED <<inActive, outVars, decVars, encoder, encRunning, encQueue,
                   farVars, control, aborted>>

(* OpusEncoder::Callback: without a buffer the packet is dropped. *)
TakeBuffer ==
    /\ clock = "put" /\ EncoderThere
    /\ IF encUsed < EncPool THEN encUsed' = encUsed + 1 /\ clock' = "enqueue"
       ELSE clock' = "idle" /\ UNCHANGED encUsed
    /\ UNCHANGED <<inActive, outVars, decVars, encoder, encRunning, encQueue,
                   farVars, control, aborted>>

PutEncoder(x) ==
    /\ encQueue' = Append(encQueue, x)
    /\ aborted' = (aborted \/ Len(encQueue) >= EncCapacity)

Enqueue ==
    /\ clock = "enqueue" /\ EncoderThere
    /\ clock' = "idle"
    /\ PutEncoder("packet")
    /\ UNCHANGED <<inActive, outVars, decVars, encoder, encRunning, encUsed,
                   farVars, control>>

(* Undefined behaviour: the callback goes on in an encoder that has been   *)
(* deleted under it.  It may get away with it; or anything may happen.     *)
UseDeletedEncoder ==
    /\ clock \in {"put", "enqueue"} /\ ~EncoderThere
    /\ clock' \in {"idle", "undefined"}
    /\ UNCHANGED <<inActive, outVars, decVars, encVars, farVars, control,
                   aborted>>

(* The clock thread: sound for SIP.  A buffer of 20 ms is played in two    *)
(* frames, the second without a callback.                                  *)
GetFrame ==
    /\ clock = "idle" /\ outActive
    /\ IF read_buffer THEN clock' = "get" /\ UNCHANGED read_buffer
       ELSE read_buffer' = TRUE /\ UNCHANGED clock
    /\ UNCHANGED <<inActive, outActive, decVars, encVars, farVars, control,
                   aborted>>

(* OpusDecoder::HandleCallback, the first one asks for two packets. *)
HandleCallback ==
    /\ clock = "get"
    /\ IF decRunning
       THEN /\ clock' = "dequeue"
            /\ primed' = TRUE
            /\ credit' = IF primed THEN credit ELSE credit + Tokens
            /\ UNCHANGED read_buffer
       ELSE clock' = "idle" /\ read_buffer' = FALSE
            /\ UNCHANGED <<primed, credit>>
    /\ UNCHANGED <<inActive, outActive, decoder, left, decRunning, decQueue,
                   decUsed, encVars, farVars, control, aborted>>

(* decodedQueue->GetBlocking() *)
Dequeue ==
    /\ clock = "dequeue" /\ decQueue > 0
    /\ clock' = "played"
    /\ decQueue' = decQueue - 1
    /\ UNCHANGED <<inActive, outVars, decoder, left, decRunning, primed,
                   credit, decUsed, encVars, farVars, control, aborted>>

(* EchoCanceller::SpeakerOutCallback *)
SpeakerOutCallback ==
    IF EnableAEC /\ farUsed < FarPool
    THEN /\ farUsed' = farUsed + 1
         /\ farQueue' = farQueue + 1
         /\ aborted' = (aborted \/ farQueue >= FarCapacity)
    ELSE UNCHANGED <<farUsed, farQueue, aborted>>

(* mutant: the packet is not asked for again *)
PlayedOnce ==
    /\ clock = "played"
    /\ clock' = "idle"
    /\ read_buffer' = FALSE
    /\ decUsed' = decUsed - 1
    /\ SpeakerOutCallback
    /\ UNCHANGED <<inActive, outActive, decoder, left, decRunning, primed,
                   credit, decQueue, encVars, farend, control>>

(* The rest of HandleCallback: the buffer goes back and is asked for anew. *)
Played ==
    /\ clock = "played"
    /\ clock' = "idle"
    /\ read_buffer' = FALSE
    /\ decUsed' = decUsed - 1
    /\ credit' = credit + 1
    /\ SpeakerOutCallback
    /\ UNCHANGED <<inActive, outActive, decoder, left, decRunning, primed,
                   decQueue, encVars, farend, control>>

-----------------------------------------------------------------------------
(* OpusDecoder::RunThread.  A frame of 60 ms is played in 40, 60 or 80.    *)
DecodeNextFrame ==
    /\ decoder = "decode"
    /\ IF decRunning THEN decoder' = "acquire" /\ left' \in {2, 3, 4}
       ELSE decoder' = "ended" /\ UNCHANGED left
    /\ UNCHANGED <<clock, inActive, outVars, decRunning, primed, credit,
                   decQueue, decUsed, encVars, farVars, control, aborted>>

Acquire ==
    /\ decoder = "acquire" /\ credit > 0
    /\ credit' = credit - 1
    /\ decoder' = IF decRunning THEN "fill" ELSE "ended"
    /\ UNCHANGED <<clock, inActive, outVars, left, decRunning, primed,
                   decQueue, decUsed, encVars, farVars, control, aborted>>

(* Without a buffer the packet is skipped, and what was acquired is lost.  *)
Fill ==
    /\ decoder = "fill"
    /\ IF decUsed < DecPool
       THEN /\ decUsed' = decUsed + 1
            /\ decQueue' = decQueue + 1
            /\ aborted' = (aborted \/ decQueue >= DecCapacity)
       ELSE UNCHANGED <<decUsed, decQueue, aborted>>
    /\ left' = left - 1
    /\ decoder' = IF left = 1 THEN "decode" ELSE "acquire"
    /\ UNCHANGED <<clock, inActive, outVars, decRunning, primed, credit,
                   encVars, farVars, control>>

-----------------------------------------------------------------------------
(* OpusEncoder::RunThread: an element is taken, and a packet is encoded,   *)
(* sent and its buffer returned.                                           *)
EncoderLoop == encoder' = IF encRunning THEN "get" ELSE "ended"

TakePacket ==
    /\ encoder = "get" /\ encQueue # << >>
    /\ encQueue' = Tail(encQueue)
    /\ IF Head(encQueue) = "packet" THEN encoder' = "encode" ELSE EncoderLoop
    /\ UNCHANGED <<clock, inActive, outVars, decVars, encRunning, encUsed,
                   farVars, control, aborted>>

(* mutant: the buffer of an encoded packet is not returned *)
EncodeKeeps ==
    /\ encoder = "encode"
    /\ EncoderLoop
    /\ UNCHANGED <<clock, inActive, outVars, decVars, encRunning, encQueue,
                   encUsed, farVars, control, aborted>>

Encode ==
    /\ encoder = "encode"
    /\ EncoderLoop
    /\ encUsed' = encUsed - 1
    /\ UNCHANGED <<clock, inActive, outVars, decVars, encRunning, encQueue,
                   farVars, control, aborted>>

(* EchoCanceller::RunBufferFarendThread: nothing ever clears its running.  *)
TakeFarend ==
    /\ farend = "get" /\ farQueue > 0
    /\ farend' = "process"
    /\ farQueue' = farQueue - 1
    /\ UNCHANGED <<clock, inActive, outVars, decVars, encVars, farUsed,
                   control, aborted>>

ProcessReverseStream ==
    /\ farend = "process"
    /\ farend' = "get"
    /\ farUsed' = farUsed - 1
    /\ UNCHANGED <<clock, inActive, outVars, decVars, encVars, farQueue,
                   control, aborted>>

-----------------------------------------------------------------------------
(* The controller. *)

(* The first packet of sound, or a change of the peer's streams. *)
UpdateAudioOutputState ==
    /\ control = "up"
    /\ outActive' = ~outActive
    /\ UNCHANGED <<clock, inActive, read_buffer, decVars, encVars, farVars,
                   control, aborted>>

Stop ==
    /\ control = "up"
    /\ control' = "stopped"
    /\ inActive' = FALSE
    /\ outActive' = FALSE
    /\ UNCHANGED <<clock, read_buffer, decVars, encVars, farVars, aborted>>

(* mutant: the decoder is stopped without a release to wake it *)
StopDecoderQuietly ==
    /\ control = "stopped"
    /\ control' = "join_decoder"
    /\ decRunning' = FALSE
    /\ UNCHANGED <<clock, inActive, outVars, decoder, left, primed, credit,
                   decQueue, decUsed, encVars, farVars, aborted>>

(* ~VoIPController: OpusDecoder::Stop up to its Join. *)
StopDecoder ==
    /\ control = "stopped"
    /\ control' = "join_decoder"
    /\ decRunning' = FALSE
    /\ credit' = credit + 1
    /\ UNCHANGED <<clock, inActive, outVars, decoder, left, primed, decQueue,
                   decUsed, encVars, farVars, aborted>>

(* OpusEncoder::Stop up to its Join. *)
StopEncoder ==
    /\ control = "join_decoder" /\ decoder = "ended"
    /\ control' = "join_encoder"
    /\ encRunning' = FALSE
    /\ PutEncoder("NULL")
    /\ UNCHANGED <<clock, inActive, outVars, decVars, encoder, encUsed,
                   farVars>>

(* The encoder is deleted with its pool and its queue as soon as its       *)
(* thread has been joined: nobody asks where the clock thread is.          *)
DeleteEncoder ==
    /\ control = "join_encoder" /\ encoder = "ended"
    /\ control' = "encoder_deleted"
    /\ UNCHANGED <<clock, inActive, outVars, decVars, encVars, farVars,
                   aborted>>

(* Then the ports are removed from the bridge, whose lock the clock thread *)
(* holds while it is in a port's callback.                                 *)
DeletePorts ==
    /\ control = "encoder_deleted" /\ clock = "idle"
    /\ control' = "deleted"
    /\ UNCHANGED <<clock, inActive, outVars, decVars, encVars, farVars,
                   aborted>>

-----------------------------------------------------------------------------
Frame == PutFrame \/ GetFrame
Callback ==
    \/ TakeBuffer \/ Enqueue \/ UseDeletedEncoder
    \/ HandleCallback \/ Dequeue \/ Played
Decoder == DecodeNextFrame \/ Acquire \/ Fill
Encoder == TakePacket \/ Encode
Farend == TakeFarend \/ ProcessReverseStream
Delete == StopDecoder \/ StopEncoder \/ DeleteEncoder \/ DeletePorts

Next ==
    \/ Frame \/ Callback \/ Decoder \/ Encoder \/ Farend
    \/ UpdateAudioOutputState \/ Stop \/ Delete

Spec == Init /\ [][Next]_vars

(* Every thread is scheduled; a stopped controller is deleted. *)
FairSpec ==
    /\ Spec
    /\ WF_vars(Callback) /\ WF_vars(Decoder) /\ WF_vars(Encoder)
    /\ WF_vars(Farend) /\ WF_vars(Delete)
-----------------------------------------------------------------------------
(* Correctness. *)

(* No Put into a queue that exists ever goes over its capacity, which      *)
(* would abort the process with every other call: a queue is larger than   *)
(* its pool by the one element that stops its thread (BlockingQueue.h:41). *)
NeverAborts == ~aborted

One(b) == IF b THEN 1 ELSE 0
Packets(q) == Cardinality({n \in 1 .. Len(q) : q[n] = "packet"})

(* A pool's used buffers are those in the queue and those a thread has in  *)
(* hand: none is lost and none is used twice.  The encoder's pool is       *)
(* counted until it is deleted, which may happen while the clock thread    *)
(* has one of its buffers in hand (VoIPController.cpp:315).                *)
BuffersAccounted ==
    /\ decUsed = decQueue + One(clock = "played")
    /\ EncoderThere =>
         encUsed = Packets(encQueue) + One(clock = "enqueue")
                                     + One(encoder = "encode")
    /\ farUsed = farQueue + One(farend = "process")

(* The two packets the first callback asks for stay in circulation: the    *)
(* sound is never more than two packets behind and never runs dry, since   *)
(* the decoder always finds a buffer (OpusDecoder.cpp:108, 118, 187, 199). *)
CreditConserved ==
    decRunning =>
        credit + One(decoder = "fill") + decQueue + One(clock = "played")
            = IF primed THEN Tokens ELSE 0

(* Nothing that circulates between the threads is lost or made up, Stop    *)
(* and the joins of the decoder and the encoder included.                  *)
NothingLost == TypeOK /\ BuffersAccounted /\ CreditConserved

(* While the controller is up the bridge's clock is never held up: every   *)
(* callback that waits for a packet gets one (OpusDecoder.cpp:113).        *)
ClockGoesOn == clock = "dequeue" ~> clock = "idle" \/ control # "up"

(* The clock thread waits for sound of a decoder that has left, with the   *)
(* bridge's lock held (OpusDecoder.cpp:113, 182-185).                      *)
Starved == clock = "dequeue" /\ decoder = "ended" /\ decQueue = 0

(* A controller that has been stopped can be deleted (VoIPController.cpp:  *)
(* 291), and only a clock thread in that one place, or in the deleted      *)
(* encoder, can be in the way: no other wait of the five threads for one   *)
(* another is without end.                                                 *)
DeletionEnds ==
    control = "stopped" ~>
        control = "deleted" \/ Starved \/ clock = "undefined"
=============================================================================
