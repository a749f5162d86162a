------------------------------ MODULE VoipAcks ------------------------------
(***************************************************************************)
(* tgvoip::VoIPController's packet numbers and acknowledgements: what one  *)
(* side numbers, repeats and waits to see acknowledged, and what the other *)
(* accepts, acknowledges and takes for a duplicate.  Packets are lost,     *)
(* repeated and reordered.  This side is the sender of the packets, the    *)
(* peer runs the same code and sends only acknowledgements here: a repeat  *)
(* of one changes nothing, its ackId is no longer greater.                 *)
(*                                                                         *)
(* A packet's number is taken before its header is written, by the thread  *)
(* that sends it; the peer's receiving thread moves the window, then sets  *)
(* lastRemoteSeq and only then turns to what the packet carries, while its *)
(* other threads read the window and then lastRemoteSeq for their headers. *)
(* The peer's packets are well formed and over a relay, so that nothing is *)
(* thrown in between.                                                      *)
(***************************************************************************)
EXTENDS Integers, Sequences, FiniteSets

CONSTANTS
    Window,         \* packets the mask of received ones covers, 32
    MaxRecent,      \* MAX_RECENT_PACKETS, 128
    Reliable,       \* packets given to SendPacketReliably
    Threads,        \* threads that send: encoder, receiver, message thread
    SocketBlocks,   \* whether the socket may be not ready to send
    MaxExtra,       \* bound: values an extra is given
    MaxSeq,         \* bound: packets numbered
    MaxAcks         \* bound: acknowledgements in flight

ASSUME VoipAcksAssumption ==
    /\ Window \in Nat /\ Window > 1 /\ MaxRecent \in Nat \ {0}
    /\ SocketBlocks \in BOOLEAN
    /\ MaxExtra \in Nat /\ MaxSeq \in Nat /\ MaxAcks \in Nat

Seqs == 1 .. MaxSeq
Offsets == 0 .. Window - 1
Packets == [seq : Seqs, extra : 0 .. MaxExtra]
Acks == [ackId : 0 .. MaxSeq, mask : SUBSET Offsets]
NoMask == {-1}
NoPacket == [seq |-> 0, extra |-> 0]

VARIABLES
    seq,                \* the next packet's number
    hold,               \* thread -> number it has taken and not sent, or 0
    sendQueue,          \* numbers waiting for the socket
    air,                \* packets sent: each may arrive never, once or often
    queuedPackets, seqs,\* reliable packets not acknowledged, their numbers
    extra,              \* currentExtras: the value (0: none) and the number
    recent,             \* recentOutgoingPackets: number, acknowledged
    lastRemoteAckSeq,
    lastRemoteSeq, recv,\* the peer's: recvPacketTimes[i] > 0
    moving,             \* the peer moved the window for this number, or 0
    inHand,             \* the packet whose extras it has yet to process
    reading,            \* the mask the peer put in a header, or NoMask
    acks,               \* acknowledgements in flight
    accepted,           \* history: numbers the peer accepted, how often
    jumped,             \* history: numbers that arrived past the window
    heard,              \* history: values of the extra that were processed
    doneExtra, donePkt, \* history: dropped here as acknowledged
    ordered             \* history: headers were written by number so far

sender == <<seq, hold, sendQueue, air, queuedPackets, seqs, extra, recent,
            lastRemoteAckSeq, doneExtra, donePkt, ordered>>
peer == <<lastRemoteSeq, recv, moving, inHand, reading, accepted, jumped,
          heard>>
ackVars == <<sender, peer, acks>>

AcksTypeOK ==
    /\ seq \in 1 .. MaxSeq + 1
    /\ hold \in [Threads -> 0 .. MaxSeq]
    /\ sendQueue \in Seq(Seqs)
    /\ air \subseteq Packets
    /\ queuedPackets \subseteq Reliable /\ seqs \in [Reliable -> SUBSET Seqs]
    /\ extra \in [value : 0 .. MaxExtra, first : 0 .. MaxSeq]
    /\ recent \in Seq([seq : Seqs, acked : BOOLEAN])
    /\ Len(recent) <= MaxRecent
    /\ lastRemoteAckSeq \in 0 .. MaxSeq /\ lastRemoteSeq \in 0 .. MaxSeq
    /\ recv \subseteq Offsets /\ moving \in 0 .. MaxSeq
    /\ inHand \in Packets \cup {NoPacket}
    /\ reading \in (SUBSET Offsets) \cup {NoMask}
    /\ acks \subseteq Acks
    /\ accepted \in [Seqs -> 0 .. 2] /\ jumped \subseteq Seqs
    /\ {heard, doneExtra} \subseteq SUBSET (1 .. MaxExtra)
    /\ donePkt \subseteq Reliable /\ ordered \in BOOLEAN

AcksInit ==
    /\ seq = 1 /\ hold = [t \in Threads |-> 0] /\ sendQueue = <<>>
    /\ air = {} /\ queuedPackets = {} /\ seqs = [p \in Reliable |-> {}]
    /\ extra = [value |-> 0, first |-> 0] /\ recent = <<>>
    /\ lastRemoteAckSeq = 0 /\ lastRemoteSeq = 0 /\ recv = {} /\ moving = 0
    /\ inHand = NoPacket /\ reading = NoMask /\ acks = {}
    /\ accepted = [s \in Seqs |-> 0] /\ jumped = {} /\ heard = {}
    /\ doneExtra = {} /\ donePkt = {} /\ ordered = TRUE

-----------------------------------------------------------------------------
(* The sender. *)

(* SendPacketReliably: the packet is queued; the message thread sends it.  *)
SendPacketReliably(p) ==
    /\ p \notin queuedPackets \cup donePkt /\ seqs[p] = {}
    /\ queuedPackets' = queuedPackets \cup {p}
    /\ UNCHANGED <<seq, hold, sendQueue, air, seqs, extra, recent,
                   lastRemoteAckSeq, doneExtra, donePkt, ordered, peer, acks>>

(* mutant: the new value keeps the number of the old one *)
ReplacedKeeps(v) == [extra EXCEPT !.value = v]

(* A value of the same type takes the place of the one not acknowledged.   *)
Replaced(v) == [value |-> v, first |-> 0]

(* SendExtra: the values are numbered in the order they are given. *)
SendExtra(v) ==
    /\ \A w \in 1 .. v - 1 : w \in doneExtra \/ w <= extra.value
    /\ v > extra.value /\ v \notin doneExtra
    /\ extra' = Replaced(v)
    /\ UNCHANGED <<seq, hold, sendQueue, air, queuedPackets, seqs, recent,
                   lastRemoteAckSeq, doneExtra, donePkt, ordered, peer, acks>>

(* A thread takes the next number, for a packet of sound, an empty one or  *)
(* a pong (of = {}), or for a reliable packet it sends for the first time  *)
(* or again (UpdateQueuedPackets).                                         *)
GenerateOutSeq(t, of) ==
    /\ hold[t] = 0 /\ seq <= MaxSeq
    /\ hold' = [hold EXCEPT ![t] = seq]
    /\ seq' = seq + 1
    /\ of \subseteq queuedPackets
    /\ seqs' = [p \in Reliable |->
                 IF p \in of THEN seqs[p] \cup {seq} ELSE seqs[p]]
    /\ UNCHANGED <<sendQueue, air, queuedPackets, extra, recent,
                   lastRemoteAckSeq, doneExtra, donePkt, ordered, peer, acks>>

(* UpdateQueuedPackets gives a packet up whose time is over. *)
GiveUp(p) ==
    /\ p \in queuedPackets /\ seqs[p] # {}
    /\ queuedPackets' = queuedPackets \ {p}
    /\ UNCHANGED <<seq, hold, sendQueue, air, seqs, extra, recent,
                   lastRemoteAckSeq, doneExtra, donePkt, ordered, peer, acks>>

(* The last MAX_RECENT_PACKETS of the packets. *)
LastRecent(s) == IF Len(s) > MaxRecent THEN Tail(s) ELSE s

(* The packet goes out with the extras not acknowledged. *)
WritePacketHeader(pseq) ==
    /\ air' = air \cup {[seq |-> pseq, extra |-> extra.value]}
    /\ extra' = IF extra.value # 0 /\ extra.first = 0
                THEN [extra EXCEPT !.first = pseq] ELSE extra
    /\ recent' = LastRecent(Append(recent, [seq |-> pseq, acked |-> FALSE]))
    /\ ordered' = (ordered /\ \A q \in air : q.seq < pseq)

(* SendOrEnqueuePacket, of the thread that took the number: the packet is  *)
(* sent, or waits for the receiving thread to find the socket ready.       *)
SendOrEnqueuePacket(t) ==
    /\ hold[t] # 0
    /\ hold' = [hold EXCEPT ![t] = 0]
    /\ \/ WritePacketHeader(hold[t]) /\ UNCHANGED sendQueue
       \/ /\ SocketBlocks
          /\ sendQueue' = Append(sendQueue, hold[t])
          /\ UNCHANGED <<air, extra, recent, ordered>>
    /\ UNCHANGED <<seq, queuedPackets, seqs, lastRemoteAckSeq, doneExtra,
                   donePkt, peer, acks>>

(* RunRecvThread sends what waited. *)
SendQueued ==
    /\ sendQueue # <<>>
    /\ WritePacketHeader(Head(sendQueue))
    /\ sendQueue' = Tail(sendQueue)
    /\ UNCHANGED <<seq, hold, queuedPackets, seqs, lastRemoteAckSeq,
                   doneExtra, donePkt, peer, acks>>

(* The numbers the mask of an acknowledgement is read to stand for: bit    *)
(* 31 - i for ackId - (i + 1).                                             *)
ReadMask(a) == {a.ackId - (i + 1) : i \in a.mask \ {Window - 1}}

(* ProcessIncomingPacket, its acknowledgement.  It holds queuedPacketsMutex. *)
ReceiveAck(a) ==
    /\ acks' = acks \ {a}
    /\ IF a.ackId > lastRemoteAckSeq
       THEN LET marked == [k \in DOMAIN recent |->
                             IF recent[k].seq \in ReadMask(a)
                             THEN [recent[k] EXCEPT !.acked = TRUE]
                             ELSE recent[k]]
                acked == {marked[k].seq : k \in {j \in DOMAIN marked :
                                                   marked[j].acked}}
                gone == {p \in queuedPackets : \E s \in seqs[p] \cap acked :
                           s < a.ackId /\ a.ackId - s < Window}
            IN  /\ lastRemoteAckSeq' = a.ackId
                /\ recent' = marked
                /\ queuedPackets' = queuedPackets \ gone
                /\ donePkt' = donePkt \cup gone
                /\ IF extra.first # 0 /\ a.ackId >= extra.first
                   THEN /\ extra' = [value |-> 0, first |-> 0]
                        /\ doneExtra' = doneExtra \cup {extra.value}
                   ELSE UNCHANGED <<extra, doneExtra>>
       ELSE UNCHANGED <<lastRemoteAckSeq, recent, queuedPackets, extra,
                        doneExtra, donePkt>>
    /\ UNCHANGED <<seq, hold, sendQueue, air, seqs, ordered, peer>>

-----------------------------------------------------------------------------
(* The peer. *)

(* The packet is neither a duplicate nor too late: the receiving thread    *)
(* will go on to its acknowledgement, extras and content.                  *)
Accept(pkt) ==
    /\ inHand = NoPacket
    /\ inHand' = pkt
    /\ accepted' = [accepted EXCEPT ![pkt.seq] = IF @ < 2 THEN @ + 1 ELSE @]

(* A packet newer than all: the window moves.  Past the window nothing is  *)
(* marked, the packet itself neither.                                      *)
ReceiveNewer(pkt) ==
    LET diff == pkt.seq - lastRemoteSeq
    IN  /\ moving = 0 /\ diff > 0
        /\ recv' = IF diff > Window - 1 THEN {}
                   ELSE {0} \cup {i + diff : i \in {j \in recv :
                                                      j + diff < Window}}
        /\ jumped' = IF diff > Window - 1 THEN jumped \cup {pkt.seq}
                     ELSE jumped
        /\ moving' = pkt.seq
        /\ Accept(pkt)
        /\ UNCHANGED <<lastRemoteSeq, reading, heard, sender, acks>>

(* lastRemoteSeq=pseq *)
EndMove ==
    /\ moving # 0
    /\ lastRemoteSeq' = moving
    /\ moving' = 0
    /\ UNCHANGED <<recv, inHand, reading, accepted, jumped, heard, sender,
                   acks>>

(* mutant: a number in the window is always accepted *)
AcceptsAny(pseq) == lastRemoteSeq - pseq < Window

(* A number in the window is accepted once; one before it is too late.     *)
Accepts(pseq) ==
    lastRemoteSeq - pseq < Window /\ lastRemoteSeq - pseq \notin recv

ReceiveOlder(pkt) ==
    /\ moving = 0 /\ pkt.seq <= lastRemoteSeq
    /\ Accepts(pkt.seq)
    /\ recv' = recv \cup {lastRemoteSeq - pkt.seq}
    /\ Accept(pkt)
    /\ UNCHANGED <<lastRemoteSeq, moving, jumped, reading, heard, sender,
                   acks>>

(* ProcessExtraData, after lastRemoteSeq has been set. *)
ProcessExtraData ==
    /\ inHand # NoPacket /\ moving = 0
    /\ heard' = IF inHand.extra = 0 THEN heard ELSE heard \cup {inHand.extra}
    /\ inHand' = NoPacket
    /\ UNCHANGED <<lastRemoteSeq, recv, moving, reading, accepted, jumped,
                   sender, acks>>

(* WritePacketHeader at the peer: the mask, bit 31 - i for                 *)
(* recvPacketTimes[i], and then lastRemoteSeq.                             *)
WriteMask ==
    /\ reading = NoMask /\ Cardinality(acks) < MaxAcks
    /\ reading' = recv
    /\ UNCHANGED <<lastRemoteSeq, recv, moving, inHand, accepted, jumped,
                   heard, sender, acks>>

AckId == lastRemoteSeq

WriteAckId ==
    /\ reading # NoMask
    /\ acks' = acks \cup {[ackId |-> AckId, mask |-> reading]}
    /\ reading' = NoMask
    /\ UNCHANGED <<lastRemoteSeq, recv, moving, inHand, accepted, jumped,
                   heard, sender>>

(* An acknowledgement is lost. *)
LoseAck(a) == acks' = acks \ {a} /\ UNCHANGED <<sender, peer>>

AcksNext ==
    \/ \E p \in Reliable : SendPacketReliably(p) \/ GiveUp(p)
    \/ \E v \in 1 .. MaxExtra : SendExtra(v)
    \/ \E t \in Threads :
         \/ \E of \in {{}} \cup {{p} : p \in Reliable} : GenerateOutSeq(t, of)
         \/ SendOrEnqueuePacket(t)
    \/ SendQueued
    \/ \E pkt \in air : ReceiveNewer(pkt) \/ ReceiveOlder(pkt)
    \/ EndMove \/ ProcessExtraData \/ WriteMask \/ WriteAckId
    \/ \E a \in acks : ReceiveAck(a) \/ LoseAck(a)

AcksSpec == AcksInit /\ [][AcksNext]_ackVars

-----------------------------------------------------------------------------
(* The peer accepts no packet twice (VoIPController.cpp:2087), except one  *)
(* that arrived past the window: line 2077 leaves it unmarked, so that a   *)
(* duplicate is accepted again.                                            *)
OnceWithinTheWindow ==
    /\ AcksTypeOK
    /\ \A s \in Seqs \ jumped : accepted[s] <= 1

(* An extra dropped as acknowledged (VoIPController.cpp:2167) reached the  *)
(* peer in that very value, though only the number of one packet is looked *)
(* at and values replace one another while packets are under way: the peer *)
(* has processed it, or its receiving thread has it in hand at that moment *)
(* (the number is acknowledged from line 2085 on, the extras follow in     *)
(* 2225).  Two threads, or the queue for the socket, may write headers out *)
(* of the order of their numbers; from then on it may not have.            *)
InOrderExtraAckedArrived ==
    ordered => doneExtra \subseteq heard \cup {inHand.extra}
=============================================================================
