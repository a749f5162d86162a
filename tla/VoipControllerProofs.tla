------------------------ MODULE VoipControllerProofs ------------------------
(***************************************************************************)
(* Proofs about the two models of tgvoip::VoIPController.  VoipAcks, for a *)
(* window of any width and any number of threads, packets and              *)
(* acknowledgements in flight; VoipHandshake, for any bound on the packets *)
(* under way and any choice of the sides that fall silent.                 *)
(***************************************************************************)
EXTENDS VoipAcks, VoipHandshake, SequenceTheorems, FiniteSetTheorems,
        FunctionTheorems, TLAPS

-----------------------------------------------------------------------------
(* Numbers and acknowledgements *)

(* The number recvPacketTimes[0] stands for: the window moves before       *)
(* lastRemoteSeq does.                                                     *)
Newest == IF moving # 0 THEN moving ELSE lastRemoteSeq

(* What was accepted is not newer than the window, and is marked in it,    *)
(* unless it moved the window further than its width.                      *)
WindowInv ==
    \A s \in Seqs : accepted[s] >= 1 =>
        /\ s <= Newest
        /\ s \notin jumped /\ Newest - s < Window => Newest - s \in recv

OnceInv == \A s \in Seqs \ jumped : accepted[s] <= 1

(* The extra was processed, or will be next. *)
Known(v) == v # 0 => v \in heard \cup {inHand.extra}

(* A packet of this number was accepted, and its extra with it. *)
Heard(s) == \E pkt \in air : pkt.seq = s /\ Known(pkt.extra)

(* Whatever the peer acknowledges, it accepted. *)
AckInv == /\ lastRemoteSeq # 0 => Heard(lastRemoteSeq)
          /\ moving # 0 => Heard(moving)
          /\ \A a \in acks : a.ackId # 0 => Heard(a.ackId)

(* Only a value has a first packet. *)
FirstInv == extra.first # 0 => extra.value # 0

(* As long as headers are written by number, every packet from the first   *)
(* one with the current value on carries that value.                       *)
ExtraInv == ordered /\ extra.first # 0 =>
               \A q \in air : q.seq >= extra.first => q.extra = extra.value

AcksInv ==
    /\ AcksTypeOK /\ WindowInv /\ OnceInv /\ AckInv /\ FirstInv
    /\ ExtraInv /\ InOrderExtraAckedArrived

-----------------------------------------------------------------------------
(* The bounds, one fact each. *)
LEMMA Sizes == /\ Window \in Nat /\ Window > 1 /\ MaxRecent \in Nat
               /\ MaxRecent > 0 /\ MaxExtra \in Nat /\ MaxSeq \in Nat
               /\ MaxAcks \in Nat
  BY VoipAcksAssumption

(* A function on 1 .. n is a sequence. *)
LEMMA AsSequence ==
    ASSUME NEW S, NEW n \in Nat, NEW f \in [1 .. n -> S]
    PROVE  f \in Seq(S) /\ Len(f) = n
<1>1. f \in Seq(S)
  BY SeqDef
<1>2. DOMAIN f = 1 .. n /\ DOMAIN f = 1 .. Len(f) /\ Len(f) \in Nat
  BY <1>1, LenProperties
<1> QED
  BY <1>1, <1>2

(* The list of recent packets stays within its bound. *)
LEMMA Recent ==
    ASSUME NEW S, NEW q \in Seq(S), Len(q) <= MaxRecent, NEW e \in S
    PROVE  /\ LastRecent(Append(q, e)) \in Seq(S)
           /\ Len(LastRecent(Append(q, e))) <= MaxRecent
<1>1. PICK r : r = Append(q, e)
  OBVIOUS
<1>2. r \in Seq(S) /\ Len(r) = Len(q) + 1 /\ Len(q) \in Nat /\ r # << >>
  BY <1>1
<1>3. Tail(r) \in Seq(S) /\ Len(Tail(r)) = Len(r) - 1
  BY <1>2
<1> QED
  BY <1>1, <1>2, <1>3, Sizes DEF LastRecent

(* The invariant holds before the first packet. *)
LEMMA InitAcks == AcksInit => AcksInv
<1> SUFFICES ASSUME AcksInit PROVE AcksInv
  OBVIOUS
<1>1. sendQueue \in Seq(Seqs)
  BY DEF AcksInit
<1>2. recent \in Seq([seq : Seqs, acked : BOOLEAN]) /\ Len(recent) <= MaxRecent
  BY Sizes DEF AcksInit
<1>3. reading \in (SUBSET Offsets) \cup {NoMask}
  BY DEF AcksInit
<1>4. AcksTypeOK
  BY <1>1, <1>2, <1>3, Sizes DEF AcksInit, AcksTypeOK
<1>5. WindowInv /\ OnceInv /\ AckInv
  BY DEF AcksInit, WindowInv, OnceInv, AckInv
<1>6. FirstInv /\ ExtraInv /\ InOrderExtraAckedArrived
  BY DEF AcksInit, FirstInv, ExtraInv, InOrderExtraAckedArrived
<1> QED
  BY <1>4, <1>5, <1>6 DEF AcksInv

-----------------------------------------------------------------------------
(* What the steps that write a header do. *)

(* What WritePacketHeader leaves. *)
LEMMA HeaderWritten ==
    ASSUME AcksTypeOK, ExtraInv, NEW pseq \in Seqs, WritePacketHeader(pseq)
    PROVE  /\ air' \subseteq Packets /\ air \subseteq air'
           /\ extra' \in [value : 0 .. MaxExtra, first : 0 .. MaxSeq]
           /\ recent' \in Seq([seq : Seqs, acked : BOOLEAN])
           /\ Len(recent') <= MaxRecent
           /\ ordered' \in BOOLEAN
           /\ ordered' => ordered
           /\ ExtraInv'
<1>1. /\ air' = air \cup {[seq |-> pseq, extra |-> extra.value]}
      /\ air' \subseteq Packets
  BY DEF WritePacketHeader, AcksTypeOK, Packets
<1>2. extra' \in [value : 0 .. MaxExtra, first : 0 .. MaxSeq]
  <2>1. pseq \in 0 .. MaxSeq
    BY Sizes DEF Seqs
  <2>2. extra' = extra \/ extra' = [extra EXCEPT !.first = pseq]
    BY DEF WritePacketHeader
  <2> QED
    BY <2>1, <2>2 DEF AcksTypeOK
<1>3. /\ recent' \in Seq([seq : Seqs, acked : BOOLEAN])
      /\ Len(recent') <= MaxRecent
  <2> DEFINE R == [seq : Seqs, acked : BOOLEAN]
  <2>1. PICK e \in R : recent' = LastRecent(Append(recent, e))
    <3>1. [seq |-> pseq, acked |-> FALSE] \in R
      OBVIOUS
    <3> QED
      BY <3>1 DEF WritePacketHeader
  <2>2. recent \in Seq(R) /\ Len(recent) <= MaxRecent
    BY DEF AcksTypeOK
  <2> HIDE DEF R
  <2>3. recent' \in Seq(R) /\ Len(recent') <= MaxRecent
    BY <2>1, <2>2, Recent
  <2> QED
    BY <2>3 DEF R
<1>4. ordered' \in BOOLEAN
  BY DEF WritePacketHeader
<1>5. ordered' => ordered /\ \A q \in air : q.seq < pseq
  BY DEF WritePacketHeader
<1>6. ASSUME ordered', extra'.first # 0
      PROVE  \A q \in air' : q.seq >= extra'.first =>
                                q.extra = extra'.value
  <2>1. CASE extra.value # 0 /\ extra.first = 0
    <3>1. extra'.first = pseq /\ extra'.value = extra.value
      BY <2>1 DEF WritePacketHeader, AcksTypeOK
    <3>2. \A q \in air : ~(q.seq >= pseq)
      BY <1>5, <1>6 DEF AcksTypeOK, Packets, Seqs
    <3> QED
      BY <1>1, <2>1, <3>1, <3>2
  <2>2. CASE ~(extra.value # 0 /\ extra.first = 0)
    <3>1. extra' = extra
      BY <2>2 DEF WritePacketHeader
    <3> QED
      BY <1>1, <1>5, <1>6, <3>1 DEF ExtraInv
  <2> QED
    BY <2>1, <2>2
<1> QED
  BY <1>1, <1>2, <1>3, <1>4, <1>5, <1>6 DEF ExtraInv

-----------------------------------------------------------------------------
(* Every step keeps the types. *)
LEMMA NextType ==
    AcksTypeOK /\ FirstInv /\ ExtraInv /\ [AcksNext]_ackVars => AcksTypeOK'
<1> SUFFICES ASSUME AcksTypeOK, FirstInv, ExtraInv, [AcksNext]_ackVars
             PROVE  AcksTypeOK'
  OBVIOUS
<1>0. CASE UNCHANGED ackVars
  BY <1>0 DEF ackVars, sender, peer, AcksTypeOK
<1>1. ASSUME NEW p \in Reliable, SendPacketReliably(p) PROVE AcksTypeOK'
  BY <1>1 DEF SendPacketReliably, sender, peer, AcksTypeOK
<1>2. ASSUME NEW p \in Reliable, GiveUp(p) PROVE AcksTypeOK'
  BY <1>2 DEF GiveUp, sender, peer, AcksTypeOK
<1>3. ASSUME NEW v \in 1 .. MaxExtra, SendExtra(v) PROVE AcksTypeOK'
  BY <1>3, Sizes DEF SendExtra, Replaced, AcksTypeOK, peer
<1>4. ASSUME NEW t \in Threads, NEW of, GenerateOutSeq(t, of)
      PROVE  AcksTypeOK'
  <2>1. seq \in Seqs /\ seq' \in 1 .. MaxSeq + 1
    BY <1>4, Sizes DEF GenerateOutSeq, AcksTypeOK, Seqs
  <2>2. hold' \in [Threads -> 0 .. MaxSeq]
    BY <1>4, <2>1, Sizes DEF GenerateOutSeq, AcksTypeOK, Seqs
  <2>3. seqs' \in [Reliable -> SUBSET Seqs]
    BY <1>4, <2>1 DEF GenerateOutSeq, AcksTypeOK
  <2> QED
    BY <1>4, <2>1, <2>2, <2>3 DEF GenerateOutSeq, AcksTypeOK, peer
<1>5. ASSUME NEW t \in Threads, SendOrEnqueuePacket(t) PROVE AcksTypeOK'
  <2>1. hold[t] \in Seqs /\ hold' \in [Threads -> 0 .. MaxSeq]
    <3>1. hold[t] \in 0 .. MaxSeq /\ hold[t] # 0
      BY <1>5 DEF SendOrEnqueuePacket, AcksTypeOK
    <3>2. 0 \in 0 .. MaxSeq
      BY Sizes
    <3> QED
      BY <1>5, <3>1, <3>2 DEF SendOrEnqueuePacket, AcksTypeOK, Seqs
  <2>2. CASE WritePacketHeader(hold[t]) /\ UNCHANGED sendQueue
    BY <1>5, <2>1, <2>2, HeaderWritten
       DEF SendOrEnqueuePacket, AcksTypeOK, peer
  <2>3. CASE /\ sendQueue' = Append(sendQueue, hold[t])
             /\ UNCHANGED <<air, extra, recent, ordered>>
    <3>1. sendQueue' \in Seq(Seqs)
      BY <2>1, <2>3 DEF AcksTypeOK
    <3> QED
      BY <1>5, <2>1, <2>3, <3>1 DEF SendOrEnqueuePacket, AcksTypeOK, peer
  <2> QED
    BY <1>5, <2>2, <2>3 DEF SendOrEnqueuePacket
<1>6. ASSUME SendQueued PROVE AcksTypeOK'
  <2>1. /\ Head(sendQueue) \in Seqs
        /\ sendQueue' \in Seq(Seqs)
    BY <1>6 DEF SendQueued, AcksTypeOK
  <2> QED
    BY <1>6, <2>1, HeaderWritten DEF SendQueued, AcksTypeOK, peer
<1>7. ASSUME NEW pkt \in air, ReceiveNewer(pkt) PROVE AcksTypeOK'
  <2>1. /\ pkt.seq \in Seqs /\ pkt.seq \in 0 .. MaxSeq
        /\ pkt.extra \in 0 .. MaxExtra
    BY Sizes DEF AcksTypeOK, Packets, Seqs
  <2>2. accepted' \in [Seqs -> 0 .. 2]
    BY <1>7, <2>1 DEF ReceiveNewer, Accept, AcksTypeOK
  <2>3. inHand' \in Packets \cup {NoPacket}
    BY <1>7 DEF ReceiveNewer, Accept, AcksTypeOK
  <2>4. jumped' \subseteq Seqs
    BY <1>7, <2>1 DEF ReceiveNewer, AcksTypeOK
  <2>5. recv' \subseteq Offsets
    <3>1. PICK d \in Nat : d = pkt.seq - lastRemoteSeq
      BY <1>7, <2>1 DEF ReceiveNewer, AcksTypeOK
    <3>2. \/ recv' = {}
          \/ recv' = {0} \cup {i + d : i \in {j \in recv : j + d < Window}}
      BY <1>7, <3>1 DEF ReceiveNewer
    <3>3. \A i \in recv : i + d < Window => i + d \in Offsets
      BY Sizes DEF AcksTypeOK, Offsets
    <3>4. 0 \in Offsets
      BY Sizes DEF Offsets
    <3> QED
      BY <3>2, <3>3, <3>4
  <2> QED
    BY <1>7, <2>1, <2>2, <2>3, <2>4, <2>5 DEF ReceiveNewer, AcksTypeOK, sender
<1>8. ASSUME NEW pkt \in air, ReceiveOlder(pkt) PROVE AcksTypeOK'
  <2>1. /\ pkt.seq \in Seqs /\ pkt.extra \in 0 .. MaxExtra
    BY DEF AcksTypeOK, Packets
  <2>2. accepted' \in [Seqs -> 0 .. 2]
    <3>1. accepted[pkt.seq] \in 0 .. 2
      BY <2>1 DEF AcksTypeOK
    <3>2. PICK n \in 0 .. 2 : n = IF accepted[pkt.seq] < 2
                                 THEN accepted[pkt.seq] + 1
                                 ELSE accepted[pkt.seq]
      BY <3>1
    <3>3. accepted' = [accepted EXCEPT ![pkt.seq] = n]
      BY <1>8, <2>1, <3>2 DEF ReceiveOlder, Accept, AcksTypeOK
    <3> QED
      BY <3>3 DEF AcksTypeOK
  <2>3. inHand' \in Packets \cup {NoPacket}
    BY <1>8 DEF ReceiveOlder, Accept, AcksTypeOK
  <2>4. recv' \subseteq Offsets
    <3>1. /\ pkt.seq <= lastRemoteSeq /\ lastRemoteSeq - pkt.seq < Window
          /\ recv' = recv \cup {lastRemoteSeq - pkt.seq}
      BY <1>8 DEF ReceiveOlder, Accepts
    <3>2. lastRemoteSeq - pkt.seq \in Offsets
      BY <2>1, <3>1, Sizes DEF AcksTypeOK, Offsets, Seqs
    <3> QED
      BY <3>1, <3>2 DEF AcksTypeOK
  <2> QED
    BY <1>8, <2>1, <2>2, <2>3, <2>4 DEF ReceiveOlder, AcksTypeOK, sender
<1>9. ASSUME EndMove PROVE AcksTypeOK'
  <2>1. lastRemoteSeq' \in 0 .. MaxSeq /\ moving' \in 0 .. MaxSeq
    BY <1>9, Sizes DEF EndMove, AcksTypeOK
  <2> QED
    BY <1>9, <2>1 DEF EndMove, sender, AcksTypeOK
<1>10. ASSUME WriteMask PROVE AcksTypeOK'
  BY <1>10 DEF WriteMask, sender, peer, AcksTypeOK
<1>11. ASSUME WriteAckId PROVE AcksTypeOK'
  <2>1. [ackId |-> AckId, mask |-> reading] \in Acks
    BY <1>11 DEF WriteAckId, AckId, Acks, AcksTypeOK
  <2>2. acks' \subseteq Acks
    BY <1>11, <2>1 DEF WriteAckId, AcksTypeOK
  <2>3. reading' \in (SUBSET Offsets) \cup {NoMask}
    BY <1>11 DEF WriteAckId
  <2> QED
    BY <1>11, <2>2, <2>3 DEF WriteAckId, AcksTypeOK, sender
<1>12. ASSUME NEW a \in acks, ReceiveAck(a) PROVE AcksTypeOK'
  <2>1. CASE ~(a.ackId > lastRemoteAckSeq)
    BY <1>12, <2>1 DEF ReceiveAck, AcksTypeOK, peer
  <2>2. CASE a.ackId > lastRemoteAckSeq
    <3>1. /\ recent' \in Seq([seq : Seqs, acked : BOOLEAN])
          /\ Len(recent') <= MaxRecent
      <4> DEFINE R == [seq : Seqs, acked : BOOLEAN]
      <4>1. recent' = [k \in DOMAIN recent |->
                         IF recent[k].seq \in ReadMask(a)
                         THEN [recent[k] EXCEPT !.acked = TRUE]
                         ELSE recent[k]]
        BY <1>12, <2>2 DEF ReceiveAck
      <4>2. recent \in Seq(R) /\ Len(recent) <= MaxRecent
        BY DEF AcksTypeOK
      <4>3. \A e \in R : [e EXCEPT !.acked = TRUE] \in R
        OBVIOUS
      <4> HIDE DEF R
      <4>4. /\ DOMAIN recent = 1 .. Len(recent) /\ Len(recent) \in Nat
            /\ \A k \in DOMAIN recent : recent[k] \in R
        BY <4>2
      <4>5. recent' \in [1 .. Len(recent) -> R]
        BY <4>1, <4>3, <4>4
      <4>6. recent' \in Seq(R) /\ Len(recent') = Len(recent)
        BY <4>4, <4>5, AsSequence
      <4> QED
        BY <4>2, <4>6 DEF R
    <3>2. lastRemoteAckSeq' \in 0 .. MaxSeq
      BY <1>12, <2>2 DEF ReceiveAck, AcksTypeOK, Acks
    <3>3. queuedPackets' \subseteq Reliable /\ donePkt' \subseteq Reliable
      BY <1>12, <2>2 DEF ReceiveAck, AcksTypeOK
    <3>4. extra' \in [value : 0 .. MaxExtra, first : 0 .. MaxSeq]
      BY <1>12, <2>2, Sizes DEF ReceiveAck, AcksTypeOK
    <3>5. doneExtra' \subseteq 1 .. MaxExtra
      BY <1>12, <2>2 DEF ReceiveAck, AcksTypeOK, FirstInv
    <3>6. acks' \subseteq Acks
      BY <1>12 DEF ReceiveAck, AcksTypeOK
    <3> QED
      BY <1>12, <3>1, <3>2, <3>3, <3>4, <3>5, <3>6
         DEF ReceiveAck, AcksTypeOK, peer
  <2> QED
    BY <2>1, <2>2
<1>13. ASSUME NEW a \in acks, LoseAck(a) PROVE AcksTypeOK'
  BY <1>13 DEF LoseAck, sender, peer, AcksTypeOK
<1>14. ASSUME ProcessExtraData PROVE AcksTypeOK'
  <2>1. inHand.extra \in 0 .. MaxExtra
    BY Sizes DEF AcksTypeOK, Packets, NoPacket
  <2>2. heard' \subseteq 1 .. MaxExtra
    BY <1>14, <2>1 DEF ProcessExtraData, AcksTypeOK
  <2> QED
    BY <1>14, <2>2 DEF ProcessExtraData, AcksTypeOK, sender
<1> QED
  BY <1>0, <1>1, <1>2, <1>3, <1>4, <1>5, <1>6, <1>7, <1>8, <1>9, <1>10, <1>11,
     <1>12, <1>13, <1>14
     DEF AcksNext

(* Every step keeps the window of received packets. *)
LEMMA NextWindow == AcksTypeOK /\ WindowInv /\ [AcksNext]_ackVars => WindowInv'
<1> SUFFICES ASSUME AcksTypeOK, WindowInv, [AcksNext]_ackVars PROVE WindowInv'
  OBVIOUS
<1>0. CASE UNCHANGED ackVars
  BY <1>0 DEF ackVars, sender, peer, AcksTypeOK, WindowInv, Newest
<1>1. ASSUME NEW p \in Reliable, SendPacketReliably(p) PROVE WindowInv'
  BY <1>1 DEF SendPacketReliably, sender, peer, AcksTypeOK, WindowInv, Newest
<1>2. ASSUME NEW p \in Reliable, GiveUp(p) PROVE WindowInv'
  BY <1>2 DEF GiveUp, sender, peer, AcksTypeOK, WindowInv, Newest
<1>3. ASSUME NEW v \in 1 .. MaxExtra, SendExtra(v) PROVE WindowInv'
  BY <1>3 DEF SendExtra, sender, peer, AcksTypeOK, WindowInv, Newest
<1>4. ASSUME NEW t \in Threads, NEW of, GenerateOutSeq(t, of)
      PROVE  WindowInv'
  BY <1>4 DEF GenerateOutSeq, sender, peer, AcksTypeOK, WindowInv, Newest
<1>5. ASSUME NEW t \in Threads, SendOrEnqueuePacket(t) PROVE WindowInv'
  BY <1>5 DEF SendOrEnqueuePacket, sender, peer, AcksTypeOK, WindowInv, Newest
<1>6. ASSUME SendQueued PROVE WindowInv'
  BY <1>6 DEF SendQueued, sender, peer, AcksTypeOK, WindowInv, Newest
<1>7. ASSUME NEW pkt \in air, ReceiveNewer(pkt) PROVE WindowInv'
  <2>1. /\ pkt.seq \in Seqs /\ Newest = lastRemoteSeq /\ moving' = pkt.seq
        /\ Newest' = pkt.seq /\ pkt.seq > lastRemoteSeq
        /\ lastRemoteSeq \in Nat
    BY <1>7 DEF ReceiveNewer, AcksTypeOK, Packets, Seqs, Newest
  <2>2. \A s \in Seqs : s # pkt.seq => accepted'[s] = accepted[s]
    BY <1>7, <2>1 DEF ReceiveNewer, Accept, AcksTypeOK
  <2>3. CASE pkt.seq - lastRemoteSeq > Window - 1
    <3>1. jumped' = jumped \cup {pkt.seq}
      BY <1>7, <2>3 DEF ReceiveNewer
    <3>2. ASSUME NEW s \in Seqs, accepted'[s] >= 1
          PROVE  s <= pkt.seq /\ (s # pkt.seq => pkt.seq - s >= Window)
      BY <2>1, <2>2, <2>3, <3>2, Sizes DEF WindowInv, Seqs
    <3> QED
      BY <2>1, <3>1, <3>2, Sizes DEF WindowInv, Seqs
  <2>4. CASE ~(pkt.seq - lastRemoteSeq > Window - 1)
    <3>1. PICK d \in Nat : d = pkt.seq - lastRemoteSeq
      BY <2>1 DEF Seqs
    <3>2. /\ recv' = {0} \cup {i + d : i \in {j \in recv : j + d < Window}}
          /\ jumped' = jumped
      BY <1>7, <2>4, <3>1 DEF ReceiveNewer
    <3>3. ASSUME NEW s \in Seqs, accepted'[s] >= 1
          PROVE  /\ s <= pkt.seq
                 /\ s \notin jumped /\ pkt.seq - s < Window =>
                        pkt.seq - s \in recv'
      <4>1. CASE s = pkt.seq
        BY <3>2, <4>1 DEF Seqs
      <4>2. CASE s # pkt.seq
        <5>1. /\ s <= lastRemoteSeq
              /\ s \notin jumped /\ lastRemoteSeq - s < Window =>
                     lastRemoteSeq - s \in recv
          BY <2>1, <2>2, <3>3, <4>2 DEF WindowInv
        <5>2. pkt.seq - s = (lastRemoteSeq - s) + d
          BY <2>1, <3>1 DEF Seqs
        <5> QED
          BY <2>1, <3>1, <3>2, <5>1, <5>2, Sizes DEF Seqs
      <4> QED
        BY <4>1, <4>2
    <3> QED
      BY <2>1, <3>2, <3>3 DEF WindowInv
  <2> QED
    BY <2>3, <2>4
<1>8. ASSUME NEW pkt \in air, ReceiveOlder(pkt) PROVE WindowInv'
  <2>1. /\ pkt.seq \in Seqs /\ Newest = lastRemoteSeq /\ Newest' = Newest
        /\ pkt.seq <= lastRemoteSeq
    BY <1>8 DEF ReceiveOlder, AcksTypeOK, Packets, Seqs, Newest
  <2>2. \A s \in Seqs : s # pkt.seq => accepted'[s] = accepted[s]
    BY <1>8, <2>1 DEF ReceiveOlder, Accept, AcksTypeOK
  <2>3. recv' = recv \cup {lastRemoteSeq - pkt.seq} /\ jumped' = jumped
    BY <1>8 DEF ReceiveOlder
  <2> QED
    BY <2>1, <2>2, <2>3 DEF WindowInv
<1>9. ASSUME EndMove PROVE WindowInv'
  BY <1>9 DEF EndMove, WindowInv, Newest, sender
<1>10. ASSUME WriteMask PROVE WindowInv'
  BY <1>10 DEF WriteMask, sender, peer, AcksTypeOK, WindowInv, Newest
<1>11. ASSUME WriteAckId PROVE WindowInv'
  BY <1>11 DEF WriteAckId, sender, peer, AcksTypeOK, WindowInv, Newest
<1>12. ASSUME NEW a \in acks, ReceiveAck(a) PROVE WindowInv'
  BY <1>12 DEF ReceiveAck, sender, peer, AcksTypeOK, WindowInv, Newest
<1>13. ASSUME NEW a \in acks, LoseAck(a) PROVE WindowInv'
  BY <1>13 DEF LoseAck, sender, peer, AcksTypeOK, WindowInv, Newest
<1>14. ASSUME ProcessExtraData PROVE WindowInv'
  BY <1>14 DEF ProcessExtraData, sender, AcksTypeOK, WindowInv, Newest
<1> QED
  BY <1>0, <1>1, <1>2, <1>3, <1>4, <1>5, <1>6, <1>7, <1>8, <1>9, <1>10, <1>11,
     <1>12, <1>13, <1>14
     DEF AcksNext

(* Every step delivers a packet in the window once. *)
LEMMA NextOnce ==
    AcksTypeOK /\ WindowInv /\ OnceInv /\ [AcksNext]_ackVars => OnceInv'
<1> SUFFICES ASSUME AcksTypeOK, WindowInv, OnceInv, [AcksNext]_ackVars
             PROVE  OnceInv'
  OBVIOUS
<1>0. CASE UNCHANGED ackVars
  BY <1>0 DEF ackVars, sender, peer, OnceInv
<1>1. ASSUME NEW p \in Reliable, SendPacketReliably(p) PROVE OnceInv'
  BY <1>1 DEF SendPacketReliably, sender, peer, OnceInv
<1>2. ASSUME NEW p \in Reliable, GiveUp(p) PROVE OnceInv'
  BY <1>2 DEF GiveUp, sender, peer, OnceInv
<1>3. ASSUME NEW v \in 1 .. MaxExtra, SendExtra(v) PROVE OnceInv'
  BY <1>3 DEF SendExtra, sender, peer, OnceInv
<1>4. ASSUME NEW t \in Threads, NEW of, GenerateOutSeq(t, of)
      PROVE  OnceInv'
  BY <1>4 DEF GenerateOutSeq, sender, peer, OnceInv
<1>5. ASSUME NEW t \in Threads, SendOrEnqueuePacket(t) PROVE OnceInv'
  BY <1>5 DEF SendOrEnqueuePacket, sender, peer, OnceInv
<1>6. ASSUME SendQueued PROVE OnceInv'
  BY <1>6 DEF SendQueued, sender, peer, OnceInv
<1>7. ASSUME NEW pkt \in air, ReceiveNewer(pkt) PROVE OnceInv'
  <2>1. /\ pkt.seq \in Seqs /\ Newest = lastRemoteSeq
        /\ pkt.seq > lastRemoteSeq /\ lastRemoteSeq \in Nat
    BY <1>7 DEF ReceiveNewer, AcksTypeOK, Packets, Seqs, Newest
  <2>2. accepted[pkt.seq] = 0
    BY <2>1 DEF WindowInv, AcksTypeOK, Seqs
  <2>3. /\ accepted'[pkt.seq] = 1
        /\ \A s \in Seqs : s # pkt.seq => accepted'[s] = accepted[s]
    BY <1>7, <2>1, <2>2 DEF ReceiveNewer, Accept, AcksTypeOK
  <2>4. jumped \subseteq jumped'
    BY <1>7 DEF ReceiveNewer
  <2> QED
    BY <2>3, <2>4 DEF OnceInv
<1>8. ASSUME NEW pkt \in air, ReceiveOlder(pkt) PROVE OnceInv'
  <2>1. pkt.seq \in Seqs /\ Newest = lastRemoteSeq /\ jumped' = jumped
    BY <1>8 DEF ReceiveOlder, AcksTypeOK, Packets, Newest
  <2>2. pkt.seq \notin jumped => accepted[pkt.seq] = 0
    <3>1. Newest - pkt.seq < Window /\ Newest - pkt.seq \notin recv
      BY <1>8, <2>1 DEF ReceiveOlder, Accepts
    <3>2. pkt.seq \notin jumped => ~(accepted[pkt.seq] >= 1)
      BY <2>1, <3>1 DEF WindowInv
    <3>3. accepted \in [Seqs -> 0 .. 2]
      BY DEF AcksTypeOK
    <3>4. accepted[pkt.seq] \in 0 .. 2
      BY <2>1, <3>3
    <3> QED
      BY <3>2, <3>4
  <2>3. /\ accepted[pkt.seq] = 0 => accepted'[pkt.seq] = 1
        /\ \A s \in Seqs : s # pkt.seq => accepted'[s] = accepted[s]
    BY <1>8, <2>1 DEF ReceiveOlder, Accept, AcksTypeOK
  <2> QED
    BY <2>1, <2>2, <2>3 DEF OnceInv
<1>9. ASSUME EndMove PROVE OnceInv'
  BY <1>9 DEF EndMove, sender, peer, OnceInv
<1>10. ASSUME WriteMask PROVE OnceInv'
  BY <1>10 DEF WriteMask, sender, peer, OnceInv
<1>11. ASSUME WriteAckId PROVE OnceInv'
  BY <1>11 DEF WriteAckId, sender, peer, OnceInv
<1>12. ASSUME NEW a \in acks, ReceiveAck(a) PROVE OnceInv'
  BY <1>12 DEF ReceiveAck, sender, peer, OnceInv
<1>13. ASSUME NEW a \in acks, LoseAck(a) PROVE OnceInv'
  BY <1>13 DEF LoseAck, sender, peer, OnceInv
<1>14. ASSUME ProcessExtraData PROVE OnceInv'
  BY <1>14 DEF ProcessExtraData, OnceInv
<1> QED
  BY <1>0, <1>1, <1>2, <1>3, <1>4, <1>5, <1>6, <1>7, <1>8, <1>9, <1>10, <1>11,
     <1>12, <1>13, <1>14
     DEF AcksNext

(* Every step keeps acknowledgements to what was received. *)
LEMMA NextAck == AckInv /\ [AcksNext]_ackVars => AckInv'
<1> SUFFICES ASSUME AckInv, [AcksNext]_ackVars PROVE AckInv'
  OBVIOUS
<1>0. CASE UNCHANGED ackVars
  BY <1>0 DEF ackVars, sender, peer, AckInv, Heard, Known
<1>1. ASSUME NEW p \in Reliable, SendPacketReliably(p) PROVE AckInv'
  BY <1>1 DEF SendPacketReliably, sender, peer, AckInv, Heard, Known
<1>2. ASSUME NEW p \in Reliable, GiveUp(p) PROVE AckInv'
  BY <1>2 DEF GiveUp, sender, peer, AckInv, Heard, Known
<1>3. ASSUME NEW v \in 1 .. MaxExtra, SendExtra(v) PROVE AckInv'
  BY <1>3 DEF SendExtra, sender, peer, AckInv, Heard, Known
<1>4. ASSUME NEW t \in Threads, NEW of, GenerateOutSeq(t, of)
      PROVE  AckInv'
  BY <1>4 DEF GenerateOutSeq, sender, peer, AckInv, Heard, Known
<1>5. ASSUME NEW t \in Threads, SendOrEnqueuePacket(t) PROVE AckInv'
  <2>1. /\ air \subseteq air' /\ heard' = heard /\ acks' = acks
        /\ inHand' = inHand
        /\ lastRemoteSeq' = lastRemoteSeq /\ moving' = moving
    BY <1>5 DEF SendOrEnqueuePacket, WritePacketHeader, peer
  <2> QED
    BY <2>1 DEF AckInv, Heard, Known
<1>6. ASSUME SendQueued PROVE AckInv'
  <2>1. /\ air \subseteq air' /\ heard' = heard /\ acks' = acks
        /\ inHand' = inHand
        /\ lastRemoteSeq' = lastRemoteSeq /\ moving' = moving
    BY <1>6 DEF SendQueued, WritePacketHeader, peer
  <2> QED
    BY <2>1 DEF AckInv, Heard, Known
<1>7. ASSUME NEW pkt \in air, ReceiveNewer(pkt) PROVE AckInv'
  <2>1. /\ air' = air /\ heard' = heard /\ acks' = acks
        /\ inHand.extra = 0 /\ inHand' = pkt
        /\ lastRemoteSeq' = lastRemoteSeq
        /\ moving' = moving \/ moving' = pkt.seq
    BY <1>7 DEF ReceiveNewer, Accept, sender, NoPacket
  <2>2. \A s : Heard(s) => Heard(s)'
    BY <2>1 DEF Heard, Known
  <2>3. Heard(pkt.seq)'
    BY <2>1 DEF Heard, Known
  <2> QED
    BY <2>1, <2>2, <2>3 DEF AckInv
<1>8. ASSUME NEW pkt \in air, ReceiveOlder(pkt) PROVE AckInv'
  <2>1. /\ air' = air /\ heard' = heard /\ acks' = acks
        /\ inHand.extra = 0 /\ inHand' = pkt
        /\ lastRemoteSeq' = lastRemoteSeq
        /\ moving' = moving \/ moving' = pkt.seq
    BY <1>8 DEF ReceiveOlder, Accept, sender, NoPacket
  <2>2. \A s : Heard(s) => Heard(s)'
    BY <2>1 DEF Heard, Known
  <2>3. Heard(pkt.seq)'
    BY <2>1 DEF Heard, Known
  <2> QED
    BY <2>1, <2>2, <2>3 DEF AckInv
<1>9. ASSUME EndMove PROVE AckInv'
  BY <1>9 DEF EndMove, sender, peer, AckInv, Heard, Known
<1>10. ASSUME WriteMask PROVE AckInv'
  BY <1>10 DEF WriteMask, sender, peer, AckInv, Heard, Known
<1>11. ASSUME WriteAckId PROVE AckInv'
  <2>1. \A a \in acks' : a \in acks \/ a.ackId = lastRemoteSeq
    BY <1>11 DEF WriteAckId, AckId
  <2>2. \A s : Heard(s) <=> Heard(s)'
    BY <1>11 DEF WriteAckId, Heard, Known, sender
  <2> QED
    BY <1>11, <2>1, <2>2 DEF WriteAckId, AckInv
<1>12. ASSUME NEW a \in acks, ReceiveAck(a) PROVE AckInv'
  <2>1. /\ acks' \subseteq acks /\ air' = air /\ heard' = heard
        /\ inHand' = inHand
        /\ lastRemoteSeq' = lastRemoteSeq /\ moving' = moving
    BY <1>12 DEF ReceiveAck, peer
  <2> QED
    BY <2>1 DEF AckInv, Heard, Known
<1>13. ASSUME NEW a \in acks, LoseAck(a) PROVE AckInv'
  BY <1>13 DEF LoseAck, sender, peer, AckInv, Heard, Known
<1>14. ASSUME ProcessExtraData PROVE AckInv'
  <2>1. \A v : Known(v) => Known(v)'
    BY <1>14 DEF ProcessExtraData, Known
  <2>2. \A s : Heard(s) => Heard(s)'
    BY <1>14, <2>1 DEF ProcessExtraData, Heard, sender
  <2> QED
    BY <1>14, <2>2 DEF ProcessExtraData, AckInv
<1> QED
  BY <1>0, <1>1, <1>2, <1>3, <1>4, <1>5, <1>6, <1>7, <1>8, <1>9, <1>10, <1>11,
     <1>12, <1>13, <1>14
     DEF AcksNext

(* Every step keeps that each packet from the extra's first on, as long   *)
(* as its value stands, carries that value.                                *)
LEMMA NextExtra == AcksTypeOK /\ ExtraInv /\ [AcksNext]_ackVars => ExtraInv'
<1> SUFFICES ASSUME AcksTypeOK, ExtraInv, [AcksNext]_ackVars PROVE ExtraInv'
  OBVIOUS
<1>0. CASE UNCHANGED ackVars
  BY <1>0 DEF ackVars, sender, peer, ExtraInv
<1>1. ASSUME NEW p \in Reliable, SendPacketReliably(p) PROVE ExtraInv'
  BY <1>1 DEF SendPacketReliably, sender, peer, ExtraInv
<1>2. ASSUME NEW p \in Reliable, GiveUp(p) PROVE ExtraInv'
  BY <1>2 DEF GiveUp, sender, peer, ExtraInv
<1>3. ASSUME NEW v \in 1 .. MaxExtra, SendExtra(v) PROVE ExtraInv'
  BY <1>3 DEF SendExtra, Replaced, ExtraInv
<1>4. ASSUME NEW t \in Threads, NEW of, GenerateOutSeq(t, of)
      PROVE  ExtraInv'
  BY <1>4 DEF GenerateOutSeq, sender, peer, ExtraInv
<1>5. ASSUME NEW t \in Threads, SendOrEnqueuePacket(t) PROVE ExtraInv'
  <2>1. hold[t] \in Seqs
    BY <1>5 DEF SendOrEnqueuePacket, AcksTypeOK, Seqs
  <2>2. CASE WritePacketHeader(hold[t])
    BY <2>1, <2>2, HeaderWritten
  <2>3. CASE UNCHANGED <<air, extra, recent, ordered>>
    BY <2>3 DEF ExtraInv
  <2> QED
    BY <1>5, <2>2, <2>3 DEF SendOrEnqueuePacket
<1>6. ASSUME SendQueued PROVE ExtraInv'
  <2>1. Head(sendQueue) \in Seqs
    BY <1>6 DEF SendQueued, AcksTypeOK
  <2> QED
    BY <1>6, <2>1, HeaderWritten DEF SendQueued
<1>7. ASSUME NEW pkt \in air, ReceiveNewer(pkt) PROVE ExtraInv'
  BY <1>7 DEF ReceiveNewer, sender, peer, ExtraInv
<1>8. ASSUME NEW pkt \in air, ReceiveOlder(pkt) PROVE ExtraInv'
  BY <1>8 DEF ReceiveOlder, sender, peer, ExtraInv
<1>9. ASSUME EndMove PROVE ExtraInv'
  BY <1>9 DEF EndMove, sender, peer, ExtraInv
<1>10. ASSUME WriteMask PROVE ExtraInv'
  BY <1>10 DEF WriteMask, sender, peer, ExtraInv
<1>11. ASSUME WriteAckId PROVE ExtraInv'
  BY <1>11 DEF WriteAckId, sender, peer, ExtraInv
<1>12. ASSUME NEW a \in acks, ReceiveAck(a) PROVE ExtraInv'
  <2>1. /\ air' = air /\ ordered' = ordered
        /\ extra' = extra \/ extra' = [value |-> 0, first |-> 0]
    BY <1>12 DEF ReceiveAck
  <2> QED
    BY <2>1 DEF ExtraInv
<1>13. ASSUME NEW a \in acks, LoseAck(a) PROVE ExtraInv'
  BY <1>13 DEF LoseAck, sender, peer, ExtraInv
<1>14. ASSUME ProcessExtraData PROVE ExtraInv'
  BY <1>14 DEF ProcessExtraData, sender, ExtraInv
<1> QED
  BY <1>0, <1>1, <1>2, <1>3, <1>4, <1>5, <1>6, <1>7, <1>8, <1>9, <1>10, <1>11,
     <1>12, <1>13, <1>14
     DEF AcksNext

(* Every step keeps that only a value has a first packet. *)
LEMMA NextFirst == AcksTypeOK /\ FirstInv /\ [AcksNext]_ackVars => FirstInv'
<1> SUFFICES ASSUME AcksTypeOK, FirstInv, [AcksNext]_ackVars PROVE FirstInv'
  OBVIOUS
<1>0. CASE UNCHANGED ackVars
  BY <1>0 DEF ackVars, sender, peer, FirstInv
<1>1. ASSUME NEW p \in Reliable, SendPacketReliably(p) PROVE FirstInv'
  BY <1>1 DEF SendPacketReliably, sender, peer, FirstInv
<1>2. ASSUME NEW p \in Reliable, GiveUp(p) PROVE FirstInv'
  BY <1>2 DEF GiveUp, sender, peer, FirstInv
<1>3. ASSUME NEW v \in 1 .. MaxExtra, SendExtra(v) PROVE FirstInv'
  BY <1>3 DEF SendExtra, Replaced, FirstInv
<1>4. ASSUME NEW t \in Threads, NEW of, GenerateOutSeq(t, of)
      PROVE  FirstInv'
  BY <1>4 DEF GenerateOutSeq, sender, peer, FirstInv
<1>5. ASSUME NEW t \in Threads, SendOrEnqueuePacket(t) PROVE FirstInv'
  BY <1>5 DEF SendOrEnqueuePacket, WritePacketHeader, FirstInv, AcksTypeOK
<1>6. ASSUME SendQueued PROVE FirstInv'
  BY <1>6 DEF SendQueued, WritePacketHeader, FirstInv, AcksTypeOK
<1>7. ASSUME NEW pkt \in air, ReceiveNewer(pkt) PROVE FirstInv'
  BY <1>7 DEF ReceiveNewer, sender, peer, FirstInv
<1>8. ASSUME NEW pkt \in air, ReceiveOlder(pkt) PROVE FirstInv'
  BY <1>8 DEF ReceiveOlder, sender, peer, FirstInv
<1>9. ASSUME EndMove PROVE FirstInv'
  BY <1>9 DEF EndMove, sender, peer, FirstInv
<1>10. ASSUME WriteMask PROVE FirstInv'
  BY <1>10 DEF WriteMask, sender, peer, FirstInv
<1>11. ASSUME WriteAckId PROVE FirstInv'
  BY <1>11 DEF WriteAckId, sender, peer, FirstInv
<1>12. ASSUME NEW a \in acks, ReceiveAck(a) PROVE FirstInv'
  BY <1>12 DEF ReceiveAck, FirstInv
<1>13. ASSUME NEW a \in acks, LoseAck(a) PROVE FirstInv'
  BY <1>13 DEF LoseAck, sender, peer, FirstInv
<1>14. ASSUME ProcessExtraData PROVE FirstInv'
  BY <1>14 DEF ProcessExtraData, sender, FirstInv
<1> QED
  BY <1>0, <1>1, <1>2, <1>3, <1>4, <1>5, <1>6, <1>7, <1>8, <1>9, <1>10, <1>11,
     <1>12, <1>13, <1>14
     DEF AcksNext

(* An extra is done with only when the peer has it. *)
LEMMA NextDone ==
    /\ AcksTypeOK /\ FirstInv /\ AckInv /\ ExtraInv /\ InOrderExtraAckedArrived
    /\ [AcksNext]_ackVars
    => InOrderExtraAckedArrived'
<1> SUFFICES ASSUME AcksTypeOK, FirstInv, AckInv, ExtraInv,
                    InOrderExtraAckedArrived, [AcksNext]_ackVars
             PROVE  InOrderExtraAckedArrived'
  OBVIOUS
<1>0. CASE UNCHANGED ackVars
  BY <1>0 DEF ackVars, sender, peer, InOrderExtraAckedArrived
<1>1. ASSUME NEW p \in Reliable, SendPacketReliably(p)
      PROVE  InOrderExtraAckedArrived'
  BY <1>1 DEF SendPacketReliably, sender, peer, InOrderExtraAckedArrived
<1>2. ASSUME NEW p \in Reliable, GiveUp(p) PROVE InOrderExtraAckedArrived'
  BY <1>2 DEF GiveUp, sender, peer, InOrderExtraAckedArrived
<1>3. ASSUME NEW v \in 1 .. MaxExtra, SendExtra(v)
      PROVE  InOrderExtraAckedArrived'
  BY <1>3 DEF SendExtra, sender, peer, InOrderExtraAckedArrived
<1>4. ASSUME NEW t \in Threads, NEW of, GenerateOutSeq(t, of)
      PROVE  InOrderExtraAckedArrived'
  BY <1>4 DEF GenerateOutSeq, sender, peer, InOrderExtraAckedArrived
<1>5. ASSUME NEW t \in Threads, SendOrEnqueuePacket(t)
      PROVE  InOrderExtraAckedArrived'
  BY <1>5
     DEF SendOrEnqueuePacket, WritePacketHeader, peer,
         InOrderExtraAckedArrived
<1>6. ASSUME SendQueued PROVE InOrderExtraAckedArrived'
  BY <1>6
     DEF SendQueued, WritePacketHeader, peer, InOrderExtraAckedArrived
<1>7. ASSUME NEW pkt \in air, ReceiveNewer(pkt)
      PROVE  InOrderExtraAckedArrived'
  BY <1>7 DEF ReceiveNewer, Accept, sender, AcksTypeOK, NoPacket,
              InOrderExtraAckedArrived
<1>8. ASSUME NEW pkt \in air, ReceiveOlder(pkt)
      PROVE  InOrderExtraAckedArrived'
  BY <1>8 DEF ReceiveOlder, Accept, sender, AcksTypeOK, NoPacket,
              InOrderExtraAckedArrived
<1>9. ASSUME EndMove PROVE InOrderExtraAckedArrived'
  BY <1>9 DEF EndMove, sender, peer, InOrderExtraAckedArrived
<1>10. ASSUME WriteMask PROVE InOrderExtraAckedArrived'
  BY <1>10 DEF WriteMask, sender, peer, InOrderExtraAckedArrived
<1>11. ASSUME WriteAckId PROVE InOrderExtraAckedArrived'
  BY <1>11 DEF WriteAckId, sender, peer, InOrderExtraAckedArrived
<1>12. ASSUME NEW a \in acks, ReceiveAck(a) PROVE InOrderExtraAckedArrived'
  <2>1. heard' = heard /\ inHand' = inHand /\ ordered' = ordered
    BY <1>12 DEF ReceiveAck, peer
  <2>2. CASE doneExtra' = doneExtra
    BY <2>1, <2>2 DEF InOrderExtraAckedArrived
  <2>3. CASE doneExtra' # doneExtra /\ ordered
    <3>1. /\ extra.first # 0 /\ a.ackId >= extra.first
          /\ doneExtra' = doneExtra \cup {extra.value}
      BY <1>12, <2>3 DEF ReceiveAck
    <3>2. a.ackId # 0
      BY <3>1 DEF AcksTypeOK, Acks
    <3>3. PICK pkt \in air : pkt.seq = a.ackId /\ Known(pkt.extra)
      BY <3>2 DEF AckInv, Heard, Known
    <3>4. pkt.extra = extra.value /\ extra.value # 0
      BY <2>3, <3>1, <3>3 DEF ExtraInv, FirstInv
    <3> QED
      BY <2>1, <2>3, <3>1, <3>3, <3>4 DEF InOrderExtraAckedArrived, Known
  <2> QED
    BY <2>1, <2>2, <2>3 DEF InOrderExtraAckedArrived
<1>13. ASSUME NEW a \in acks, LoseAck(a) PROVE InOrderExtraAckedArrived'
  BY <1>13 DEF LoseAck, sender, peer, InOrderExtraAckedArrived
<1>14. ASSUME ProcessExtraData PROVE InOrderExtraAckedArrived'
  BY <1>14 DEF ProcessExtraData, sender, AcksTypeOK,
               InOrderExtraAckedArrived
<1> QED
  BY <1>0, <1>1, <1>2, <1>3, <1>4, <1>5, <1>6, <1>7, <1>8, <1>9, <1>10, <1>11,
     <1>12, <1>13, <1>14
     DEF AcksNext

(* So every step keeps the invariant. *)
LEMMA NextAcks == AcksInv /\ [AcksNext]_ackVars => AcksInv'
  BY NextType, NextWindow, NextOnce, NextAck, NextFirst, NextExtra, NextDone
     DEF AcksInv

(* And it always holds. *)
LEMMA AlwaysAcks == AcksSpec => []AcksInv
  BY InitAcks, NextAcks, PTL DEF AcksSpec

-----------------------------------------------------------------------------
(* For a window of any width the peer accepts no packet twice, however     *)
(* often and in whatever order it arrives, unless it arrived past the      *)
(* window (VoIPController.cpp:2077-2101).                                  *)
THEOREM Once_WithinTheWindow == AcksSpec => []OnceWithinTheWindow
<1>1. AcksInv => OnceWithinTheWindow
  BY DEF AcksInv, OnceInv, OnceWithinTheWindow
<1> QED
  BY <1>1, AlwaysAcks, PTL

(* As long as headers are written in the order of their numbers, an extra  *)
(* that is dropped as acknowledged reached the peer in that value: it was  *)
(* processed, or the peer's receiving thread is about to, whatever is      *)
(* lost, repeated or reordered on the way (VoIPController.cpp:2158-2170,   *)
(* 2085, 2225).                                                            *)
THEOREM InOrder_ExtraAckedArrived == AcksSpec => []InOrderExtraAckedArrived
<1>1. AcksInv => InOrderExtraAckedArrived
  BY DEF AcksInv
<1> QED
  BY <1>1, AlwaysAcks, PTL

-----------------------------------------------------------------------------
(* Handshake *)

(* What was answered was asked: an INIT_ACK under way or received means    *)
(* that the peer has received an INIT.                                     *)
AnswerInv ==
    \A p \in Peers :
        net[p]["INIT_ACK"] > 0 \/ receivedInitAck[p] => receivedInit[Other(p)]

(* Whatever may yet make a call ESTABLISHED or RECONNECTING, a timer or a  *)
(* decision half made, goes back to an INIT_ACK, as these states do.       *)
StateInv ==
    \A p \in Peers :
        \/ state[p] \in {"ESTABLISHED", "RECONNECTING"}
        \/ deciding[p]
        \/ "delay" \in timers[p]
        \/ "first" \in timers[p]
        => receivedInitAck[p]

(* An INIT is under way, received or to be repeated only from a side whose *)
(* Connect is done.                                                        *)
DoneInv ==
    \A p \in Peers :
        /\ net[Other(p)]["INIT"] > 0 \/ receivedInit[Other(p)] =>
               phase[p] = "done"
        /\ "resend" \in timers[p] => phase[p] = "done"

(* The timeout of a side that was answered is not pending once its         *)
(* receiving thread has cancelled it.                                      *)
TimeoutInv ==
    \A p \in Peers :
        /\ receivedInitAck[p] => answered[p] \/ "init" \notin timers[p]
        /\ answered[p] => receivedInitAck[p]

Inv == TypeOK /\ AnswerInv /\ StateInv /\ DoneInv /\ TimeoutInv

-----------------------------------------------------------------------------
(* There are two controllers, and each is the other's peer. *)
LEMMA OtherPeer ==
    \A p \in Peers : /\ Other(p) \in Peers /\ Other(p) # p
                     /\ Other(Other(p)) = p
                     /\ \A q \in Peers : q # p => q = Other(p)
<1>1. ExistsBijection(1 .. 2, Peers)
  BY VoipHandshakeAssumption, FS_CardinalityType
<1>2. PICK f \in Bijection(1 .. 2, Peers) : TRUE
  BY <1>1 DEF ExistsBijection
<1>3. /\ f[1] \in Peers /\ f[2] \in Peers /\ f[1] # f[2]
      /\ \A q \in Peers : q = f[1] \/ q = f[2]
  <2>1. f \in [1 .. 2 -> Peers]
        /\ (\A i, j \in 1 .. 2 : f[i] = f[j] => i = j)
        /\ (\A q \in Peers : \E i \in 1 .. 2 : f[i] = q)
    BY <1>2, Fun_BijectionProperties
  <2>2. \A i \in 1 .. 2 : i = 1 \/ i = 2
    OBVIOUS
  <2> QED
    BY <2>1, <2>2
<1> QED
  BY <1>3 DEF Other

(* What sending and taking a packet do to the packets under way.           *)
LEMMA UnderType ==
    ASSUME NEW n \in [Peers -> [Kinds -> 0 .. MaxInFlight]],
           NEW p \in Peers, NEW k \in Kinds
    PROVE  /\ Under(n, p, k) \in [Peers -> [Kinds -> 0 .. MaxInFlight]]
           /\ \A q \in Peers, l \in Kinds :
                 q # p \/ l # k => Under(n, p, k)[q][l] = n[q][l]
  BY VoipHandshakeAssumption DEF Under

(* A packet taken from the network leaves the others in flight. *)
LEMMA TakenType ==
    ASSUME TypeOK, NEW p \in Peers, NEW k \in Kinds, net[p][k] > 0
    PROVE  /\ Taken(p, k) \in [Peers -> [Kinds -> 0 .. MaxInFlight]]
           /\ \A q \in Peers, l \in Kinds :
                 Taken(p, k)[q][l] > 0 => net[q][l] > 0
  BY VoipHandshakeAssumption DEF Taken, TypeOK

-----------------------------------------------------------------------------
(* The invariant holds when the call starts. *)
LEMMA InitInv == Init => Inv
  BY OtherPeer, VoipHandshakeAssumption
     DEF Init, Inv, TypeOK, AnswerInv, StateInv, DoneInv, TimeoutInv, States, Kinds,
         Timers

(* Every step of either peer keeps it. *)
LEMMA NextInv == Inv /\ [Next]_vars => Inv'
<1> SUFFICES ASSUME TypeOK, AnswerInv, StateInv, DoneInv, TimeoutInv,
                    [Next]_vars
             PROVE  Inv'
  BY DEF Inv
<1> USE OtherPeer DEF Inv
<1>0. CASE UNCHANGED vars
  BY <1>0 DEF vars, flags, TypeOK, AnswerInv, StateInv, DoneInv, TimeoutInv
<1>1. ASSUME NEW p \in Peers, InitializeTimers(p) PROVE Inv'
  BY <1>1 DEF InitializeTimers, flags, TypeOK, AnswerInv, StateInv,
              DoneInv, TimeoutInv, Timers
<1>2. ASSUME NEW p \in Peers, SendInit(p) PROVE Inv'
  <2>1. /\ net' \in [Peers -> [Kinds -> 0 .. MaxInFlight]]
        /\ \A q \in Peers : /\ net'[q]["INIT_ACK"] = net[q]["INIT_ACK"]
                            /\ q # Other(p) => net'[q]["INIT"] = net[q]["INIT"]
    <3>1. net \in [Peers -> [Kinds -> 0 .. MaxInFlight]]
      BY DEF TypeOK
    <3> QED
      BY <1>2, <3>1, UnderType DEF SendInit, Kinds
  <2>2. TypeOK'
    BY <1>2, <2>1 DEF SendInit, SetState, flags, TypeOK, States, Timers
  <2>3. AnswerInv'
    BY <1>2, <2>1 DEF SendInit, SetState, flags, TypeOK, AnswerInv
  <2>4. StateInv'
    BY <1>2, <2>1 DEF SendInit, SetState, flags, TypeOK, StateInv
  <2>5. DoneInv'
    BY <1>2, <2>1 DEF SendInit, SetState, flags, TypeOK, DoneInv
  <2>6. TimeoutInv'
    BY <1>2, <2>1 DEF SendInit, SetState, flags, TypeOK, TimeoutInv
  <2> QED
    BY <2>2, <2>3, <2>4, <2>5, <2>6
<1>3. ASSUME NEW p \in Peers, ResendInit(p) PROVE Inv'
  <2>1. /\ net' \in [Peers -> [Kinds -> 0 .. MaxInFlight]]
        /\ \A q \in Peers : /\ net'[q]["INIT_ACK"] = net[q]["INIT_ACK"]
                            /\ q # Other(p) => net'[q]["INIT"] = net[q]["INIT"]
    <3>1. CASE state[p] = "WAIT_INIT_ACK"
      <4>1. net' = Under(net, Other(p), "INIT")
        BY <1>3, <3>1 DEF ResendInit
      <4>2. net \in [Peers -> [Kinds -> 0 .. MaxInFlight]]
        BY DEF TypeOK
      <4> QED
        BY <4>1, <4>2, UnderType DEF Kinds
    <3>2. CASE state[p] # "WAIT_INIT_ACK"
      BY <1>3, <3>2 DEF ResendInit, TypeOK
    <3> QED
      BY <3>1, <3>2
  <2>2. TypeOK'
    <3>1. timers' \in [Peers -> SUBSET Timers]
      BY <1>3 DEF ResendInit, TypeOK
    <3> QED
      BY <1>3, <2>1, <3>1 DEF ResendInit, flags, TypeOK
  <2>3. AnswerInv'
    BY <1>3, <2>1 DEF ResendInit, flags, TypeOK, AnswerInv
  <2>4. StateInv'
    BY <1>3, <2>1 DEF ResendInit, flags, TypeOK, StateInv
  <2>5. DoneInv'
    <3>1. /\ phase[p] = "done" /\ phase' = phase
          /\ receivedInit' = receivedInit
      BY <1>3 DEF ResendInit, flags, DoneInv
    <3>2. \A q \in Peers : "resend" \in timers'[q] => "resend" \in timers[q]
      BY <1>3 DEF ResendInit, TypeOK
    <3>3. \A q \in Peers : q # p => net'[Other(q)]["INIT"] = net[Other(q)]["INIT"]
      BY <2>1
    <3> QED
      BY <3>1, <3>2, <3>3 DEF DoneInv
  <2>6. TimeoutInv'
    BY <1>3, <2>1 DEF ResendInit, flags, TypeOK, TimeoutInv
  <2> QED
    BY <2>2, <2>3, <2>4, <2>5, <2>6
<1>4. ASSUME NEW p \in Peers, InitTimeout(p) PROVE Inv'
  BY <1>4 DEF InitTimeout, SetState, flags, TypeOK, AnswerInv, StateInv,
              DoneInv, TimeoutInv, States
<1>5. ASSUME NEW p \in Peers, NEW t \in Timers, Established(p, t) PROVE Inv'
  <2>1. TypeOK'
    BY <1>5 DEF Established, SetState, flags, TypeOK, States
  <2>2. StateInv'
    BY <1>5 DEF Established, SetState, flags, TypeOK, StateInv
  <2>3. AnswerInv' /\ DoneInv' /\ TimeoutInv'
    BY <1>5 DEF Established, flags, TypeOK, AnswerInv, DoneInv, TimeoutInv
  <2> QED
    BY <2>1, <2>2, <2>3
<1>6. ASSUME NEW p \in Peers, ReceiveInit(p) PROVE Inv'
  <2>1. /\ net' \in [Peers -> [Kinds -> 0 .. MaxInFlight]]
        /\ \A q \in Peers :
              /\ net'[q]["INIT"] > 0 => net[q]["INIT"] > 0
              /\ net'[q]["INIT_ACK"] > 0 =>
                     \/ net[q]["INIT_ACK"] > 0
                     \/ compatible /\ q = Other(p)
    <3> DEFINE n == Taken(p, "INIT")
    <3>1. /\ n \in [Peers -> [Kinds -> 0 .. MaxInFlight]]
          /\ \A q \in Peers : /\ n[q]["INIT"] > 0 => net[q]["INIT"] > 0
                              /\ n[q]["INIT_ACK"] > 0 => net[q]["INIT_ACK"] > 0
      BY <1>6, TakenType DEF ReceiveInit, Arrives, Kinds
    <3>2. CASE ~compatible
      <4>1. net' = n
        BY <1>6, <3>2 DEF ReceiveInit
      <4> HIDE DEF n
      <4> QED
        BY <4>1, <3>1
    <3>3. CASE compatible
      <4> DEFINE m == Under(n, Other(p), "INIT_ACK")
      <4>1. net' = m
        BY <1>6, <3>3 DEF ReceiveInit, Answers
      <4>2. /\ m \in [Peers -> [Kinds -> 0 .. MaxInFlight]]
            /\ \A q \in Peers, l \in Kinds :
                  q # Other(p) \/ l # "INIT_ACK" => m[q][l] = n[q][l]
        BY <3>1, UnderType DEF Kinds
      <4> HIDE DEF m, n
      <4>3. \A q \in Peers :
               /\ m[q]["INIT"] = n[q]["INIT"]
               /\ q # Other(p) => m[q]["INIT_ACK"] = n[q]["INIT_ACK"]
        BY <4>2 DEF Kinds
      <4> QED
        BY <4>1, <4>2, <4>3, <3>1, <3>3
    <3> QED
      BY <3>2, <3>3
  <2>2. TypeOK'
    <3>1. /\ receivedInit' \in [Peers -> BOOLEAN]
          /\ audioStarted' \in [Peers -> BOOLEAN]
      BY <1>6 DEF ReceiveInit, TypeOK
    <3>2. silent' \in [Peers -> 0 .. 2] /\ timers' \in [Peers -> SUBSET Timers]
      BY <1>6 DEF ReceiveInit, OnPacket, TypeOK
    <3>3. PICK s \in {StateOnPacket(p), "FAILED"} : SetState(p, s)
      BY <1>6 DEF ReceiveInit
    <3>4. s \in States
      BY DEF StateOnPacket, TypeOK, States
    <3>5. state' \in [Peers -> States]
      BY <3>3, <3>4 DEF SetState, TypeOK
    <3> QED
      BY <1>6, <2>1, <3>1, <3>2, <3>5 DEF ReceiveInit, TypeOK
  <2>3. AnswerInv'
    BY <1>6, <2>1 DEF ReceiveInit, OnPacket, SetState, StateOnPacket, TypeOK,
                      AnswerInv
  <2>4. StateInv'
    BY <1>6, <2>1 DEF ReceiveInit, OnPacket, SetState, StateOnPacket, TypeOK,
                      StateInv
  <2>5. DoneInv'
    <3>1. /\ \A q \in Peers : receivedInit'[q] =>
                                receivedInit[q] \/ net[q]["INIT"] > 0
          /\ phase' = phase /\ timers' = timers
      BY <1>6 DEF ReceiveInit, Arrives, TypeOK
    <3> QED
      BY <2>1, <3>1 DEF DoneInv
  <2>6. TimeoutInv'
    BY <1>6, <2>1 DEF ReceiveInit, OnPacket, SetState, StateOnPacket, TypeOK,
                      TimeoutInv
  <2> QED
    BY <2>2, <2>3, <2>4, <2>5, <2>6
<1>7. ASSUME NEW p \in Peers, ReceiveInitAck(p) PROVE Inv'
  <2>1. /\ net' \in [Peers -> [Kinds -> 0 .. MaxInFlight]]
        /\ \A q \in Peers :
              /\ net'[q]["INIT_ACK"] > 0 => net[q]["INIT_ACK"] > 0
              /\ net'[q]["INIT"] > 0 => net[q]["INIT"] > 0
    BY <1>7, TakenType DEF ReceiveInitAck, Arrives, Kinds
  <2>2. TypeOK'
    <3>1. /\ receivedInitAck' \in [Peers -> BOOLEAN]
          /\ answered' \in [Peers -> BOOLEAN]
      BY <1>7 DEF ReceiveInitAck, TypeOK
    <3>2. /\ state' \in [Peers -> States] /\ silent' \in [Peers -> 0 .. 2]
          /\ timers' \in [Peers -> SUBSET Timers]
      BY <1>7 DEF ReceiveInitAck, OnPacket, SetState, StateOnPacket,
                  TypeOK, States
    <3> QED
      BY <1>7, <2>1, <3>1, <3>2 DEF ReceiveInitAck, TypeOK
  <2>3. AnswerInv'
    <3>1. /\ \A q \in Peers : receivedInitAck'[q] =>
                    receivedInitAck[q] \/ net[q]["INIT_ACK"] > 0
          /\ receivedInit' = receivedInit
      BY <1>7 DEF ReceiveInitAck, Arrives, TypeOK
    <3> QED
      BY <2>1, <3>1 DEF AnswerInv
  <2>4. StateInv'
    BY <1>7, <2>1 DEF ReceiveInitAck, OnPacket, SetState, StateOnPacket,
                      TypeOK, StateInv
  <2>5. DoneInv'
    BY <1>7, <2>1 DEF ReceiveInitAck, OnPacket, SetState, StateOnPacket,
                      TypeOK, DoneInv
  <2>6. TimeoutInv'
    <3>1. timers' = timers /\ receivedInitAck'[p]
          /\ (answered'[p] <=> ~receivedInitAck[p])
      BY <1>7 DEF ReceiveInitAck, TypeOK
    <3>2. \A q \in Peers \ {p} : /\ receivedInitAck'[q] = receivedInitAck[q]
                                 /\ answered'[q] = answered[q]
      BY <1>7 DEF ReceiveInitAck, TypeOK
    <3>3. ~answered[p]
      BY <1>7 DEF ReceiveInitAck, Arrives
    <3> QED
      BY <3>1, <3>2, <3>3 DEF TimeoutInv
  <2> QED
    BY <2>2, <2>3, <2>4, <2>5, <2>6
<1>8. ASSUME NEW p \in Peers, ReceiveData(p) PROVE Inv'
  <2>1. /\ net' \in [Peers -> [Kinds -> 0 .. MaxInFlight]]
        /\ \A q \in Peers :
              /\ net'[q]["INIT_ACK"] > 0 => net[q]["INIT_ACK"] > 0
              /\ net'[q]["INIT"] > 0 => net[q]["INIT"] > 0
    BY <1>8, TakenType DEF ReceiveData, Arrives, Kinds
  <2>2. TypeOK'
    BY <1>8, <2>1 DEF ReceiveData, OnPacket, SetState, StateOnPacket,
                      FirstCounts, TypeOK, States, Timers
  <2>3. AnswerInv'
    BY <1>8, <2>1 DEF ReceiveData, OnPacket, SetState, StateOnPacket,
                      FirstCounts, TypeOK, AnswerInv
  <2>4. StateInv'
    BY <1>8, <2>1 DEF ReceiveData, OnPacket, SetState, StateOnPacket,
                      FirstCounts, TypeOK, StateInv
  <2>5. DoneInv'
    BY <1>8, <2>1 DEF ReceiveData, OnPacket, SetState, StateOnPacket,
                      FirstCounts, TypeOK, DoneInv
  <2>6. TimeoutInv'
    BY <1>8, <2>1 DEF ReceiveData, OnPacket, SetState, StateOnPacket,
                      FirstCounts, TypeOK, TimeoutInv
  <2> QED
    BY <2>2, <2>3, <2>4, <2>5, <2>6
<1>9. ASSUME NEW p \in Peers, HandleAudioInput(p) PROVE Inv'
  <2>1. /\ net' \in [Peers -> [Kinds -> 0 .. MaxInFlight]]
        /\ \A q \in Peers :
              /\ net'[q]["INIT_ACK"] > 0 => net[q]["INIT_ACK"] > 0
              /\ net'[q]["INIT"] > 0 => net[q]["INIT"] > 0
    <3>1. net \in [Peers -> [Kinds -> 0 .. MaxInFlight]]
      BY DEF TypeOK
    <3> QED
      BY <1>9, <3>1, UnderType DEF HandleAudioInput, Kinds
  <2>2. TypeOK'
    BY <1>9, <2>1 DEF HandleAudioInput, flags, TypeOK, States, Timers
  <2>3. AnswerInv'
    BY <1>9, <2>1 DEF HandleAudioInput, flags, TypeOK, AnswerInv
  <2>4. StateInv'
    BY <1>9, <2>1 DEF HandleAudioInput, flags, TypeOK, StateInv
  <2>5. DoneInv'
    BY <1>9, <2>1 DEF HandleAudioInput, flags, TypeOK, DoneInv
  <2>6. TimeoutInv'
    BY <1>9, <2>1 DEF HandleAudioInput, flags, TypeOK, TimeoutInv
  <2> QED
    BY <2>2, <2>3, <2>4, <2>5, <2>6
<1>10. ASSUME NEW p \in Peers, NEW k \in Kinds, Lose(p, k) PROVE Inv'
  <2>1. /\ net' \in [Peers -> [Kinds -> 0 .. MaxInFlight]]
        /\ \A q \in Peers :
              /\ net'[q]["INIT_ACK"] > 0 => net[q]["INIT_ACK"] > 0
              /\ net'[q]["INIT"] > 0 => net[q]["INIT"] > 0
    BY <1>10, TakenType DEF Lose, Kinds
  <2>2. TypeOK'
    BY <1>10, <2>1 DEF Lose, flags, TypeOK, States, Timers
  <2>3. AnswerInv'
    BY <1>10, <2>1 DEF Lose, flags, TypeOK, AnswerInv
  <2>4. StateInv'
    BY <1>10, <2>1 DEF Lose, flags, TypeOK, StateInv
  <2>5. DoneInv'
    BY <1>10, <2>1 DEF Lose, flags, TypeOK, DoneInv
  <2>6. TimeoutInv'
    BY <1>10, <2>1 DEF Lose, flags, TypeOK, TimeoutInv
  <2> QED
    BY <2>2, <2>3, <2>4, <2>5, <2>6
<1>11. ASSUME NEW p \in Peers, StaySilent(p) PROVE Inv'
  <2>1. silent' \in [Peers -> 0 .. 2]
    BY <1>11 DEF StaySilent, TypeOK
  <2> QED
    BY <1>11, <2>1 DEF StaySilent, flags, TypeOK, AnswerInv, StateInv,
                       DoneInv, TimeoutInv
<1>12. ASSUME NEW p \in Peers, FindSilent(p) PROVE Inv'
  BY <1>12 DEF FindSilent, flags, TypeOK, AnswerInv, StateInv, DoneInv,
               TimeoutInv
<1>13. ASSUME NEW p \in Peers, Reconnect(p) PROVE Inv'
  BY <1>13 DEF Reconnect, SetState, flags, TypeOK, AnswerInv, StateInv,
               DoneInv, TimeoutInv, States
<1>14. ASSUME NEW p \in Peers, RecvTimeout(p) PROVE Inv'
  BY <1>14 DEF RecvTimeout, SetState, flags, TypeOK, AnswerInv, StateInv,
               DoneInv, TimeoutInv, States
<1>15. ASSUME NEW p \in Peers, CancelInitTimeout(p) PROVE Inv'
  <2>1. /\ answered' \in [Peers -> BOOLEAN]
        /\ audioStarted' \in [Peers -> BOOLEAN]
        /\ timers' \in [Peers -> SUBSET Timers]
    BY <1>15 DEF CancelInitTimeout, AckTimers, TypeOK, Timers
  <2>2. TypeOK'
    BY <1>15, <2>1 DEF CancelInitTimeout, TypeOK
  <2>3. AnswerInv'
    BY <1>15 DEF CancelInitTimeout, AnswerInv
  <2>4. StateInv' /\ DoneInv' /\ TimeoutInv'
    BY <1>15 DEF CancelInitTimeout, AckTimers, TypeOK, StateInv, DoneInv,
                 TimeoutInv
  <2> QED
    BY <2>2, <2>3, <2>4
<1> QED
  BY <1>0, <1>1, <1>2, <1>3, <1>4, <1>5, <1>6, <1>7, <1>8, <1>9, <1>10, <1>11,
     <1>12, <1>13, <1>14, <1>15 DEF Next

(* So it always holds. *)
LEMMA AlwaysInv == Spec => []Inv
  BY InitInv, NextInv, PTL DEF Spec

-----------------------------------------------------------------------------
(* A call that counts as established was answered, and the peer has this   *)
(* side's INIT (VoIPController.cpp:2423, 2436): the timers that set the    *)
(* state were posted by an INIT_ACK or after one.                          *)
THEOREM Established_Mutual == Spec => []EstablishedIsMutual
<1>1. Inv => EstablishedIsMutual
  BY OtherPeer DEF Inv, AnswerInv, StateInv, EstablishedIsMutual
<1> QED
  BY <1>1, AlwaysInv, PTL

(* The timeout of the handshake (VoIPController.cpp:1002) fails a call     *)
(* that was answered only in one place, while the receiving thread is      *)
(* between setting receivedInitAck (2349) and the Cancel (2351).  An INIT  *)
(* is only sent once the timer is posted, so that the Cancel always finds  *)
(* it and no timeout is left behind.                                       *)
TimesOutBeforeCancelOnly ==
    [][\A p \in Peers :
         InitTimeout(p) => ~receivedInitAck[p] \/ answered[p]]_vars

(* Once an answered controller has cancelled its timeout, the timeout      *)
(* never fails it (VoIPController.cpp:1002, 2351).                         *)
THEOREM TimesOut_BeforeCancelOnly == Spec => TimesOutBeforeCancelOnly
<1>1. Inv => \A p \in Peers :
               InitTimeout(p) => ~receivedInitAck[p] \/ answered[p]
  BY DEF Inv, TimeoutInv, InitTimeout
<1> QED
  BY <1>1, AlwaysInv, PTL DEF TimesOutBeforeCancelOnly
=============================================================================
