-------------------------- MODULE AudioPathProofs --------------------------
(***************************************************************************)
(* Proofs about AudioPath, for pools and queues of any size that the       *)
(* assumption allows.                                                      *)
(***************************************************************************)
EXTENDS AudioPath, FiniteSetTheorems, FunctionTheorems, TLAPS

Elements == {"packet", "NULL"}

(* What is on its way round between the decoder and the clock thread. *)
Circulating ==
    credit + One(decoder = "fill") + decQueue + One(clock = "played")

(* After OpusDecoder::Stop there is at most the one release more that it   *)
(* made to wake the decoder, and the decoder is in a frame only while      *)
(* packets of it are left.                                                 *)
DecoderInv ==
    /\ CreditConserved
    /\ Circulating <= Tokens + 1
    /\ decRunning <=> control \in {"up", "stopped"}
    /\ decoder \in {"acquire", "fill"} => left >= 1

(* Only OpusEncoder::Stop, once, puts something other than a packet, and   *)
(* the encoder is deleted after its thread has left.                       *)
EncoderInv ==
    /\ Len(encQueue) <= Packets(encQueue)
                          + One(control \in {"join_encoder",
                                             "encoder_deleted", "deleted"})
    /\ ~EncoderThere => encoder = "ended"

Inv == TypeOK /\ BuffersAccounted /\ DecoderInv /\ EncoderInv /\ ~aborted

-----------------------------------------------------------------------------
(* What Put and GetBlocking do to the number of packets in the queue.      *)
Positions(q) == {n \in 1 .. Len(q) : q[n] = "packet"}

(* A queue holds finitely many packets. *)
LEMMA PositionsFinite ==
    ASSUME NEW q \in Seq(Elements)
    PROVE  IsFiniteSet(Positions(q)) /\ Packets(q) \in Nat
<1>1. IsFiniteSet(1 .. Len(q))
  BY FS_Interval
<1>2. IsFiniteSet(Positions(q))
  BY <1>1, FS_Subset DEF Positions
<1> QED
  BY <1>2, FS_CardinalityType DEF Packets, Positions

(* The number of packets is that of their positions. *)
LEMMA PacketsPositions == \A q : Packets(q) = Cardinality(Positions(q))
  BY DEF Packets, Positions

(* Put adds the packet it is given, and nothing for a marker. *)
LEMMA PutPackets ==
    ASSUME NEW q \in Seq(Elements), NEW x \in Elements
    PROVE  Packets(Append(q, x)) = Packets(q) + One(x = "packet")
<1>1. CASE x = "packet"
  <2>1. Positions(Append(q, x)) = Positions(q) \cup {Len(q) + 1}
    BY <1>1 DEF Positions
  <2>2. Len(q) + 1 \notin Positions(q)
    BY DEF Positions
  <2>3. Cardinality(Positions(q) \cup {Len(q) + 1})
          = Cardinality(Positions(q)) + 1
    BY <2>2, PositionsFinite, FS_AddElement
  <2> QED
    BY <1>1, <2>1, <2>3, PacketsPositions DEF One
<1>2. CASE x # "packet"
  <2>1. Positions(Append(q, x)) = Positions(q)
    BY <1>2 DEF Positions
  <2> QED
    BY <1>2, <2>1, PositionsFinite, PacketsPositions DEF One
<1> QED
  BY <1>1, <1>2

(* GetBlocking takes the packet at the head, and only that. *)
LEMMA TakePackets ==
    ASSUME NEW q \in Seq(Elements), q # << >>
    PROVE  Packets(Tail(q)) = Packets(q) - One(Head(q) = "packet")
<1> DEFINE S == Positions(q) \ {1}
           T == Positions(Tail(q))
           f == [n \in S |-> n - 1]
<1>1. f \in Bijection(S, T)
  <2>1. f \in [S -> T]
    BY DEF Positions
  <2>2. \A m, n \in S : f[m] = f[n] => m = n
    BY DEF Positions
  <2>3. \A t \in T : \E n \in S : f[n] = t
    <3>1. \A t \in T : t \in Nat /\ t + 1 \in S
      BY DEF Positions
    <3>2. \A t \in T : f[t + 1] = t
      BY <3>1
    <3> QED
      BY <3>1, <3>2
  <2> HIDE DEF S, T, f
  <2> QED
    BY <2>1, <2>2, <2>3 DEF Bijection, Injection, Surjection, IsInjective
<1>2. IsFiniteSet(S) /\ IsFiniteSet(T)
  <2>1. Tail(q) \in Seq(Elements)
    OBVIOUS
  <2>2. IsFiniteSet(Positions(q)) /\ IsFiniteSet(Positions(Tail(q)))
    BY <2>1, PositionsFinite
  <2> QED
    BY <2>2, FS_RemoveElement
<1>3. Cardinality(S) = Cardinality(T)
  <2> HIDE DEF S, T, f
  <2> QED
    BY <1>1, <1>2, FS_Bijection DEF ExistsBijection
<1>4. CASE Head(q) = "packet"
  <2>1. 1 \in Positions(q)
    BY <1>4 DEF Positions
  <2>2. Cardinality(S) = Cardinality(Positions(q)) - 1
    BY <2>1, PositionsFinite, FS_RemoveElement
  <2> QED
    BY <1>3, <1>4, <2>2, PacketsPositions DEF One
<1>5. CASE Head(q) # "packet"
  <2>1. S = Positions(q)
    BY <1>5 DEF Positions
  <2> HIDE DEF S
  <2> QED
    BY <1>3, <1>5, <2>1, PositionsFinite, PacketsPositions DEF One
<1> QED
  BY <1>4, <1>5
-----------------------------------------------------------------------------
(* The invariant *)

(* The pools and capacities, one fact each. *)
LEMMA Sizes ==
    /\ DecPool \in Nat /\ DecCapacity \in Nat /\ DecPool >= 2
    /\ EncPool \in Nat /\ EncCapacity \in Nat /\ EncCapacity > EncPool
    /\ FarPool \in Nat /\ FarCapacity \in Nat /\ FarCapacity > FarPool
    /\ DecCapacity > DecPool
  BY PoolAssumption

(* The invariant holds before the first frame. *)
LEMMA InitInv == Init => Inv
<1>1. Packets(<< >>) = 0
  <2>1. Positions(<< >>) = {}
    BY DEF Positions
  <2> QED
    BY <2>1, PacketsPositions, FS_EmptySet
<1>2. Init => TypeOK
  <2> SUFFICES ASSUME Init PROVE TypeOK
    OBVIOUS
  <2>1. /\ {inActive, outActive, read_buffer} \subseteq BOOLEAN
        /\ {decRunning, primed, encRunning, aborted} \subseteq BOOLEAN
    BY DEF Init
  <2>2. encQueue \in Seq({"packet", "NULL"})
    BY DEF Init
  <2> QED
    BY <2>1, <2>2, Sizes DEF Init, TypeOK, Tokens
<1>3. Init => BuffersAccounted /\ EncoderInv
  BY <1>1 DEF Init, BuffersAccounted, EncoderInv, EncoderThere, One
<1>4. Init => DecoderInv /\ ~aborted
  BY DEF Init, DecoderInv, CreditConserved, Circulating, One, Tokens
<1> QED
  BY <1>2, <1>3, <1>4 DEF Inv

(* Every step of the four threads keeps it. *)
LEMMA NextInv == Inv /\ [Next]_vars => Inv'
<1> SUFFICES ASSUME Inv, [Next]_vars PROVE Inv'
  OBVIOUS
<1> USE Sizes DEF Inv, One, Tokens, outVars, decVars, encVars, farVars,
             EncoderThere
<1>0. Packets(encQueue) \in Nat
  BY PositionsFinite DEF TypeOK, Elements
<1>u. CASE UNCHANGED vars
  BY <1>u DEF vars, TypeOK,
              BuffersAccounted, DecoderInv, CreditConserved, Circulating,
              EncoderInv
<1>1. CASE PutFrame
  BY <1>1, <1>0 DEF PutFrame, TypeOK, BuffersAccounted, DecoderInv,
                    CreditConserved, Circulating, EncoderInv
<1>2. CASE TakeBuffer
  BY <1>2, <1>0 DEF TakeBuffer, TypeOK, BuffersAccounted, DecoderInv,
                    CreditConserved, Circulating, EncoderInv
<1>3. CASE Enqueue
  <2>0. /\ encQueue' \in Seq(Elements) /\ Len(encQueue') = Len(encQueue) + 1
        /\ Packets(encQueue') = Packets(encQueue) + 1
    BY <1>0, <1>3, PutPackets DEF Enqueue, PutEncoder, TypeOK, Elements
  <2>1. TypeOK' /\ ~aborted'
    BY <1>3, <1>0, <2>0 DEF Enqueue, PutEncoder, TypeOK, Elements,
                            BuffersAccounted, DecoderInv, CreditConserved,
                            Circulating, EncoderInv
  <2>2. BuffersAccounted'
    BY <1>3, <1>0, <2>0 DEF Enqueue, PutEncoder, TypeOK, BuffersAccounted
  <2>3. DecoderInv'
    BY <1>3, <2>0 DEF Enqueue, PutEncoder, TypeOK, BuffersAccounted,
                      DecoderInv, CreditConserved, Circulating
  <2>4. EncoderInv'
    BY <1>3, <1>0, <2>0 DEF Enqueue, PutEncoder, TypeOK, EncoderInv
  <2> QED
    BY <2>1, <2>2, <2>3, <2>4
<1>4. CASE GetFrame
  BY <1>4, <1>0 DEF GetFrame, TypeOK, BuffersAccounted, DecoderInv,
                    CreditConserved, Circulating, EncoderInv
<1>5. CASE HandleCallback
  <2>a. credit' \in 0 .. Tokens + 1
    <3>1. ~primed /\ decRunning => credit = 0
      <4> SUFFICES ASSUME ~primed, decRunning PROVE credit = 0
        OBVIOUS
      <4> QED
        BY DEF TypeOK, DecoderInv, CreditConserved
    <3> QED
      BY <1>5, <3>1 DEF HandleCallback, TypeOK
  <2>1. TypeOK' /\ ~aborted'
    BY <1>5, <1>0, <2>a DEF HandleCallback, TypeOK, Elements, BuffersAccounted,
                            DecoderInv, CreditConserved, Circulating,
                            EncoderInv
  <2>2. BuffersAccounted'
    BY <1>5, <1>0, <2>a DEF HandleCallback, TypeOK, BuffersAccounted
  <2>3. DecoderInv'
    <3>1. CASE primed \/ ~decRunning
      BY <1>5, <3>1 DEF HandleCallback, TypeOK, DecoderInv, CreditConserved,
                        Circulating
    <3>2. CASE ~primed /\ decRunning
      <4>1. Circulating = 0 /\ credit' = credit + Tokens /\ primed'
        BY <1>5, <3>2 DEF HandleCallback, DecoderInv, CreditConserved,
                          Circulating
      <4> QED
        BY <1>5, <3>2, <4>1 DEF HandleCallback, TypeOK, DecoderInv,
                                CreditConserved, Circulating
    <3> QED
      BY <3>1, <3>2
  <2>4. EncoderInv'
    BY <1>5, <1>0, <2>a DEF HandleCallback, TypeOK, EncoderInv
  <2> QED
    BY <2>1, <2>2, <2>3, <2>4
<1>6. CASE Dequeue
  <2>1. TypeOK' /\ ~aborted'
    BY <1>6, <1>0 DEF Dequeue, TypeOK, BuffersAccounted, DecoderInv,
                      CreditConserved, Circulating, EncoderInv
  <2>2. BuffersAccounted'
    BY <1>6, <1>0 DEF Dequeue, TypeOK, BuffersAccounted
  <2>3. DecoderInv'
    BY <1>6 DEF Dequeue, TypeOK, BuffersAccounted, DecoderInv, CreditConserved,
                Circulating
  <2>4. EncoderInv'
    BY <1>6, <1>0 DEF Dequeue, TypeOK, EncoderInv
  <2> QED
    BY <2>1, <2>2, <2>3, <2>4
<1>7. CASE Played
  <2>a. /\ credit' \in 0 .. Tokens + 1 /\ decUsed' \in 0 .. DecPool
        /\ farUsed' \in 0 .. FarPool /\ farQueue' \in 0 .. FarCapacity
        /\ ~aborted'
    <3>1. credit' \in 0 .. Tokens + 1 /\ decUsed' \in 0 .. DecPool
      BY <1>7 DEF Played, TypeOK, BuffersAccounted, DecoderInv, Circulating
    <3>2. farQueue <= farUsed
      BY DEF TypeOK, BuffersAccounted
    <3> QED
      BY <1>7, <3>1, <3>2 DEF Played, SpeakerOutCallback, TypeOK
  <2>1. TypeOK' /\ ~aborted'
    BY <1>7, <1>0, <2>a DEF Played, SpeakerOutCallback, TypeOK, Elements,
                            BuffersAccounted, DecoderInv, CreditConserved,
                            Circulating, EncoderInv
  <2>2. BuffersAccounted'
    <3>1. decUsed' = decQueue' + One(clock' = "played")
      BY <1>7 DEF Played, TypeOK, BuffersAccounted
    <3>2. farUsed' = farQueue' + One(farend' = "process")
      BY <1>7 DEF Played, SpeakerOutCallback, TypeOK, BuffersAccounted
    <3>3. /\ encUsed' = encUsed /\ encQueue' = encQueue /\ encoder' = encoder
          /\ control' = control
          /\ clock # "enqueue" /\ clock' # "enqueue"
      BY <1>7 DEF Played
    <3> QED
      BY <3>1, <3>2, <3>3 DEF BuffersAccounted
  <2>3. DecoderInv'
    BY <1>7, <2>a DEF Played, SpeakerOutCallback, TypeOK, BuffersAccounted,
                      DecoderInv, CreditConserved, Circulating
  <2>4. EncoderInv'
    BY <1>7, <1>0, <2>a DEF Played, SpeakerOutCallback, TypeOK, EncoderInv
  <2> QED
    BY <2>1, <2>2, <2>3, <2>4
<1>8. CASE DecodeNextFrame
  BY <1>8, <1>0 DEF DecodeNextFrame, TypeOK, BuffersAccounted, DecoderInv,
                    CreditConserved, Circulating, EncoderInv
<1>9. CASE Acquire
  BY <1>9, <1>0 DEF Acquire, TypeOK, BuffersAccounted, DecoderInv,
                    CreditConserved, Circulating, EncoderInv
<1>10. CASE Fill
  <2>a. decRunning => decUsed < DecPool
    BY <1>10 DEF Fill, TypeOK, BuffersAccounted, DecoderInv, CreditConserved
  <2>1. TypeOK' /\ ~aborted'
    BY <1>10, <1>0, <2>a DEF Fill, TypeOK, Elements, BuffersAccounted,
                             DecoderInv, CreditConserved, Circulating,
                             EncoderInv
  <2>2. BuffersAccounted'
    BY <1>10, <1>0, <2>a DEF Fill, TypeOK, BuffersAccounted
  <2>3. DecoderInv'
    BY <1>10, <2>a DEF Fill, TypeOK, BuffersAccounted, DecoderInv,
                       CreditConserved, Circulating
  <2>4. EncoderInv'
    BY <1>10, <1>0, <2>a DEF Fill, TypeOK, EncoderInv
  <2> QED
    BY <2>1, <2>2, <2>3, <2>4
<1>11. CASE TakePacket
  <2>0. /\ encQueue' \in Seq(Elements) /\ Len(encQueue') = Len(encQueue) - 1
        /\ Packets(encQueue') = Packets(encQueue)
                                   - One(Head(encQueue) = "packet")
    BY <1>11, TakePackets DEF TakePacket, EncoderLoop, TypeOK, Elements
  <2>1. TypeOK' /\ ~aborted'
    BY <1>11, <1>0, <2>0 DEF TakePacket, EncoderLoop, TypeOK, Elements,
                             BuffersAccounted, DecoderInv, CreditConserved,
                             Circulating, EncoderInv
  <2>2. BuffersAccounted'
    BY <1>11, <1>0, <2>0 DEF TakePacket, EncoderLoop, TypeOK, BuffersAccounted
  <2>3. DecoderInv'
    BY <1>11, <2>0 DEF TakePacket, EncoderLoop, TypeOK, BuffersAccounted,
                       DecoderInv, CreditConserved, Circulating
  <2>4. EncoderInv'
    BY <1>11, <1>0, <2>0 DEF TakePacket, EncoderLoop, TypeOK, EncoderInv
  <2> QED
    BY <2>1, <2>2, <2>3, <2>4
<1>12. CASE Encode
  <2>a. /\ encUsed' \in 0 .. EncPool /\ encoder' \in {"get", "ended"}
        /\ encUsed' = encUsed - 1
    BY <1>12, <1>0 DEF Encode, EncoderLoop, TypeOK, BuffersAccounted,
                       EncoderInv
  <2>1. TypeOK' /\ ~aborted'
    BY <1>12, <1>0, <2>a DEF Encode, EncoderLoop, TypeOK, Elements,
                             BuffersAccounted, DecoderInv, CreditConserved,
                             Circulating, EncoderInv
  <2>2. BuffersAccounted'
    BY <1>12, <1>0, <2>a DEF Encode, EncoderLoop, TypeOK, BuffersAccounted
  <2>3. DecoderInv'
    BY <1>12, <2>a DEF Encode, EncoderLoop, TypeOK, BuffersAccounted,
                       DecoderInv, CreditConserved, Circulating
  <2>4. EncoderInv'
    BY <1>12, <1>0, <2>a DEF Encode, EncoderLoop, TypeOK, EncoderInv
  <2> QED
    BY <2>1, <2>2, <2>3, <2>4
<1>13. CASE TakeFarend
  BY <1>13, <1>0 DEF TakeFarend, TypeOK, BuffersAccounted, DecoderInv,
                     CreditConserved, Circulating, EncoderInv
<1>14. CASE ProcessReverseStream
  BY <1>14, <1>0 DEF ProcessReverseStream, TypeOK, BuffersAccounted,
                     DecoderInv, CreditConserved, Circulating, EncoderInv
<1>15. CASE UpdateAudioOutputState
  BY <1>15, <1>0 DEF UpdateAudioOutputState, TypeOK, BuffersAccounted,
                     DecoderInv, CreditConserved, Circulating, EncoderInv
<1>16. CASE Stop
  BY <1>16, <1>0 DEF Stop, TypeOK, BuffersAccounted, DecoderInv,
                     CreditConserved, Circulating, EncoderInv
<1>17. CASE StopDecoder
  <2>a. credit' \in 0 .. Tokens + 1
    <3>1. decRunning /\ credit <= Tokens
      BY <1>17 DEF StopDecoder, TypeOK, DecoderInv, CreditConserved
    <3> QED
      BY <1>17, <3>1 DEF StopDecoder, TypeOK
  <2>1. TypeOK' /\ ~aborted'
    BY <1>17, <1>0, <2>a DEF StopDecoder, TypeOK, Elements, BuffersAccounted,
                             DecoderInv, CreditConserved, Circulating,
                             EncoderInv
  <2>2. BuffersAccounted'
    BY <1>17, <1>0, <2>a DEF StopDecoder, TypeOK, BuffersAccounted
  <2>3. DecoderInv'
    BY <1>17, <2>a DEF StopDecoder, TypeOK, BuffersAccounted, DecoderInv,
                       CreditConserved, Circulating
  <2>4. EncoderInv'
    BY <1>17, <1>0, <2>a DEF StopDecoder, TypeOK, EncoderInv
  <2> QED
    BY <2>1, <2>2, <2>3, <2>4
<1>18. CASE StopEncoder
  <2>0. /\ encQueue' \in Seq(Elements) /\ Len(encQueue') = Len(encQueue) + 1
        /\ Packets(encQueue') = Packets(encQueue)
    BY <1>0, <1>18, PutPackets DEF StopEncoder, PutEncoder, TypeOK, Elements
  <2>a. Len(encQueue) < EncCapacity
    BY <1>18, <1>0 DEF StopEncoder, TypeOK, BuffersAccounted, EncoderInv
  <2>b. /\ ~aborted' /\ {aborted', encRunning', decRunning'} \subseteq BOOLEAN
        /\ control' = "join_encoder"
    <3>1. ~(Len(encQueue) >= EncCapacity)
      BY <2>a DEF TypeOK
    <3>2. aborted' = FALSE /\ encRunning' = FALSE
      BY <1>18, <3>1 DEF StopEncoder, PutEncoder
    <3> QED
      BY <1>18, <3>2 DEF StopEncoder, TypeOK
  <2>1. TypeOK' /\ ~aborted'
    BY <1>18, <2>0, <2>b DEF StopEncoder, TypeOK, Elements
  <2>2. BuffersAccounted'
    BY <1>18, <1>0, <2>0, <2>a, <2>b DEF StopEncoder, PutEncoder, TypeOK,
                                         BuffersAccounted
  <2>3. DecoderInv'
    BY <1>18, <2>0, <2>a, <2>b DEF StopEncoder, PutEncoder, TypeOK,
                                   BuffersAccounted, DecoderInv,
                                   CreditConserved, Circulating
  <2>4. EncoderInv'
    BY <1>18, <1>0, <2>0, <2>a, <2>b DEF StopEncoder, PutEncoder, TypeOK,
                                         EncoderInv
  <2> QED
    BY <2>1, <2>2, <2>3, <2>4
<1>19. CASE DeletePorts
  BY <1>19, <1>0 DEF DeletePorts, TypeOK, BuffersAccounted, DecoderInv,
                     CreditConserved, Circulating, EncoderInv
<1>20. CASE DeleteEncoder
  BY <1>20, <1>0 DEF DeleteEncoder, TypeOK, BuffersAccounted, DecoderInv,
                     CreditConserved, Circulating, EncoderInv
<1>21. CASE UseDeletedEncoder
  BY <1>21, <1>0 DEF UseDeletedEncoder, TypeOK, BuffersAccounted, DecoderInv,
                     CreditConserved, Circulating, EncoderInv
<1> QED
  BY <1>u, <1>1, <1>2, <1>3, <1>4, <1>5, <1>6, <1>7, <1>8, <1>9, <1>10, <1>11,
     <1>12, <1>13, <1>14, <1>15, <1>16, <1>17, <1>18, <1>19, <1>20,
     <1>21
     DEF Next, Frame, Callback, Decoder, Encoder, Farend, Delete

(* So it always holds. *)
LEMMA AlwaysInv == Spec => []Inv
  BY InitInv, NextInv, PTL DEF Spec

-----------------------------------------------------------------------------
(* No Put aborts the process (BlockingQueue.h:41): whoever puts a buffer   *)
(* has taken it from a pool smaller than the queue, and the one element    *)
(* that is none has the place left over.                                   *)
THEOREM Audio_NeverAborts == Spec => []NeverAborts
<1>1. Inv => NeverAborts
  BY DEF Inv, NeverAborts
<1> QED
  BY <1>1, AlwaysInv, PTL

(* No buffer is lost or used twice between the five threads, those of the  *)
(* encoder until it is deleted (VoIPController.cpp:315), and the two       *)
(* packets the first callback asks for stay in circulation until the       *)
(* decoder is stopped (OpusDecoder.cpp:108, 118, 187, 199).                *)
THEOREM Audio_NothingLost == Spec => []NothingLost
<1>1. Inv => NothingLost
  BY DEF Inv, NothingLost, DecoderInv
<1> QED
  BY <1>1, AlwaysInv, PTL

(* A frame is never skipped for want of a buffer while the decoder runs:   *)
(* the branch of RunThread that drops a packet and what was acquired for   *)
(* it (OpusDecoder.cpp:199) is only taken after Stop.                      *)
FillFindsBuffer == [][Fill /\ decRunning => decUsed < DecPool]_vars

(* The decoder that runs finds a buffer for every frame                    *)
(* (OpusDecoder.cpp:199).                                                  *)
THEOREM Audio_FillFindsBuffer == Spec => FillFindsBuffer
<1>1. Inv => (Fill /\ decRunning => decUsed < DecPool)
  BY Sizes DEF Inv, Fill, TypeOK, BuffersAccounted, DecoderInv,
               CreditConserved, One, Tokens
<1> QED
  BY <1>1, AlwaysInv, PTL DEF FillFindsBuffer
=============================================================================
