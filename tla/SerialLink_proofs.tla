------------------------- MODULE SerialLink_proofs -------------------------
(***************************************************************************)
(* Proofs about SerialLink, for every length of the queues, every number of *)
(* attempts and messages, and every kind of message.                       *)
(***************************************************************************)
EXTENDS SerialLink, TLAPS

-----------------------------------------------------------------------------
(* Frames and queues of frames.                                            *)

LEMMA TailType ==
    ASSUME NEW q \in Seq(Frame), q # <<>>
    PROVE  /\ Head(q) \in Frame /\ Tail(q) \in Seq(Frame)
           /\ Len(q) \in Nat \ {0} /\ Len(Tail(q)) = Len(q) - 1
OBVIOUS

LEMMA AppendType ==
    ASSUME NEW q \in Seq(Frame), NEW f \in Frame
    PROVE  Append(q, f) \in Seq(Frame) /\ Len(Append(q, f)) = Len(q) + 1
OBVIOUS

LEMMA PutType ==
    ASSUME NEW q \in Seq(Frame), NEW f \in Frame, NEW n \in Nat, Len(q) <= n
    PROVE  Put(q, f, n) \in Seq(Frame) /\ Len(Put(q, f, n)) <= n
<1>1. Len(q) \in Nat
  OBVIOUS
<1> QED BY <1>1, AppendType DEF Put

LEMMA NewFrames ==
    /\ \A kind \in Kind : Data(kind) \in Frame
    /\ \A nr \in Nat, ok \in BOOLEAN, dst \in {"FC", "GS", "BC"} :
          Trans(nr, ok, dst) \in Frame
BY DEF Data, Trans, Frame, Kind

LEMMA Numbered ==
    ASSUME NEW f \in Frame, NEW n \in Nat
    PROVE  FcNumber(f, n) \in Frame /\ GsNumber(f, n) \in Frame
<1>1. n % FcNrs \in Nat /\ n % GsNrs \in Nat
  BY SerialLinkAssumption
<1>2. ASSUME NEW r \in Nat
      PROVE  [f EXCEPT !.seq = n, !.nr = r, !.hops = @ + 1] \in Frame
  <2> DEFINE g == [f EXCEPT !.seq = n, !.nr = r]
  <2>1. g \in Frame
    BY DEF Frame
  <2>2. \A h \in Frame : [h EXCEPT !.hops = @ + 1] \in Frame
    BY DEF Frame
  <2>3. [g EXCEPT !.hops = @ + 1] = [f EXCEPT !.seq = n, !.nr = r, !.hops = @ + 1]
    OBVIOUS
  <2> QED BY <2>1, <2>2, <2>3
<1> QED BY <1>1, <1>2 DEF FcNumber, GsNumber

LEMMA Retargeted == \A f \in Frame : Retarget(f) \in Frame
BY DEF Retarget, Frame

LEMMA Answers == \A nr \in Nat, ok \in BOOLEAN :
                    Trans(nr, ok, "GS") \in Frame /\ Trans(nr, ok, "FC") \in Frame
BY NewFrames

-----------------------------------------------------------------------------
(* Type correctness.                                                       *)

\* ComTx waits only while it has attempts left.
TriesInv == sending # {} => tries < NrRetransmitt

TypeInv == TypeOK /\ TriesInv

LEMMA InitType == Init => TypeInv
<1> SUFFICES ASSUME Init PROVE TypeInv
  OBVIOUS
<1>1. <<>> \in Frames /\ Len(<<>>) = 0
  BY DEF Frames
<1>2. FcType /\ TriesInv
  BY <1>1, SerialLinkAssumption DEF Init, FcType, TriesInv
<1>3. WireType
  BY <1>1, SerialLinkAssumption DEF Init, WireType
<1>4. GsType
  <2>1. outFifo = <<>> /\ ackFifo = <<>> /\ inbox = <<>>
    BY DEF Init
  <2>2. lastMsg \in SUBSET Frame /\ hand \in SUBSET Frame
    BY DEF Init
  <2>3. doResend \in BOOLEAN /\ timer \in BOOLEAN
    BY DEF Init
  <2>4. retries \in 0 .. NrRetries /\ gsSeq \in Nat /\ doSend \in Nat
    BY SerialLinkAssumption DEF Init
  <2> QED BY <1>1, <2>1, <2>2, <2>3, <2>4, SerialLinkAssumption DEF GsType
<1>5. HistoryType
  BY SerialLinkAssumption DEF Init, HistoryType
<1> QED BY <1>2, <1>3, <1>4, <1>5 DEF TypeInv, TypeOK

\* The parts of TypeInv that an action leaves alone.
LEMMA Untouched ==
    ASSUME TypeInv
    PROVE  /\ UNCHANGED fcVars => FcType' /\ TriesInv'
           /\ UNCHANGED wires => WireType'
           /\ UNCHANGED gsVars => GsType'
           /\ UNCHANGED <<history, budget>> => HistoryType'
<1>1. UNCHANGED fcVars => FcType' /\ TriesInv'
  BY DEF TypeInv, TypeOK, fcVars, FcType, TriesInv
<1>2. UNCHANGED wires => WireType'
  BY DEF TypeInv, TypeOK, wires, WireType
<1>3. UNCHANGED gsVars => GsType'
  BY DEF TypeInv, TypeOK, gsVars, writeVars, GsType
<1>4. UNCHANGED <<history, budget>> => HistoryType'
  BY DEF TypeInv, TypeOK, history, HistoryType
<1> QED BY <1>1, <1>2, <1>3, <1>4

LEMMA SpentBudget ==
    ASSUME HistoryType
    PROVE  /\ budget.messages > 0 =>
                [budget EXCEPT !.messages = @ - 1] \in
                    [messages : 0 .. Messages, mishaps : 0 .. Mishaps]
           /\ budget.mishaps > 0 =>
                [budget EXCEPT !.mishaps = @ - 1] \in
                    [messages : 0 .. Messages, mishaps : 0 .. Mishaps]
BY SerialLinkAssumption DEF HistoryType

LEMMA FcNewType ==
    ASSUME TypeInv, NEW kind \in FcKinds, FcNew(kind)
    PROVE  TypeInv'
<1>1. Data(kind) \in Frame
  BY NewFrames, SerialLinkAssumption
<1>2. FcType' /\ TriesInv'
  BY <1>1, PutType, SerialLinkAssumption
  DEF TypeInv, TypeOK, FcNew, FcType, TriesInv, Frames
<1>3. HistoryType'
  BY SpentBudget DEF TypeInv, TypeOK, FcNew, HistoryType, history
<1>4. WireType' /\ GsType'
  BY Untouched DEF FcNew
<1> QED BY <1>2, <1>3, <1>4 DEF TypeInv, TypeOK

LEMMA TxIdleType ==
    ASSUME TypeInv, TxIdle
    PROVE  TypeInv'
<1>1. FcType' /\ TriesInv'
  BY TailType, SerialLinkAssumption
  DEF TypeInv, TypeOK, TxIdle, FcType, TriesInv, Frames
<1>2. WireType' /\ GsType' /\ HistoryType'
  BY Untouched DEF TxIdle
<1> QED BY <1>1, <1>2 DEF TypeInv, TypeOK

LEMMA TxSendType ==
    ASSUME TypeInv, TxSend
    PROVE  TypeInv'
<1> DEFINE f == Head(portQ)
           n == IF f.type = "data" THEN fcSeq + 1 ELSE fcSeq
           g == IF f.type = "data" THEN FcNumber(f, n) ELSE f
<1>1. f \in Frame /\ Tail(portQ) \in Seq(Frame) /\ Len(Tail(portQ)) = Len(portQ) - 1
  BY TailType DEF TypeInv, TypeOK, TxSend, FcType, Frames
<1>2. n \in Nat
  BY DEF TypeInv, TypeOK, FcType
<1>3. g \in Frame
  BY <1>1, <1>2, Numbered
<1>4. portQ' = Tail(portQ) /\ fcSeq' = n /\ toGS' = Append(toGS, g)
      /\ sending' = (IF g.ack THEN {g} ELSE {})
  BY DEF TxSend
<1> HIDE DEF f, n, g
<1>5. FcType'
  BY <1>1, <1>2, <1>3, <1>4, SerialLinkAssumption
  DEF TypeInv, TypeOK, TxSend, FcType, Frames
<1>6. TriesInv'
  BY SerialLinkAssumption DEF TxSend, TriesInv
<1>7. WireType'
  <2>1. toGS \in Seq(Frame) /\ Len(toGS) < WireLength /\ UNCHANGED toFC
    BY DEF TypeInv, TypeOK, TxSend, WireType, Room, Frames
  <2> QED
    BY <2>1, <1>3, <1>4, AppendType, SerialLinkAssumption DEF TypeInv, TypeOK, WireType, Frames
<1>8. GsType' /\ HistoryType'
  BY Untouched DEF TxSend
<1> QED BY <1>5, <1>6, <1>7, <1>8 DEF TypeInv, TypeOK

\* A retransmission, or the last one that is none.
LEMMA RetransmittType ==
    ASSUME TypeInv, Retransmitt
    PROVE  /\ sending' \in SUBSET Frame /\ tries' \in 0 .. NrRetransmitt
           /\ TriesInv'
           /\ toGS' \in Frames /\ Len(toGS') <= WireLength
<1>1. PICK f \in sending :
        /\ tries' = tries + 1
        /\ IF tries + 1 >= NrRetransmitt
           THEN sending' = {} /\ UNCHANGED toGS
           ELSE Room(toGS) /\ toGS' = Append(toGS, f) /\ UNCHANGED sending
  BY DEF Retransmitt
<1>2. f \in Frame /\ tries \in Nat /\ tries < NrRetransmitt /\ sending \in SUBSET Frame
  BY DEF TypeInv, TypeOK, FcType, TriesInv
<1>3. toGS \in Seq(Frame) /\ Len(toGS) <= WireLength
  BY DEF TypeInv, TypeOK, WireType, Frames
<1>4. CASE tries + 1 >= NrRetransmitt
  BY <1>1, <1>2, <1>3, <1>4, SerialLinkAssumption DEF TriesInv, Frames
<1>5. CASE ~(tries + 1 >= NrRetransmitt)
  BY <1>1, <1>2, <1>3, <1>5, AppendType, SerialLinkAssumption DEF TriesInv, Room, Frames
<1> QED BY <1>4, <1>5

LEMMA TxAckType ==
    ASSUME TypeInv, TxAck
    PROVE  TypeInv'
<1>1. FcType' /\ TriesInv'
  BY TailType, SerialLinkAssumption
  DEF TypeInv, TypeOK, TxAck, FcType, TriesInv, Frames
<1>2. WireType' /\ GsType' /\ HistoryType'
  BY Untouched DEF TxAck
<1> QED BY <1>1, <1>2 DEF TypeInv, TypeOK

LEMMA TxWrongAckType ==
    ASSUME TypeInv, TxWrongAck
    PROVE  TypeInv'
<1>1. Tail(fcEvq) \in Seq(Frame) /\ Len(Tail(fcEvq)) <= EventLength
  BY TailType, SerialLinkAssumption
  DEF TypeInv, TypeOK, TxWrongAck, FcType, Frames
<1>2. FcType' /\ TriesInv'
  BY <1>1, RetransmittType DEF TypeInv, TypeOK, TxWrongAck, FcType, Frames
<1>3. WireType'
  BY RetransmittType DEF TypeInv, TypeOK, TxWrongAck, WireType
<1>4. GsType' /\ HistoryType'
  BY Untouched DEF TxWrongAck
<1> QED BY <1>2, <1>3, <1>4 DEF TypeInv, TypeOK

LEMMA TxTimeoutType ==
    ASSUME TypeInv, TxTimeout
    PROVE  TypeInv'
<1>1. FcType' /\ TriesInv'
  BY RetransmittType DEF TypeInv, TypeOK, TxTimeout, FcType
<1>2. WireType'
  BY RetransmittType DEF TypeInv, TypeOK, TxTimeout, WireType
<1>3. HistoryType'
  BY SpentBudget DEF TypeInv, TypeOK, TxTimeout, HistoryType, history
<1>4. GsType'
  BY Untouched DEF TxTimeout
<1> QED BY <1>1, <1>2, <1>3, <1>4 DEF TypeInv, TypeOK

LEMMA FcReceiveType ==
    ASSUME TypeInv, FcReceive
    PROVE  TypeInv'
<1> DEFINE f == Head(toFC)
           g == Retarget(f)
           t == Trans(f.nr, TRUE, "GS")
           acked == IF f.ack THEN Put(portQ, t, EventLength) ELSE portQ
<1>1. /\ f \in Frame /\ f.nr \in Nat /\ f.seq \in Nat
      /\ Tail(toFC) \in Seq(Frame) /\ Len(Tail(toFC)) <= WireLength
  <2>1. f \in Frame /\ Tail(toFC) \in Seq(Frame) /\ Len(Tail(toFC)) <= WireLength
    BY TailType, SerialLinkAssumption
    DEF TypeInv, TypeOK, FcReceive, WireType, Frames
  <2> QED BY <2>1 DEF Frame
<1>2. g \in Frame /\ t \in Frame
  BY <1>1, Retargeted, Answers
<1>3. /\ toFC' = Tail(toFC)
      /\ portQ' = (IF g.dst # "FC" THEN Put(acked, g, EventLength) ELSE acked)
      /\ fcEvq' = (IF f.type = "trans" THEN Put(fcEvq, f, EventLength) ELSE fcEvq)
      /\ fcGot' = (IF f.type = "data" THEN f.seq ELSE fcGot)
  BY DEF FcReceive
<1> HIDE DEF f, g, t
<1>4. acked \in Seq(Frame) /\ Len(acked) <= EventLength
  BY <1>2, PutType, SerialLinkAssumption DEF TypeInv, TypeOK, FcType, Frames
<1> HIDE DEF acked
<1>5. portQ' \in Frames /\ Len(portQ') <= EventLength
  BY <1>2, <1>3, <1>4, PutType, SerialLinkAssumption DEF Frames
<1>6. fcEvq' \in Frames /\ Len(fcEvq') <= EventLength
  BY <1>1, <1>3, PutType, SerialLinkAssumption DEF TypeInv, TypeOK, FcType, Frames
<1>7. FcType' /\ TriesInv'
  BY <1>5, <1>6 DEF TypeInv, TypeOK, FcReceive, FcType, TriesInv
<1>8. WireType'
  BY <1>1, <1>3 DEF TypeInv, TypeOK, FcReceive, WireType, Frames
<1>9. HistoryType'
  BY <1>1, <1>3 DEF TypeInv, TypeOK, FcReceive, HistoryType
<1>10. GsType'
  BY Untouched DEF FcReceive
<1> QED BY <1>7, <1>8, <1>9, <1>10 DEF TypeInv, TypeOK

LEMMA FcReceiveBadType ==
    ASSUME TypeInv, FcReceiveBad
    PROVE  TypeInv'
<1>1. FcType' /\ TriesInv'
  BY PutType, Answers, SerialLinkAssumption
  DEF TypeInv, TypeOK, FcReceiveBad, FcType, TriesInv, Frames
<1>2. WireType'
  BY TailType, SerialLinkAssumption
  DEF TypeInv, TypeOK, FcReceiveBad, WireType, Frames
<1>3. HistoryType'
  BY SpentBudget DEF TypeInv, TypeOK, FcReceiveBad, HistoryType, history
<1>4. GsType'
  BY Untouched DEF FcReceiveBad
<1> QED BY <1>1, <1>2, <1>3, <1>4 DEF TypeInv, TypeOK

LEMMA GsNewType ==
    ASSUME TypeInv, NEW kind \in GsKinds, GsNew(kind)
    PROVE  TypeInv'
<1>1. Data(kind) \in Frame
  BY NewFrames, SerialLinkAssumption
<1>2. GsType'
  BY SMTT(30), <1>1, AppendType, SerialLinkAssumption
  DEF TypeInv, TypeOK, GsNew, GsType, Frames, writeVars
<1>3. HistoryType'
  BY SpentBudget DEF TypeInv, TypeOK, GsNew, HistoryType, history
<1>4. FcType' /\ TriesInv' /\ WireType'
  BY Untouched DEF GsNew
<1> QED BY <1>2, <1>3, <1>4 DEF TypeInv, TypeOK

LEMMA GsReceiveType ==
    ASSUME TypeInv, GsReceive
    PROVE  TypeInv'
<1> DEFINE f == Head(toGS)
           h == [f EXCEPT !.dst = "GS"]
           t == Trans(f.nr, TRUE, "FC")
<1>1. /\ f \in Frame /\ Tail(toGS) \in Seq(Frame) /\ Len(Tail(toGS)) <= WireLength
  BY TailType, SerialLinkAssumption
  DEF TypeInv, TypeOK, GsReceive, WireType, Frames
<1>2. f.nr \in Nat /\ f.seq \in Nat /\ h \in Frame
  BY <1>1 DEF Frame
<1>3. t \in Frame
  BY <1>2, Answers
<1>4. /\ inbox \in Seq(Frame) /\ ackFifo \in Seq(Frame) /\ Len(ackFifo) <= FifoLength
      /\ doSend \in Nat /\ gsGot \in Nat
  BY DEF TypeInv, TypeOK, GsType, HistoryType, Frames
<1>5. /\ inbox' \in Seq(Frame) /\ ackFifo' \in Seq(Frame) /\ Len(ackFifo') <= FifoLength
      /\ doSend' \in Nat /\ gsGot' \in Nat
  <2>1. CASE /\ f.ack /\ Len(ackFifo) < FifoLength
             /\ ackFifo' = Append(ackFifo, t) /\ doSend' = doSend + 1
             /\ inbox' = Append(inbox, f) /\ gsGot' = f.seq
    <3>1. Append(inbox, f) \in Seq(Frame)
      BY <1>1, <1>4, AppendType
    <3>2. /\ Append(ackFifo, t) \in Seq(Frame)
          /\ Len(Append(ackFifo, t)) = Len(ackFifo) + 1 /\ Len(ackFifo) \in Nat
      <4> HIDE DEF f, h, t
      <4>1. Len(ackFifo) \in Nat
        BY <1>4
      <4> QED BY <1>3, <1>4, <4>1, AppendType
    <3> HIDE DEF f, h, t
    <3>3. Len(ackFifo') <= FifoLength
      BY <3>2, <2>1, SerialLinkAssumption
    <3> QED BY <1>2, <1>4, <2>1, <3>1, <3>2, <3>3
  <2>2. CASE /\ inbox' = Append(inbox, IF f.dst = "BC" THEN h ELSE f)
             /\ gsGot' = (IF f.type = "data" THEN f.seq ELSE gsGot)
             /\ UNCHANGED <<ackFifo, doSend>>
    <3> HIDE DEF f, h
    <3> QED BY <1>1, <1>2, <1>4, <2>2, AppendType
  <2>3. CASE UNCHANGED <<ackFifo, doSend, inbox, gsGot>>
    BY <1>4, <2>3
  <2> QED BY <2>1, <2>2, <2>3 DEF GsReceive
<1>6. GsType'
  BY <1>5 DEF TypeInv, TypeOK, GsReceive, GsType, Frames, writeVars
<1>7. WireType'
  BY <1>1 DEF TypeInv, TypeOK, GsReceive, WireType, Frames
<1>8. HistoryType'
  BY <1>5 DEF TypeInv, TypeOK, GsReceive, HistoryType
<1>9. FcType' /\ TriesInv'
  BY Untouched DEF GsReceive
<1> QED BY <1>6, <1>7, <1>8, <1>9 DEF TypeInv, TypeOK

LEMMA ProcessType ==
    ASSUME TypeInv, Process
    PROVE  TypeInv'
<1>1. Tail(inbox) \in Seq(Frame)
  BY TailType DEF TypeInv, TypeOK, Process, GsType, Frames
<1>2. lastMsg' \in SUBSET Frame /\ doResend' \in BOOLEAN
  BY DEF TypeInv, TypeOK, Process, GsType
<1>3. inbox' \in Frames /\ doSend' \in Nat
  BY <1>1 DEF TypeInv, TypeOK, Process, GsType, Frames
<1>4. /\ inbox' \in Frames /\ timer' \in BOOLEAN /\ doSend' \in Nat
      /\ UNCHANGED <<outFifo, ackFifo, hand, gsSeq, retries>>
  BY <1>3 DEF Process, writeVars
<1>5. GsType'
  BY <1>2, <1>4 DEF TypeInv, TypeOK, GsType
<1>6. FcType' /\ TriesInv' /\ WireType' /\ HistoryType'
  BY Untouched DEF Process
<1> QED BY <1>6, <1>5 DEF TypeInv, TypeOK

LEMMA RouteType ==
    ASSUME TypeInv, Route
    PROVE  TypeInv'
<1>1. Tail(inbox) \in Seq(Frame) /\ Head(inbox) \in Frame
  BY TailType DEF TypeInv, TypeOK, Route, GsType, Frames
<1>2. outFifo' \in Seq(Frame) /\ Len(outFifo') <= FifoLength /\ doSend' \in Nat
  <2>1. /\ outFifo \in Seq(Frame) /\ Len(outFifo) \in Nat /\ Len(outFifo) <= FifoLength
        /\ doSend \in Nat /\ FifoLength \in Nat
    BY SerialLinkAssumption DEF TypeInv, TypeOK, GsType, Frames
  <2>2. CASE Head(inbox).dst = "BC" /\ Len(outFifo) < FifoLength
    <3>1. outFifo' = Append(outFifo, Head(inbox)) /\ doSend' = doSend + 1
      BY <2>2 DEF Route
    <3> QED BY <1>1, <2>1, <2>2, <3>1, AppendType
  <2>3. CASE ~(Head(inbox).dst = "BC" /\ Len(outFifo) < FifoLength)
    BY <2>1, <2>3 DEF Route
  <2> QED BY <2>2, <2>3
<1>3. GsType'
  BY <1>1, <1>2 DEF TypeInv, TypeOK, Route, GsType, Frames, writeVars
<1>4. FcType' /\ TriesInv' /\ WireType' /\ HistoryType'
  BY Untouched DEF Route
<1> QED BY <1>3, <1>4 DEF TypeInv, TypeOK

LEMMA GsTimeoutType ==
    ASSUME TypeInv, GsTimeout
    PROVE  TypeInv'
<1>1. doSend' \in Nat
  BY DEF TypeInv, TypeOK, GsTimeout, GsType
<1>2. /\ timer' \in BOOLEAN /\ doResend' \in BOOLEAN /\ doSend' \in Nat
      /\ UNCHANGED <<outFifo, ackFifo, inbox, lastMsg, hand, gsSeq, retries>>
  BY <1>1 DEF GsTimeout, writeVars
<1>3. GsType'
  BY <1>2 DEF TypeInv, TypeOK, GsType
<1>4. FcType' /\ TriesInv' /\ WireType' /\ HistoryType'
  BY Untouched DEF GsTimeout
<1> QED BY <1>3, <1>4 DEF TypeInv, TypeOK

\* What the writer thread has written fits the wire, and what it keeps is a frame.
LEMMA WriteType ==
    ASSUME TypeInv, NEW f \in Frame, Wakes, Write(f)
    PROVE  /\ toFC' \in Seq(Frame) /\ Len(toFC') <= WireLength
           /\ hand' \in SUBSET Frame /\ doSend' \in Nat
<1>1. toFC \in Seq(Frame) /\ doSend \in Nat
  BY DEF TypeInv, TypeOK, WireType, GsType, Frames
<1> QED BY <1>1, AppendType, SerialLinkAssumption DEF Wakes, Write, Room

LEMMA WriterType ==
    ASSUME TypeInv, Writer
    PROVE  TypeInv'
<1>0. /\ outFifo \in Seq(Frame) /\ Len(outFifo) <= FifoLength
      /\ ackFifo \in Seq(Frame) /\ Len(ackFifo) <= FifoLength
      /\ lastMsg \in SUBSET Frame /\ hand \in SUBSET Frame
      /\ doResend \in BOOLEAN /\ timer \in BOOLEAN
      /\ retries \in 0 .. NrRetries /\ gsSeq \in Nat /\ doSend \in Nat
      /\ toFC \in Seq(Frame) /\ Len(toFC) <= WireLength
  BY DEF TypeInv, TypeOK, GsType, WireType, Frames
<1>1. /\ outFifo' \in Seq(Frame) /\ Len(outFifo') <= FifoLength
      /\ ackFifo' \in Seq(Frame) /\ Len(ackFifo') <= FifoLength
      /\ lastMsg' \in SUBSET Frame /\ hand' \in SUBSET Frame
      /\ doResend' \in BOOLEAN /\ timer' \in BOOLEAN
      /\ retries' \in 0 .. NrRetries /\ gsSeq' \in Nat /\ doSend' \in Nat
      /\ toFC' \in Seq(Frame) /\ Len(toFC') <= WireLength
  <2>1. CASE WriterAck
    <3>1. /\ Head(ackFifo) \in Frame /\ Tail(ackFifo) \in Seq(Frame)
          /\ Len(Tail(ackFifo)) <= FifoLength
      BY <1>0, <2>1, TailType, SerialLinkAssumption DEF WriterAck
    <3> QED BY <1>0, <2>1, <3>1, WriteType DEF WriterAck
  <2>2. CASE WriterResend
    <3>1. PICK f \in lastMsg : Write(f)
      BY <2>2 DEF WriterResend
    <3>2. f \in Frame
      BY <1>0
    <3>3. retries' \in 0 .. NrRetries
      BY <1>0, <2>2, SerialLinkAssumption DEF WriterResend
    <3> QED BY <1>0, <2>2, <3>1, <3>2, <3>3, WriteType DEF WriterResend
  <2>3. CASE WriterDrop
    <3>1. doResend' \in BOOLEAN /\ lastMsg' \in SUBSET Frame
      BY <2>3 DEF WriterDrop
    <3>2. retries' \in 0 .. NrRetries
      BY <2>3, SerialLinkAssumption DEF WriterDrop
    <3>3. doSend' \in Nat
      BY <1>0, <2>3 DEF WriterDrop, Wakes
    <3> QED BY <1>0, <2>3, <3>1, <3>2, <3>3 DEF WriterDrop
  <2>4. CASE WriterNew
    <3>1. /\ Head(outFifo) \in Frame /\ Tail(outFifo) \in Seq(Frame)
          /\ Len(Tail(outFifo)) <= FifoLength
      BY <1>0, <2>4, TailType, SerialLinkAssumption DEF WriterNew, SendsNew
    <3>2. gsSeq + 1 \in Nat
      BY <1>0
    <3>3. GsNumber(Head(outFifo), gsSeq + 1) \in Frame
      BY <3>1, <3>2, Numbered
    <3>4. (timer \/ Head(outFifo).ack) \in BOOLEAN
      OBVIOUS
    <3> QED BY <1>0, <2>4, <3>1, <3>3, <3>4, WriteType DEF WriterNew
  <2>5. CASE WriterNothing
    BY <1>0, <2>5 DEF WriterNothing, Wakes, writeVars
  <2> QED BY <2>1, <2>2, <2>3, <2>4, <2>5 DEF Writer
<1>2. UNCHANGED <<inbox, fcVars, toGS, history, budget>>
  BY DEF Writer
<1>3. GsType'
  BY <1>1, <1>2 DEF TypeInv, TypeOK, GsType, Frames
<1>4. WireType'
  BY <1>1, <1>2 DEF TypeInv, TypeOK, WireType, Frames
<1>5. FcType' /\ TriesInv' /\ HistoryType'
  BY <1>2, Untouched
<1> QED BY <1>3, <1>4, <1>5 DEF TypeInv, TypeOK

LEMMA SaveType ==
    ASSUME TypeInv, Save
    PROVE  TypeInv'
<1>1. GsType'
  BY DEF TypeInv, TypeOK, Save, GsType
<1>2. FcType' /\ TriesInv' /\ WireType' /\ HistoryType'
  BY Untouched DEF Save
<1> QED BY <1>1, <1>2 DEF TypeInv, TypeOK

LEMMA LoseType ==
    ASSUME TypeInv, LoseToFC \/ LoseToGS
    PROVE  TypeInv'
<1>1. WireType'
  <2>1. CASE LoseToFC
    BY <2>1, TailType, SerialLinkAssumption
    DEF TypeInv, TypeOK, LoseToFC, WireType, Frames
  <2>2. CASE LoseToGS
    BY <2>2, TailType, SerialLinkAssumption
    DEF TypeInv, TypeOK, LoseToGS, WireType, Frames
  <2> QED BY <2>1, <2>2
<1>2. HistoryType'
  BY SpentBudget DEF TypeInv, TypeOK, LoseToFC, LoseToGS, HistoryType, history
<1>3. FcType' /\ TriesInv' /\ GsType'
  BY Untouched DEF LoseToFC, LoseToGS
<1> QED BY <1>1, <1>2, <1>3 DEF TypeInv, TypeOK

LEMMA TypeInvariant == Spec => []TypeInv
<1>1. ASSUME TypeInv, [Next]_vars
      PROVE  TypeInv'
  <2>1. CASE ComTx
    BY <1>1, <2>1, TxIdleType, TxSendType, TxAckType, TxWrongAckType, TxTimeoutType
    DEF ComTx
  <2>2. CASE ComRx
    BY <1>1, <2>2, FcReceiveType, FcReceiveBadType DEF ComRx
  <2>3. CASE GsIo
    BY <1>1, <2>3, GsReceiveType, GsTimeoutType DEF GsIo
  <2>4. CASE GsModule
    BY <1>1, <2>4, ProcessType, RouteType DEF GsModule
  <2>5. CASE GsWriter
    BY <1>1, <2>5, WriterType, SaveType DEF GsWriter
  <2>6. CASE Environment
    BY <1>1, <2>6, FcNewType, GsNewType, LoseType DEF Environment
  <2>7. CASE UNCHANGED vars
    BY <1>1, <2>7, Untouched DEF vars, wires, TypeInv, TypeOK
  <2> QED BY <1>1, <2>1, <2>2, <2>3, <2>4, <2>5, <2>6, <2>7 DEF Next, Threads
<1> QED BY <1>1, InitType, PTL DEF Spec

\* No queue of either side outgrows its length, and the FC never tries more often,
\* nor the GS retries more often, than they are configured to, for every setting.
THEOREM TypeCorrect == Spec => []TypeOK
<1>1. TypeInv => TypeOK
  BY DEF TypeInv
<1> QED BY <1>1, TypeInvariant, PTL

-----------------------------------------------------------------------------
(* Acknowledgements have wake-ups.                                         *)

\* The semaphore of the writer counts at least the acknowledgements that wait: each
\* one brings a wake-up, and a wake-up that finds acknowledgements takes one.
THEOREM AcksAlwaysHaveWakeups == Spec => []AcksHaveWakeups
<1>1. Init => AcksHaveWakeups
  BY DEF Init, AcksHaveWakeups
<1>2. ASSUME TypeOK, AcksHaveWakeups, [Next]_vars
      PROVE  AcksHaveWakeups'
  <2>0. /\ ackFifo \in Seq(Frame) /\ Len(ackFifo) \in Nat
        /\ doSend \in Nat /\ doSend >= Len(ackFifo)
    BY <1>2 DEF TypeOK, GsType, Frames, AcksHaveWakeups
  <2>1. CASE UNCHANGED gsVars
    BY <1>2, <2>1 DEF gsVars, AcksHaveWakeups
  <2>2. CASE /\ UNCHANGED ackFifo
             /\ doSend' = doSend + 1 \/ UNCHANGED doSend
    BY <2>0, <2>2 DEF AcksHaveWakeups
  <2>3. CASE GsReceive
    <3> DEFINE t == Trans(Head(toGS).nr, TRUE, "FC")
    <3>1. CASE ackFifo' = Append(ackFifo, t) /\ doSend' = doSend + 1
      <4> HIDE DEF t
      <4>1. Len(Append(ackFifo, t)) = Len(ackFifo) + 1
        BY <2>0
      <4> QED BY <2>0, <3>1, <4>1 DEF AcksHaveWakeups
    <3>2. CASE UNCHANGED <<ackFifo, doSend>>
      BY <2>2, <3>2
    <3> QED BY <2>3, <3>1, <3>2 DEF GsReceive
  <2>4. CASE WriterAck
    <3>1. Len(Tail(ackFifo)) = Len(ackFifo) - 1
      BY <2>0, <2>4 DEF WriterAck
    <3>2. ackFifo' = Tail(ackFifo) /\ doSend' = doSend - 1
      BY <2>4 DEF WriterAck, Wakes
    <3> QED BY <2>0, <3>1, <3>2 DEF AcksHaveWakeups
  <2>5. CASE WriterResend \/ WriterDrop \/ WriterNew \/ WriterNothing
    <3>1. ackFifo = <<>> /\ UNCHANGED ackFifo
      BY <2>5 DEF WriterResend, WriterDrop, WriterNew, WriterNothing, Resends, SendsNew
    <3>2. doSend > 0 /\ doSend' = doSend - 1
      BY <2>5 DEF WriterResend, WriterDrop, WriterNew, WriterNothing, Wakes
    <3> QED BY <2>0, <3>1, <3>2 DEF AcksHaveWakeups
  <2>6. Environment => UNCHANGED gsVars \/ (UNCHANGED ackFifo /\ doSend' = doSend + 1)
    BY DEF Environment, FcNew, GsNew, LoseToFC, LoseToGS
  <2>7. ComTx \/ ComRx => UNCHANGED gsVars
    BY DEF ComTx, ComRx, TxIdle, TxSend, TxAck, TxWrongAck, TxTimeout, FcReceive,
           FcReceiveBad
  <2>8. GsTimeout \/ GsModule \/ Save =>
            UNCHANGED ackFifo /\ (doSend' = doSend + 1 \/ UNCHANGED doSend)
    BY DEF GsTimeout, GsModule, Process, Route, Save
  <2>9. UNCHANGED vars => UNCHANGED gsVars
    BY DEF vars
  <2> QED
    BY <1>2, <2>1, <2>2, <2>3, <2>4, <2>5, <2>6, <2>7, <2>8, <2>9
    DEF Next, Threads, GsIo, GsWriter, Writer
<1> QED BY <1>1, <1>2, TypeCorrect, PTL DEF Spec

-----------------------------------------------------------------------------
(* A broadcast crosses the link three times.                               *)

\* How often a frame may have been sent, if it is a broadcast and if it is not.
Limit(f, bc, other) == IF f.dst = "BC" THEN bc ELSE other
Bound(q, bc, other) == \A i \in 1 .. Len(q) : q[i].hops <= Limit(q[i], bc, other)
BoundSet(S, bc, other) == \A f \in S : f.hops <= Limit(f, bc, other)

\* A broadcast has not been sent when ComTx gets it, once when it reaches the router
\* of the GS, twice when it comes back; then it is no broadcast any more.
HopInv ==
    /\ Bound(portQ, 0, 2) /\ BoundSet(sending, 1, 3) /\ Bound(toGS, 1, 3)
    /\ Bound(inbox, 1, 3) /\ Bound(outFifo, 1, 1) /\ Bound(ackFifo, 0, 0)
    /\ BoundSet(hand, 2, 2) /\ BoundSet(lastMsg, 2, 2) /\ Bound(toFC, 2, 2)

LEMMA BoundTail ==
    ASSUME NEW q \in Seq(Frame), q # <<>>, NEW bc, NEW other, Bound(q, bc, other)
    PROVE  /\ Head(q).hops <= Limit(Head(q), bc, other)
           /\ Bound(Tail(q), bc, other)
<1>1. Len(q) \in Nat \ {0} /\ Len(Tail(q)) = Len(q) - 1 /\ Head(q) = q[1]
  OBVIOUS
<1>2. \A i \in 1 .. Len(Tail(q)) : Tail(q)[i] = q[i + 1] /\ i + 1 \in 1 .. Len(q)
  BY <1>1
<1> QED BY <1>1, <1>2 DEF Bound

LEMMA BoundAppend ==
    ASSUME NEW q \in Seq(Frame), NEW f \in Frame, NEW bc, NEW other,
           Bound(q, bc, other), f.hops <= Limit(f, bc, other)
    PROVE  Bound(Append(q, f), bc, other)
<1>1. Len(q) \in Nat /\ Len(Append(q, f)) = Len(q) + 1
  OBVIOUS
<1>2. \A i \in 1 .. Len(q) : Append(q, f)[i] = q[i]
  OBVIOUS
<1>3. Append(q, f)[Len(q) + 1] = f
  OBVIOUS
<1> QED BY <1>1, <1>2, <1>3 DEF Bound

LEMMA BoundPut ==
    ASSUME NEW q \in Seq(Frame), NEW f \in Frame, NEW bc, NEW other, NEW n \in Nat,
           Bound(q, bc, other), f.hops <= Limit(f, bc, other)
    PROVE  Bound(Put(q, f, n), bc, other)
BY BoundAppend DEF Put

\* What is new has not been sent yet.
LEMMA NewHops ==
    /\ \A kind : Data(kind).hops = 0
    /\ \A nr, ok, dst : /\ Trans(nr, ok, dst).hops = 0
                        /\ Trans(nr, ok, dst).hops <= Limit(Trans(nr, ok, dst), 0, 0)
                        /\ Trans(nr, ok, dst).hops <= Limit(Trans(nr, ok, dst), 0, 2)
BY DEF Data, Trans, Limit

\* A number makes one hop more.
LEMMA NumberHops ==
    ASSUME NEW f \in Frame, NEW n
    PROVE  /\ FcNumber(f, n).hops = f.hops + 1 /\ FcNumber(f, n).dst = f.dst
           /\ GsNumber(f, n).hops = f.hops + 1 /\ GsNumber(f, n).dst = f.dst
BY DEF FcNumber, GsNumber, Frame

LEMMA RetargetHops ==
    ASSUME NEW f \in Frame
    PROVE  Retarget(f).hops = f.hops /\ Retarget(f).dst # "BC"
BY DEF Retarget, Frame

\* What the steps need to know of the types.
LEMMA QueueTypes ==
    ASSUME TypeOK
    PROVE  /\ portQ \in Seq(Frame) /\ sending \in SUBSET Frame /\ fcSeq \in Nat
           /\ toGS \in Seq(Frame) /\ toFC \in Seq(Frame) /\ inbox \in Seq(Frame)
           /\ outFifo \in Seq(Frame) /\ ackFifo \in Seq(Frame) /\ gsSeq \in Nat
           /\ hand \in SUBSET Frame /\ lastMsg \in SUBSET Frame
BY DEF TypeOK, FcType, WireType, GsType, Frames

LEMMA HopsNat == \A f \in Frame : f.hops \in Nat /\ f.nr \in Nat
BY DEF Frame

LEMMA HopsUntouched ==
    ASSUME HopInv, UNCHANGED <<portQ, sending, toGS, inbox, outFifo, ackFifo, hand,
                               lastMsg, toFC>>
    PROVE  HopInv'
BY DEF HopInv, Bound, BoundSet

LEMMA ComTxHops ==
    ASSUME TypeOK, HopInv, ComTx
    PROVE  HopInv'
<1>1. CASE TxIdle
  BY <1>1, HopsUntouched DEF TxIdle, gsVars, writeVars, wires
<1>2. CASE TxSend
  <2> DEFINE f == Head(portQ)
             n == IF f.type = "data" THEN fcSeq + 1 ELSE fcSeq
             g == IF f.type = "data" THEN FcNumber(f, n) ELSE f
  <2>1. /\ f \in Frame /\ f.hops <= Limit(f, 0, 2) /\ n \in Nat
        /\ Bound(Tail(portQ), 0, 2)
    <3>1. portQ \in Seq(Frame) /\ portQ # <<>> /\ fcSeq \in Nat
      BY <1>2, QueueTypes DEF TxSend
    <3> QED BY <3>1, TailType, BoundTail DEF HopInv
  <2>2. g \in Frame
    BY <2>1, Numbered
  <2>3. g.hops <= Limit(g, 1, 3)
    BY <2>1, NumberHops, HopsNat DEF Limit
  <2>4. portQ' = Tail(portQ) /\ toGS' = Append(toGS, g)
        /\ sending' = (IF g.ack THEN {g} ELSE {})
        /\ UNCHANGED <<inbox, outFifo, ackFifo, hand, lastMsg, toFC>>
    BY <1>2 DEF TxSend, gsVars, writeVars
  <2> HIDE DEF f, n, g
  <2>5. Bound(toGS', 1, 3)
    BY <2>2, <2>3, <2>4, QueueTypes, BoundAppend DEF HopInv
  <2>6. BoundSet(sending', 1, 3) /\ Bound(portQ', 0, 2)
    BY <2>1, <2>3, <2>4 DEF BoundSet
  <2> QED BY <2>4, <2>5, <2>6 DEF HopInv, Bound, BoundSet
<1>3. CASE TxAck
  BY <1>3 DEF TxAck, gsVars, writeVars, wires, HopInv, Bound, BoundSet
<1>4. ASSUME Retransmitt, UNCHANGED <<portQ, toFC, gsVars>>
      PROVE  HopInv'
  <2>1. PICK f \in sending :
          \/ sending' = {} /\ UNCHANGED toGS
          \/ toGS' = Append(toGS, f) /\ UNCHANGED sending
    BY <1>4 DEF Retransmitt
  <2>2. f \in Frame /\ f.hops <= Limit(f, 1, 3)
    BY QueueTypes DEF HopInv, BoundSet
  <2>3. Bound(toGS', 1, 3) /\ BoundSet(sending', 1, 3)
    BY <2>1, <2>2, QueueTypes, BoundAppend DEF HopInv, BoundSet
  <2> QED BY <1>4, <2>3 DEF HopInv, Bound, BoundSet, gsVars, writeVars
<1> QED BY <1>1, <1>2, <1>3, <1>4 DEF ComTx, TxWrongAck, TxTimeout

LEMMA ComRxHops ==
    ASSUME TypeOK, HopInv, ComRx
    PROVE  HopInv'
<1>0. EventLength \in Nat
  BY SerialLinkAssumption
<1>1. CASE FcReceive
  <2> DEFINE f == Head(toFC)
             g == Retarget(f)
             t == Trans(f.nr, TRUE, "GS")
             acked == IF f.ack THEN Put(portQ, t, EventLength) ELSE portQ
  <2>1. f \in Frame /\ f.hops <= 2 /\ Bound(Tail(toFC), 2, 2)
    <3>1. toFC \in Seq(Frame) /\ toFC # <<>>
      BY <1>1, QueueTypes DEF FcReceive
    <3>2. f \in Frame /\ f.hops <= Limit(f, 2, 2) /\ Bound(Tail(toFC), 2, 2)
      BY <3>1, TailType, BoundTail DEF HopInv
    <3> QED BY <3>2 DEF Limit
  <2>2. g \in Frame /\ t \in Frame
    BY <2>1, Retargeted, Answers, HopsNat
  <2>3. g.hops <= Limit(g, 0, 2)
    BY <2>1, RetargetHops DEF Limit
  <2>4. t.hops <= Limit(t, 0, 2)
    BY NewHops
  <2>5. /\ toFC' = Tail(toFC)
        /\ portQ' = (IF g.dst # "FC" THEN Put(acked, g, EventLength) ELSE acked)
        /\ UNCHANGED <<sending, toGS, inbox, outFifo, ackFifo, hand, lastMsg>>
    BY <1>1 DEF FcReceive, gsVars, writeVars
  <2> HIDE DEF f, g, t
  <2>6. acked \in Seq(Frame) /\ Bound(acked, 0, 2)
    <3>1. portQ \in Seq(Frame) /\ Len(portQ) <= EventLength /\ Bound(portQ, 0, 2)
      BY DEF TypeOK, FcType, Frames, HopInv
    <3> QED BY <1>0, <2>2, <2>4, <3>1, PutType, BoundPut
  <2> HIDE DEF acked
  <2>7. Bound(portQ', 0, 2)
    BY <1>0, <2>2, <2>3, <2>5, <2>6, BoundPut
  <2> QED BY <2>1, <2>5, <2>7 DEF HopInv, Bound, BoundSet
<1>2. CASE FcReceiveBad
  <2>1. Trans(0, FALSE, "GS") \in Frame
        /\ Trans(0, FALSE, "GS").hops <= Limit(Trans(0, FALSE, "GS"), 0, 2)
    BY Answers, NewHops
  <2>2. Bound(portQ', 0, 2)
    BY <1>0, <1>2, <2>1, QueueTypes, BoundPut DEF FcReceiveBad, HopInv
  <2>3. Bound(toFC', 2, 2)
    BY <1>2, QueueTypes, BoundTail DEF FcReceiveBad, HopInv
  <2>4. UNCHANGED <<sending, toGS, inbox, outFifo, ackFifo, hand, lastMsg>>
    BY <1>2 DEF FcReceiveBad, gsVars, writeVars
  <2> QED BY <2>2, <2>3, <2>4 DEF HopInv, Bound, BoundSet
<1> QED BY <1>1, <1>2 DEF ComRx

LEMMA GsIoHops ==
    ASSUME TypeOK, HopInv, GsIo
    PROVE  HopInv'
<1>1. CASE GsReceive
  <2> DEFINE f == Head(toGS)
             h == [f EXCEPT !.dst = "GS"]
             t == Trans(f.nr, TRUE, "FC")
  <2>1. f \in Frame /\ f.hops <= Limit(f, 1, 3) /\ Bound(Tail(toGS), 1, 3)
    BY <1>1, QueueTypes, TailType, BoundTail DEF GsReceive, HopInv
  <2>2. h \in Frame /\ h.hops <= Limit(h, 1, 3)
    BY <2>1, HopsNat DEF Limit, Frame
  <2>3. t \in Frame /\ t.hops <= Limit(t, 0, 0)
    BY <2>1, Answers, HopsNat, NewHops
  <2>4. Bound(inbox', 1, 3) /\ Bound(ackFifo', 0, 0)
    <3>1. inbox \in Seq(Frame) /\ ackFifo \in Seq(Frame)
          /\ Bound(inbox, 1, 3) /\ Bound(ackFifo, 0, 0)
      BY QueueTypes DEF HopInv
    <3>2. CASE ackFifo' = Append(ackFifo, t) /\ inbox' = Append(inbox, f)
      <4> HIDE DEF f, h, t
      <4> QED BY <2>1, <2>3, <3>1, <3>2, BoundAppend
    <3>3. CASE UNCHANGED ackFifo /\ inbox' = Append(inbox, IF f.dst = "BC" THEN h ELSE f)
      <4> HIDE DEF f, h, t
      <4> QED BY <2>1, <2>2, <3>1, <3>3, BoundAppend
    <3>4. CASE UNCHANGED <<ackFifo, inbox>>
      BY <3>1, <3>4
    <3> QED BY <1>1, <3>2, <3>3, <3>4 DEF GsReceive
  <2>5. /\ toGS' = Tail(toGS)
        /\ UNCHANGED <<portQ, sending, outFifo, hand, lastMsg, toFC>>
    BY <1>1 DEF GsReceive, fcVars, writeVars
  <2> QED BY <2>1, <2>4, <2>5 DEF HopInv, Bound, BoundSet
<1>2. CASE GsTimeout
  BY <1>2, HopsUntouched DEF GsTimeout, fcVars, writeVars, wires
<1> QED BY <1>1, <1>2 DEF GsIo

LEMMA GsModuleHops ==
    ASSUME TypeOK, HopInv, GsModule
    PROVE  HopInv'
<1>1. inbox # <<>> /\ inbox' = Tail(inbox)
      /\ UNCHANGED <<portQ, sending, toGS, ackFifo, hand, toFC>>
  BY DEF GsModule, Process, Route, fcVars, writeVars, wires
<1>2. /\ Head(inbox) \in Frame /\ Head(inbox).hops <= Limit(Head(inbox), 1, 3)
      /\ Bound(inbox', 1, 3)
  BY <1>1, QueueTypes, TailType, BoundTail DEF HopInv
<1>3. Bound(outFifo', 1, 1) /\ BoundSet(lastMsg', 2, 2)
  <2>1. CASE Process
    BY <2>1 DEF Process, HopInv, BoundSet, Bound
  <2>2. CASE Route
    <3>1. UNCHANGED lastMsg
          /\ \/ outFifo' = Append(outFifo, Head(inbox)) /\ Head(inbox).dst = "BC"
             \/ UNCHANGED outFifo
      BY <2>2 DEF Route
    <3>2. Head(inbox).dst = "BC" => Head(inbox).hops <= Limit(Head(inbox), 1, 1)
      BY <1>2 DEF Limit
    <3> QED BY <1>2, <3>1, <3>2, QueueTypes, BoundAppend DEF HopInv, BoundSet, Bound
  <2> QED BY <2>1, <2>2 DEF GsModule
<1> QED BY <1>1, <1>2, <1>3 DEF HopInv, Bound, BoundSet

LEMMA GsWriterHops ==
    ASSUME TypeOK, HopInv, GsWriter
    PROVE  HopInv'
<1>0. UNCHANGED <<portQ, sending, toGS, inbox>>
  BY DEF GsWriter, Writer, Save, fcVars, wires
<1>1. ASSUME NEW f \in Frame, f.hops <= 2, Write(f)
      PROVE  Bound(toFC', 2, 2) /\ BoundSet(hand', 2, 2)
  <2>1. f.hops <= Limit(f, 2, 2)
    BY <1>1 DEF Limit
  <2>2. Bound(toFC', 2, 2)
    BY <1>1, <2>1, QueueTypes, BoundAppend DEF Write, HopInv
  <2> QED BY <1>1, <2>1, <2>2 DEF Write, BoundSet
<1>2. CASE WriterAck
  <2>1. Head(ackFifo) \in Frame /\ Head(ackFifo).hops <= Limit(Head(ackFifo), 0, 0)
        /\ Bound(Tail(ackFifo), 0, 0)
    BY <1>2, QueueTypes, TailType, BoundTail DEF WriterAck, HopInv
  <2>2. Head(ackFifo).hops <= 2
    BY <2>1, HopsNat DEF Limit
  <2> QED BY <1>0, <1>1, <1>2, <2>1, <2>2 DEF WriterAck, HopInv, Bound, BoundSet
<1>3. CASE WriterResend
  <2>1. PICK f \in lastMsg : Write(f)
    BY <1>3 DEF WriterResend
  <2>2. f \in Frame /\ f.hops <= 2
    BY QueueTypes DEF HopInv, BoundSet, Limit
  <2> QED BY <1>0, <1>1, <1>3, <2>1, <2>2 DEF WriterResend, HopInv, Bound, BoundSet
<1>4. CASE WriterDrop
  BY <1>0, <1>4 DEF WriterDrop, HopInv, Bound, BoundSet
<1>5. CASE WriterNew
  <2> DEFINE f == Head(outFifo)
             g == GsNumber(f, gsSeq + 1)
  <2>1. f \in Frame /\ f.hops <= Limit(f, 1, 1) /\ Bound(Tail(outFifo), 1, 1)
    BY <1>5, QueueTypes, TailType, BoundTail DEF WriterNew, SendsNew, HopInv
  <2>2. gsSeq + 1 \in Nat
    BY QueueTypes
  <2>3. g \in Frame /\ g.hops <= 2
    <3>1. g \in Frame /\ g.hops = f.hops + 1
      BY <2>1, <2>2, Numbered, NumberHops
    <3>2. f.hops \in Nat /\ f.hops <= 1
      BY <2>1, HopsNat DEF Limit
    <3> HIDE DEF f, g
    <3> QED BY <3>1, <3>2
  <2>4. Write(g) /\ outFifo' = Tail(outFifo) /\ UNCHANGED <<ackFifo, lastMsg>>
    BY <1>5 DEF WriterNew
  <2> HIDE DEF g
  <2> QED BY <1>0, <1>1, <2>1, <2>3, <2>4 DEF HopInv, Bound, BoundSet
<1>6. CASE WriterNothing
  BY <1>0, <1>6, HopsUntouched DEF WriterNothing, writeVars
<1>7. CASE Save
  BY <1>0, <1>7 DEF Save, wires, HopInv, Bound, BoundSet
<1> QED BY <1>2, <1>3, <1>4, <1>5, <1>6, <1>7 DEF GsWriter, Writer

LEMMA EnvironmentHops ==
    ASSUME TypeOK, HopInv, Environment
    PROVE  HopInv'
<1>1. ASSUME NEW kind \in FcKinds, FcNew(kind)
      PROVE  HopInv'
  <2>1. Data(kind) \in Frame /\ Data(kind).hops <= Limit(Data(kind), 0, 2)
    BY NewFrames, NewHops, SerialLinkAssumption DEF Limit
  <2>2. Bound(portQ', 0, 2)
    BY <1>1, <2>1, QueueTypes, BoundPut, SerialLinkAssumption DEF FcNew, HopInv
  <2> QED BY <1>1, <2>2 DEF FcNew, gsVars, writeVars, wires, HopInv, Bound, BoundSet
<1>2. ASSUME NEW kind \in GsKinds, GsNew(kind)
      PROVE  HopInv'
  <2>1. Data(kind) \in Frame /\ Data(kind).hops <= Limit(Data(kind), 1, 1)
    BY NewFrames, NewHops, SerialLinkAssumption DEF Limit
  <2>2. Bound(outFifo', 1, 1)
    BY <1>2, <2>1, QueueTypes, BoundAppend DEF GsNew, HopInv
  <2> QED BY <1>2, <2>2 DEF GsNew, fcVars, writeVars, wires, HopInv, Bound, BoundSet
<1>3. CASE LoseToFC
  <2>1. Bound(toFC', 2, 2)
    BY <1>3, QueueTypes, BoundTail DEF LoseToFC, HopInv
  <2> QED BY <1>3, <2>1 DEF LoseToFC, fcVars, gsVars, writeVars, HopInv, Bound, BoundSet
<1>4. CASE LoseToGS
  <2>1. Bound(toGS', 1, 3)
    BY <1>4, QueueTypes, BoundTail DEF LoseToGS, HopInv
  <2> QED BY <1>4, <2>1 DEF LoseToGS, fcVars, gsVars, writeVars, HopInv, Bound, BoundSet
<1> QED BY <1>1, <1>2, <1>3, <1>4 DEF Environment

\* However long the queues are and however often messages are repeated, no message
\* crosses the link more than three times: the echo of a broadcast ends.
THEOREM EchoAlwaysEnds == Spec => []EchoEnds
<1>1. Init => HopInv
  BY DEF Init, HopInv, Bound, BoundSet
<1>2. ASSUME TypeOK, HopInv, [Next]_vars
      PROVE  HopInv'
  <2>1. CASE UNCHANGED vars
    BY <1>2, <2>1, HopsUntouched DEF vars, fcVars, gsVars, writeVars, wires
  <2> QED
    BY <1>2, <2>1, ComTxHops, ComRxHops, GsIoHops, GsModuleHops, GsWriterHops,
       EnvironmentHops DEF Next, Threads
<1>3. TypeOK /\ HopInv => EchoEnds
  <2> SUFFICES ASSUME TypeOK, HopInv, NEW i \in 1 .. Len(toGS)
               PROVE  toGS[i].hops <= 3
    BY DEF EchoEnds
  <2>1. toGS[i] \in Frame /\ toGS[i].hops <= Limit(toGS[i], 1, 3)
    BY QueueTypes DEF HopInv, Bound
  <2> QED BY <2>1, HopsNat DEF Limit
<1> QED BY <1>1, <1>2, <1>3, TypeCorrect, PTL DEF Spec

-----------------------------------------------------------------------------
(* An acknowledgement means received.                                      *)

\* No acknowledgement asks for one; what is numbered with n; an acknowledgement
\* of a message up to n, and what else comes from the ground station.
Sound       == {f \in Frame : f.type = "trans" => ~f.ack}
DataFrames  == {f \in Frame : f.type = "data"}
Numbers(n)  == {f \in DataFrames : f.nr = n /\ f.seq = n}
AcksUpTo(n) == {f \in Sound : f.type = "trans" /\ (f.ok => f.nr <= n)}
FromGs(n)   == DataFrames \cup AcksUpTo(n)

\* The messages on the wire come in the order of their numbers, none of them before
\* what the ground station has, none after what ComTx sent last.
InOrder(q, a, b) ==
    /\ \A i \in 1 .. Len(q) : q[i].type = "data" =>
          q[i].nr = q[i].seq /\ a <= q[i].seq /\ q[i].seq <= b
    /\ \A i, j \in 1 .. Len(q) : i < j /\ q[i].type = "data" /\ q[j].type = "data" =>
          q[i].seq <= q[j].seq

\* Until the numbers wrap every acknowledgement under way to ComTx is of a message
\* that the ground station has.
AckInv ==
    /\ portQ \in Seq(Sound) /\ sending \subseteq Numbers(fcSeq)
    /\ toGS \in Seq(Sound) /\ InOrder(toGS, gsGot, fcSeq) /\ gsGot <= fcSeq
    /\ ackFifo \in Seq(AcksUpTo(gsGot)) /\ toFC \in Seq(FromGs(gsGot))
    /\ fcEvq \in Seq(AcksUpTo(gsGot))
    /\ outFifo \in Seq(DataFrames) /\ hand \subseteq DataFrames /\ lastMsg \subseteq DataFrames

LEMMA SmallNumber == \A n, m \in Nat : n < m => n % m = n
OBVIOUS

LEMMA TailOf ==
    ASSUME NEW S, NEW q \in Seq(S), q # <<>>
    PROVE  Head(q) \in S /\ Tail(q) \in Seq(S)
OBVIOUS

LEMMA PutOf ==
    ASSUME NEW S, NEW q \in Seq(S), NEW f \in S, NEW n
    PROVE  Put(q, f, n) \in Seq(S)
BY DEF Put

LEMMA SeqGrows ==
    ASSUME NEW S, NEW T, S \subseteq T, NEW q \in Seq(S)
    PROVE  q \in Seq(T)
OBVIOUS

LEMMA Sets ==
    /\ DataFrames \subseteq Sound /\ DataFrames \subseteq Frame
    /\ \A n : FromGs(n) \subseteq Sound /\ AcksUpTo(n) \subseteq Sound
    /\ \A n, m \in Nat : n <= m => AcksUpTo(n) \subseteq AcksUpTo(m) /\ FromGs(n) \subseteq FromGs(m)
    /\ \A n : Numbers(n) \subseteq DataFrames
<1>1. \A f \in Frame : f.nr \in Nat
  BY HopsNat
<1> QED BY <1>1 DEF DataFrames, Sound, AcksUpTo, FromGs, Numbers

LEMMA NewSound ==
    /\ \A kind \in Kind : Data(kind) \in DataFrames
    /\ \A nr \in Nat, ok \in BOOLEAN, dst \in {"FC", "GS", "BC"} : Trans(nr, ok, dst) \in Sound
    /\ \A n \in Nat : \A nr \in 0 .. n : Trans(nr, TRUE, "FC") \in AcksUpTo(n)
<1>1. \A nr \in Nat, ok \in BOOLEAN, dst \in {"FC", "GS", "BC"} : Trans(nr, ok, dst) \in Sound
  BY NewFrames DEF Trans, Sound
<1>2. \A n \in Nat : \A nr \in 0 .. n : Trans(nr, TRUE, "FC") \in AcksUpTo(n)
  <2> SUFFICES ASSUME NEW n \in Nat, NEW nr \in 0 .. n
               PROVE  Trans(nr, TRUE, "FC") \in AcksUpTo(n)
    OBVIOUS
  <2>1. nr \in Nat /\ nr <= n
    OBVIOUS
  <2>2. Trans(nr, TRUE, "FC") \in Sound
    BY <1>1, <2>1
  <2> QED BY <2>1, <2>2 DEF Trans, AcksUpTo
<1> QED BY <1>1, <1>2, NewFrames DEF Data, DataFrames

LEMMA NumberKeeps ==
    ASSUME NEW f \in DataFrames, NEW n \in Nat
    PROVE  /\ FcNumber(f, n) \in DataFrames /\ GsNumber(f, n) \in DataFrames
           /\ FcNumber(f, n).nr = n % FcNrs /\ FcNumber(f, n).seq = n
<1>1. f \in Frame /\ f.type = "data"
  BY DEF DataFrames
<1>2. FcNumber(f, n) \in Frame /\ GsNumber(f, n) \in Frame
  BY <1>1, Numbered
<1> QED BY <1>1, <1>2 DEF FcNumber, GsNumber, DataFrames, Frame

\* A message from the wire.
LEMMA OrderTail ==
    ASSUME NEW q \in Seq(Sound), q # <<>>, NEW a \in Nat, NEW b \in Nat, InOrder(q, a, b)
    PROVE  /\ InOrder(Tail(q), a, b)
           /\ Head(q).type = "data" => /\ InOrder(Tail(q), Head(q).seq, b)
                                       /\ Head(q).nr = Head(q).seq
                                       /\ a <= Head(q).seq /\ Head(q).seq <= b
<1>1. /\ Len(q) \in Nat \ {0} /\ Len(Tail(q)) = Len(q) - 1 /\ Head(q) = q[1] /\ 1 \in 1 .. Len(q)
      /\ \A i \in 1 .. Len(Tail(q)) : Tail(q)[i] = q[i + 1] /\ i + 1 \in 1 .. Len(q) /\ 1 < i + 1
  OBVIOUS
<1> QED BY <1>1 DEF InOrder

\* The last message, or an acknowledgement, put on the wire.
LEMMA OrderAppend ==
    ASSUME NEW q \in Seq(Sound), NEW f \in Sound, NEW a \in Nat, NEW b \in Nat, NEW c \in Nat,
           b <= c, InOrder(q, a, b), a <= b, f.type = "data" => f.nr = c /\ f.seq = c
    PROVE  InOrder(Append(q, f), a, c)
<1> DEFINE r == Append(q, f)
<1>1. /\ Len(q) \in Nat /\ Len(r) = Len(q) + 1 /\ r[Len(q) + 1] = f
      /\ \A i \in 1 .. Len(q) : r[i] = q[i] /\ q[i].seq \in Nat
  BY SMTT(30) DEF Sound, Frame
<1>2. \A i \in 1 .. Len(r) : i \in 1 .. Len(q) \/ i = Len(q) + 1
  BY <1>1
<1> HIDE DEF r
<1>3. \A i \in 1 .. Len(r) : r[i].type = "data" =>
          r[i].nr = r[i].seq /\ a <= r[i].seq /\ r[i].seq <= c
  BY <1>1, <1>2 DEF InOrder
<1>4. ASSUME NEW i \in 1 .. Len(r), NEW j \in 1 .. Len(r), i < j, r[i].type = "data",
             r[j].type = "data"
      PROVE  r[i].seq <= r[j].seq
  <2>1. i \in 1 .. Len(q)
    BY <1>1, <1>4
  <2>2. CASE j \in 1 .. Len(q)
    BY <1>1, <1>4, <2>1, <2>2 DEF InOrder
  <2>3. CASE j = Len(q) + 1
    BY <1>1, <1>3, <1>4, <2>1, <2>3
  <2> QED BY <1>2, <2>2, <2>3
<1>5. InOrder(r, a, c)
  BY <1>3, <1>4 DEF InOrder
<1> QED BY <1>5 DEF r

LEMMA CountTypes ==
    ASSUME TypeOK
    PROVE  gsGot \in Nat /\ fcSeq \in Nat /\ FcNrs \in Nat \ {0}
BY SerialLinkAssumption DEF TypeOK, FcType, HistoryType

LEMMA ComTxAcks ==
    ASSUME TypeOK, AckInv, ComTx, fcSeq' < FcNrs
    PROVE  AckInv'
<1>0. /\ gsGot \in Nat /\ fcSeq \in Nat /\ gsGot' = gsGot
      /\ UNCHANGED <<ackFifo, toFC, outFifo, hand, lastMsg>>
  BY CountTypes DEF ComTx, TxIdle, TxSend, TxAck, TxWrongAck, TxTimeout, gsVars, writeVars, wires,
                    history
<1>1. fcEvq' \in Seq(AcksUpTo(gsGot))
  <2>1. UNCHANGED fcEvq \/ (fcEvq # <<>> /\ fcEvq' = Tail(fcEvq))
    BY DEF ComTx, TxIdle, TxSend, TxAck, TxWrongAck, TxTimeout
  <2> QED BY <2>1, TailOf DEF AckInv
<1>2. CASE TxIdle \/ TxAck
  BY <1>0, <1>1, <1>2 DEF TxIdle, TxAck, wires, AckInv
<1>3. CASE TxSend
  <2> DEFINE f == Head(portQ)
             n == IF f.type = "data" THEN fcSeq + 1 ELSE fcSeq
             g == IF f.type = "data" THEN FcNumber(f, n) ELSE f
  <2>1. f \in Sound /\ portQ' \in Seq(Sound) /\ f \in Frame
    BY <1>3, TailOf DEF TxSend, AckInv, Sound
  <2>2. /\ fcSeq' = n /\ toGS' = Append(toGS, g) /\ sending' = IF g.ack THEN {g} ELSE {}
    BY <1>3 DEF TxSend
  <2>3. f.type # "data" => f.type = "trans"
    BY <2>1 DEF Frame
  <2>4. n \in Nat /\ fcSeq <= n
    BY <1>0
  <2>5. f.type = "data" => g \in DataFrames /\ g.nr = n /\ g.seq = n
    <3>1. ASSUME f.type = "data" PROVE g \in DataFrames /\ g.nr = n % FcNrs /\ g.seq = n
      <4>1. f \in DataFrames
        BY <2>1, <3>1 DEF DataFrames
      <4> QED BY <2>4, <3>1, <4>1, NumberKeeps
    <3>2. n % FcNrs = n
      BY <2>2, <2>4, CountTypes, SmallNumber
    <3> QED BY <3>1, <3>2
  <2>6. f.type # "data" => g = f /\ ~g.ack
    BY <2>1, <2>3 DEF Sound
  <2>7. g \in Sound /\ (g.type = "data" => g.nr = n /\ g.seq = n)
    BY <2>1, <2>5, <2>6, Sets
  <2>8. sending' \subseteq Numbers(n)
    BY <2>2, <2>5, <2>6 DEF Numbers
  <2> HIDE DEF g, n
  <2>9. toGS' \in Seq(Sound) /\ InOrder(toGS', gsGot, n)
    BY <1>0, <2>2, <2>4, <2>7, OrderAppend DEF AckInv
  <2>10. gsGot <= n
    BY <1>0, <2>4 DEF AckInv
  <2> QED BY <1>0, <1>1, <2>1, <2>2, <2>8, <2>9, <2>10 DEF AckInv
<1>4. ASSUME Retransmitt, UNCHANGED <<portQ, fcSeq>>
      PROVE  AckInv'
  <2>1. PICK f \in sending :
          \/ sending' = {} /\ UNCHANGED toGS
          \/ toGS' = Append(toGS, f) /\ UNCHANGED sending
    BY <1>4 DEF Retransmitt
  <2>2. f \in Sound /\ f.nr = fcSeq /\ f.seq = fcSeq
    BY <2>1, Sets DEF AckInv, Numbers
  <2>3. toGS \in Seq(Sound) /\ InOrder(toGS, gsGot, fcSeq) /\ gsGot <= fcSeq /\ fcSeq <= fcSeq
    BY <1>0 DEF AckInv
  <2>4. Append(toGS, f) \in Seq(Sound) /\ InOrder(Append(toGS, f), gsGot, fcSeq)
    BY <1>0, <2>2, <2>3, OrderAppend
  <2>5. toGS' \in Seq(Sound) /\ InOrder(toGS', gsGot, fcSeq)
    BY <2>1, <2>3, <2>4
  <2>6. sending' \subseteq sending
    BY <2>1
  <2> QED BY <1>0, <1>1, <1>4, <2>5, <2>6 DEF AckInv
<1> QED BY <1>2, <1>3, <1>4 DEF ComTx, TxWrongAck, TxTimeout

LEMMA ComRxAcks ==
    ASSUME TypeOK, AckInv, ComRx
    PROVE  AckInv'
<1>0. /\ toFC # <<>> /\ toFC' = Tail(toFC)
      /\ UNCHANGED <<sending, fcSeq, toGS, gsGot, ackFifo, outFifo, hand, lastMsg>>
  BY DEF ComRx, FcReceive, FcReceiveBad, gsVars, writeVars, history
<1>1. toFC' \in Seq(FromGs(gsGot)) /\ Head(toFC) \in FromGs(gsGot)
  BY <1>0, TailOf DEF AckInv
<1> DEFINE f == Head(toFC)
           g == Retarget(f)
           t == Trans(f.nr, TRUE, "GS")
<1>2. f \in Sound /\ f \in Frame /\ g \in Sound /\ t \in Sound
  <2>1. f \in Sound /\ f \in Frame
    BY <1>1, Sets DEF Sound
  <2>2. t \in Sound
    BY <2>1, HopsNat, NewSound
  <2>3. Retarget(f) \in Frame /\ Retarget(f).type = f.type /\ Retarget(f).ack = f.ack
    BY <2>1, Retargeted DEF Retarget, Frame
  <2> QED BY <2>1, <2>2, <2>3 DEF Sound
<1> HIDE DEF g, t
<1>3. portQ' \in Seq(Sound) /\ fcEvq' \in Seq(AcksUpTo(gsGot))
  <2>1. CASE FcReceive
    <3>1. PICK acked : /\ acked = IF f.ack THEN Put(portQ, t, EventLength) ELSE portQ
                       /\ portQ' = IF g.dst # "FC" THEN Put(acked, g, EventLength) ELSE acked
                       /\ fcEvq' = IF f.type = "trans" THEN Put(fcEvq, f, EventLength) ELSE fcEvq
      BY <2>1 DEF FcReceive, g, t
    <3>2. acked \in Seq(Sound)
      BY <1>2, <3>1, PutOf DEF AckInv
    <3>3. portQ' \in Seq(Sound)
      BY <1>2, <3>1, <3>2, PutOf
    <3>4. fcEvq' \in Seq(AcksUpTo(gsGot))
      <4>1. f.type = "trans" => f \in AcksUpTo(gsGot)
        BY <1>1 DEF FromGs, DataFrames
      <4> QED BY <3>1, <4>1, PutOf DEF AckInv
    <3> QED BY <3>3, <3>4
  <2>2. CASE FcReceiveBad
    BY <2>2, NewSound, PutOf DEF FcReceiveBad, AckInv
  <2> QED BY <2>1, <2>2 DEF ComRx
<1> QED BY <1>0, <1>1, <1>3 DEF AckInv

LEMMA GsIoAcks ==
    ASSUME TypeOK, AckInv, GsIo
    PROVE  AckInv'
<1>0. gsGot \in Nat /\ fcSeq \in Nat
  BY CountTypes
<1>1. CASE GsReceive
  <2> DEFINE f == Head(toGS)
             t == Trans(f.nr, TRUE, "FC")
  <2>1. /\ toGS # <<>> /\ toGS' = Tail(toGS)
        /\ UNCHANGED <<portQ, fcEvq, sending, fcSeq, toFC, outFifo, hand, lastMsg>>
    BY <1>1 DEF GsReceive, fcVars, writeVars
  <2>2. f \in Sound /\ f \in Frame /\ toGS' \in Seq(Sound)
    BY <2>1, TailOf DEF AckInv, Sound
  <2>3. f.type \in {"data", "trans"} /\ f.nr \in Nat /\ f.seq \in Nat
    BY <2>2 DEF Frame
  <2>4. /\ InOrder(toGS', gsGot, fcSeq)
        /\ f.type = "data" => /\ InOrder(toGS', f.seq, fcSeq) /\ f.nr = f.seq
                              /\ gsGot <= f.seq /\ f.seq <= fcSeq
    BY <1>0, <2>1, OrderTail DEF AckInv
  <2>5. /\ gsGot' \in Nat /\ gsGot <= gsGot' /\ gsGot' <= fcSeq /\ InOrder(toGS', gsGot', fcSeq)
        /\ \/ UNCHANGED ackFifo
           \/ ackFifo' = Append(ackFifo, t) /\ f.nr \in 0 .. gsGot'
    <3>1. CASE f.ack
      <4>1. f.type = "data"
        BY <2>2, <2>3, <3>1 DEF Sound
      <4>2. \/ UNCHANGED <<ackFifo, gsGot>>
            \/ ackFifo' = Append(ackFifo, t) /\ gsGot' = f.seq
        BY <1>1, <3>1 DEF GsReceive
      <4>3. gsGot <= fcSeq
        BY DEF AckInv
      <4> HIDE DEF f, t
      <4> QED BY <1>0, <2>3, <2>4, <4>1, <4>2, <4>3
    <3>2. CASE ~f.ack
      <4>1. UNCHANGED ackFifo /\ gsGot' = IF f.type = "data" THEN f.seq ELSE gsGot
        BY <1>1, <3>2 DEF GsReceive
      <4> QED BY <1>0, <2>3, <2>4, <4>1 DEF AckInv
    <3> QED BY <3>1, <3>2
  <2>6. AcksUpTo(gsGot) \subseteq AcksUpTo(gsGot') /\ FromGs(gsGot) \subseteq FromGs(gsGot')
    BY <1>0, <2>5, Sets
  <2>7. /\ fcEvq \in Seq(AcksUpTo(gsGot')) /\ toFC \in Seq(FromGs(gsGot'))
        /\ ackFifo \in Seq(AcksUpTo(gsGot'))
    BY <2>6, SeqGrows DEF AckInv
  <2>8. ackFifo' \in Seq(AcksUpTo(gsGot'))
    <3>1. f.nr \in 0 .. gsGot' => t \in AcksUpTo(gsGot')
      BY <2>5, NewSound
    <3>2. PICK S : S = AcksUpTo(gsGot')
      OBVIOUS
    <3>3. ackFifo' = ackFifo \/ (ackFifo' = Append(ackFifo, t) /\ t \in S)
      BY <2>5, <3>1, <3>2
    <3> HIDE DEF t
    <3> QED BY <2>7, <3>2, <3>3
  <2> QED BY <2>1, <2>2, <2>5, <2>7, <2>8 DEF AckInv
<1>2. CASE GsTimeout
  BY <1>2 DEF GsTimeout, fcVars, writeVars, wires, history, AckInv
<1> QED BY <1>1, <1>2 DEF GsIo

LEMMA GsModuleAcks ==
    ASSUME TypeOK, AckInv, GsModule
    PROVE  AckInv'
<1>0. inbox # <<>> /\ UNCHANGED <<portQ, fcEvq, sending, fcSeq, toGS, toFC, gsGot, ackFifo, hand>>
  BY DEF GsModule, Process, Route, fcVars, writeVars, wires, history
<1>1. lastMsg' \subseteq DataFrames
  BY DEF GsModule, Process, Route, AckInv
<1>2. outFifo' \in Seq(DataFrames)
  <2>1. UNCHANGED outFifo \/ (Head(inbox).type = "data" /\ outFifo' = Append(outFifo, Head(inbox)))
    BY DEF GsModule, Process, Route
  <2>2. Head(inbox) \in Frame
    BY <1>0, QueueTypes, TailType
  <2>3. outFifo \in Seq(DataFrames)
    BY DEF AckInv
  <2>4. Head(inbox).type = "data" => Head(inbox) \in DataFrames
    BY <2>2 DEF DataFrames
  <2> QED BY <2>1, <2>3, <2>4
<1> QED BY <1>0, <1>1, <1>2 DEF AckInv

LEMMA GsWriterAcks ==
    ASSUME TypeOK, AckInv, GsWriter
    PROVE  AckInv'
<1>0. UNCHANGED <<portQ, fcEvq, sending, fcSeq, toGS, gsGot>>
  BY DEF GsWriter, Writer, Save, fcVars, wires, history
<1>1. ASSUME NEW f \in DataFrames, Write(f)
      PROVE  toFC' \in Seq(FromGs(gsGot)) /\ hand' \subseteq DataFrames
  BY <1>1 DEF Write, AckInv, FromGs
<1>2. CASE WriterAck
  <2>1. /\ Head(ackFifo) \in AcksUpTo(gsGot) /\ ackFifo' \in Seq(AcksUpTo(gsGot))
        /\ Write(Head(ackFifo)) /\ UNCHANGED <<outFifo, lastMsg>>
    BY <1>2, TailOf DEF WriterAck, AckInv
  <2>2. ~Head(ackFifo).ack
    BY <2>1 DEF AcksUpTo, Sound
  <2>3. toFC' \in Seq(FromGs(gsGot)) /\ hand' \subseteq DataFrames
    BY <2>1, <2>2 DEF Write, AckInv, FromGs
  <2> QED BY <1>0, <2>1, <2>3 DEF AckInv
<1>3. CASE WriterResend
  <2>1. PICK f \in lastMsg : Write(f)
    BY <1>3 DEF WriterResend
  <2>2. f \in DataFrames
    BY <2>1 DEF AckInv
  <2>3. lastMsg' = {} /\ UNCHANGED <<outFifo, ackFifo>>
    BY <1>3 DEF WriterResend
  <2> QED BY <1>0, <1>1, <2>1, <2>2, <2>3 DEF AckInv
<1>4. CASE WriterDrop
  BY <1>0, <1>4 DEF WriterDrop, AckInv
<1>5. CASE WriterNew
  <2>1. /\ Head(outFifo) \in DataFrames /\ outFifo' \in Seq(DataFrames)
        /\ Write(GsNumber(Head(outFifo), gsSeq + 1)) /\ UNCHANGED <<ackFifo, lastMsg>>
    BY <1>5, TailOf DEF WriterNew, SendsNew, AckInv
  <2>2. gsSeq + 1 \in Nat
    BY QueueTypes
  <2>3. GsNumber(Head(outFifo), gsSeq + 1) \in DataFrames
    BY <2>1, <2>2, NumberKeeps
  <2> QED BY <1>0, <1>1, <2>1, <2>3 DEF AckInv
<1>6. CASE WriterNothing
  BY <1>0, <1>6 DEF WriterNothing, writeVars, AckInv
<1>7. CASE Save
  BY <1>0, <1>7 DEF Save, wires, AckInv
<1> QED BY <1>2, <1>3, <1>4, <1>5, <1>6, <1>7 DEF GsWriter, Writer

LEMMA EnvironmentAcks ==
    ASSUME TypeOK, AckInv, Environment
    PROVE  AckInv'
<1>1. ASSUME NEW kind \in FcKinds, FcNew(kind)
      PROVE  AckInv'
  <2>1. Data(kind) \in Sound
    BY NewSound, Sets, SerialLinkAssumption
  <2>2. portQ' \in Seq(Sound)
    BY <1>1, <2>1, PutOf DEF FcNew, AckInv
  <2> QED BY <1>1, <2>2 DEF FcNew, gsVars, writeVars, wires, history, AckInv
<1>2. ASSUME NEW kind \in GsKinds, GsNew(kind)
      PROVE  AckInv'
  <2>1. Data(kind) \in DataFrames
    BY NewSound, SerialLinkAssumption
  <2>2. outFifo' \in Seq(DataFrames)
    BY <1>2, <2>1 DEF GsNew, AckInv
  <2> QED BY <1>2, <2>2 DEF GsNew, fcVars, writeVars, wires, history, AckInv
<1>3. CASE LoseToFC
  <2>1. toFC' \in Seq(FromGs(gsGot))
    BY <1>3, TailOf DEF LoseToFC, AckInv
  <2> QED BY <1>3, <2>1 DEF LoseToFC, fcVars, gsVars, writeVars, history, AckInv
<1>4. CASE LoseToGS
  <2>1. toGS' \in Seq(Sound) /\ InOrder(toGS', gsGot, fcSeq)
    BY <1>4, TailOf, OrderTail, CountTypes DEF LoseToGS, AckInv
  <2> QED BY <1>4, <2>1 DEF LoseToGS, fcVars, gsVars, writeVars, history, AckInv
<1> QED BY <1>1, <1>2, <1>3, <1>4 DEF Environment

\* The numbers of the messages of the FC have not begun again from zero.
Unwrapped == fcSeq < FcNrs

LEMMA AcksInvariant == Spec => [](Unwrapped => AckInv)
<1>1. Init => AckInv
  <2>1. \A S : <<>> \in Seq(S)
    OBVIOUS
  <2>2. InOrder(<<>>, 0, 0)
    BY DEF InOrder
  <2> QED BY <2>1, <2>2 DEF Init, AckInv
<1>2. ASSUME TypeOK, Unwrapped => AckInv, [Next]_vars, Unwrapped'
      PROVE  AckInv'
  <2>0. AckInv
    <3>1. fcSeq \in Nat /\ FcNrs \in Nat
      BY <1>2, CountTypes
    <3>3. fcSeq' < FcNrs
      BY <1>2 DEF Unwrapped
    <3>2. fcSeq' = fcSeq \/ fcSeq' = fcSeq + 1
      <4>1. TxSend => fcSeq' = fcSeq \/ fcSeq' = fcSeq + 1
        BY DEF TxSend
      <4>2. [Next]_vars /\ ~TxSend => fcSeq' = fcSeq
        BY DEF Next, Threads, ComTx, ComRx, GsIo, GsModule, GsWriter, Writer, Environment,
               TxIdle, TxAck, TxWrongAck, TxTimeout, FcReceive, FcReceiveBad, GsReceive,
               GsTimeout, Process, Route, Save, FcNew, GsNew, LoseToFC, LoseToGS, fcVars, vars
      <4> QED BY <1>2, <4>1, <4>2
    <3> QED BY <1>2, <3>1, <3>2, <3>3 DEF Unwrapped
  <2>1. CASE UNCHANGED vars
    BY <2>0, <2>1 DEF vars, fcVars, gsVars, writeVars, wires, history, AckInv
  <2> QED
    BY <1>2, <2>0, <2>1, ComTxAcks, ComRxAcks, GsIoAcks, GsModuleAcks, GsWriterAcks,
       EnvironmentAcks DEF Next, Threads, Unwrapped
<1> QED BY <1>1, <1>2, TypeCorrect, PTL DEF Spec

\* Until the numbers of its messages wrap, ComTx goes on from a message by an
\* acknowledgement only when the ground station has received it, whatever was lost,
\* damaged, sent again or answered late.
THEOREM AckAlwaysMeansReceived == Spec /\ []Unwrapped => AckMeansReceived
<1>1. ASSUME TypeOK, AckInv, Unwrapped, [Next]_vars
      PROVE  [\A f \in sending : sending' = {} /\ tries' = tries => gsGot >= f.seq]_vars
  <2> SUFFICES ASSUME Next, NEW f \in sending, sending' = {}, tries' = tries
               PROVE  gsGot >= f.seq
    BY <1>1
  <2>1. TxAck
    <3>1. ~Retransmitt
      BY <1>1 DEF Retransmitt, TypeOK, FcType
    <3> QED BY <3>1 DEF Next, Threads, ComTx, ComRx, GsIo, GsModule, GsWriter, Writer, Environment,
             TxIdle, TxSend, TxWrongAck, TxTimeout, FcReceive, FcReceiveBad, GsReceive,
             GsTimeout, Process, Route, Save, FcNew, GsNew, LoseToFC, LoseToGS, fcVars
  <2> DEFINE t == Head(fcEvq)
  <2>2. t \in AcksUpTo(gsGot) /\ t.nr = fcSeq % FcNrs /\ t.ok
    BY <1>1, <2>1, TailOf DEF TxAck, Acknowledges, AckInv
  <2>3. t.nr = fcSeq /\ f.seq = fcSeq
    BY <1>1, <2>2, CountTypes, SmallNumber DEF AckInv, Numbers, Unwrapped
  <2>4. t.nr <= gsGot
    BY <1>1, <2>1, <2>2 DEF AcksUpTo
  <2> QED BY <1>1, <2>3, <2>4, CountTypes
<1>2. Spec => []TypeOK /\ [](Unwrapped => AckInv)
  BY TypeCorrect, AcksInvariant
<1> QED BY <1>1, <1>2, PTL DEF Spec, AckMeansReceived

=============================================================================
