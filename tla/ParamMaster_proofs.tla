------------------------- MODULE ParamMaster_proofs -------------------------
(***************************************************************************)
(* Proofs about ParamMaster, for all handlers, trees, values and sizes of  *)
(* frames and of the memory.                                               *)
(***************************************************************************)
EXTENDS ParamMaster, TLAPS

-----------------------------------------------------------------------------
(* Sequences, pieces and messages.                                         *)

LEMMA TailType ==
    ASSUME NEW S, NEW q \in Seq(S), q # <<>>
    PROVE  Head(q) \in S /\ Tail(q) \in Seq(S)
OBVIOUS

LEMMA AppendType ==
    ASSUME NEW S, NEW q \in Seq(S), NEW m \in S
    PROVE  Append(q, m) \in Seq(S)
OBVIOUS

LEMMA AppendNotEmpty ==
    ASSUME NEW S, NEW q \in Seq(S), NEW m
    PROVE  Append(q, m) # <<>>
<1>1. q \in Seq(S \cup {m})
  OBVIOUS
<1>2. Len(Append(q, m)) = Len(q) + 1 /\ Len(q) \in Nat
  BY <1>1
<1>3. Len(<<>>) = 0
  OBVIOUS
<1> QED BY <1>2, <1>3

LEMMA FrontType ==
    ASSUME NEW S, NEW q \in Seq(S), q # <<>>
    PROVE  Front(q) \in Seq(S)
BY DEF Front

LEMMA PieceType ==
    /\ \A h \in Handlers : \A k \in 1 .. Pieces[h] : <<h, k>> \in Piece
    /\ \A p \in Piece : p[1] \in Handlers
BY DEF Piece

LEMMA Messages ==
    /\ \A c \in {"get", "save"} : Request(c) \in ToHandler
    /\ \A c \in {"get", "save", "load"} : Request(c) \in ToMaster
    /\ Request("set") \in Answer
    /\ \A ps \in SUBSET Piece, v \in Values :
          SetMsg(ps, v) \in ToHandler /\ SetMsg(ps, v) \in ToMaster
    /\ \A c \in {"get", "save"}, p \in Piece, v \in Values, last \in BOOLEAN :
          Dump(c, p, v, last) \in Answer
BY DEF Request, SetMsg, Dump, ToHandler, ToMaster, Answer

LEMMA Constants ==
    /\ MinFrame \in Nat /\ FrameMax \in Nat /\ Stop \in Nat \ {0}
    /\ MaxCommands \in Nat /\ MaxFaults \in Nat
    /\ Boundary # Blank /\ Boundary # Escape /\ Escape # Blank
    /\ Default \in Values
    /\ \A v \in Values : Size[v] \in Nat
    /\ \A h \in Handlers : Pieces[h] \in Nat \ {0}
    /\ OldSaves \subseteq Seq(Packet)
    /\ Torn \subseteq Nat
BY FrameAssumption, ParamAssumption

-----------------------------------------------------------------------------
(* Messages of a kind in a queue.                                          *)

\* Who is asked to dump, or has dumped, is known to the master.
Known == UnderWay("get") \/ UnderWay("save") => registered # <<>>

LEMMA HeadHolds ==
    ASSUME NEW S, NEW q \in Seq(S), NEW control, Awaits(q, control)
    PROVE  Holds(q, control)
<1>1. 1 \in DOMAIN q /\ q[1] = Head(q)
  BY DEF Awaits
<1> QED BY <1>1 DEF Awaits, Holds

LEMMA AppendHolds ==
    ASSUME NEW S, NEW q \in Seq(S), NEW m, NEW control
    PROVE  Holds(Append(q, m), control) <=> Holds(q, control) \/ m.control = control
<1>1. /\ DOMAIN q = 1 .. Len(q) /\ DOMAIN Append(q, m) = 1 .. Len(q) + 1 /\ Len(q) \in Nat
      /\ Append(q, m)[Len(q) + 1] = m
      /\ \A i \in 1 .. Len(q) : Append(q, m)[i] = q[i]
  OBVIOUS
<1> QED BY <1>1 DEF Holds

LEMMA TailHolds ==
    ASSUME NEW S, NEW q \in Seq(S), q # <<>>, NEW control
    PROVE  Holds(q, control) <=> Holds(Tail(q), control) \/ Head(q).control = control
<1>1. /\ DOMAIN q = 1 .. Len(q) /\ DOMAIN Tail(q) = 1 .. Len(q) - 1 /\ Len(q) \in Nat \ {0}
      /\ Head(q) = q[1]
      /\ \A i \in 1 .. Len(q) - 1 : Tail(q)[i] = q[i + 1]
  OBVIOUS
<1>2. \A i \in 1 .. Len(q) : i = 1 \/ i - 1 \in 1 .. Len(q) - 1
  BY <1>1
<1>3. ASSUME NEW i \in 1 .. Len(q), q[i].control = control
      PROVE  Holds(Tail(q), control) \/ Head(q).control = control
  <2>1. CASE i = 1
    BY <1>1, <1>3, <2>1
  <2>2. CASE i # 1
    <3>1. i - 1 \in 1 .. Len(q) - 1 /\ (i - 1) + 1 = i
      BY <1>2, <2>2
    <3>2. Tail(q)[i - 1] = q[i]
      BY <1>1, <3>1
    <3> QED BY <1>1, <1>3, <3>1, <3>2 DEF Holds
  <2> QED BY <2>1, <2>2
<1>4. ASSUME NEW i \in 1 .. Len(q) - 1, Tail(q)[i].control = control
      PROVE  Holds(q, control)
  <2>1. i + 1 \in 1 .. Len(q) /\ Tail(q)[i] = q[i + 1]
    BY <1>1
  <2> QED BY <1>1, <1>4, <2>1 DEF Holds
<1>5. Head(q).control = control => Holds(q, control)
  <2>1. 1 \in 1 .. Len(q)
    BY <1>1
  <2> QED BY <1>1, <2>1 DEF Holds
<1> QED BY <1>1, <1>3, <1>4, <1>5 DEF Holds

LEMMA FrontHolds ==
    ASSUME NEW S, NEW q \in Seq(S), q # <<>>, NEW control
    PROVE  Holds(Front(q), control) => Holds(q, control)
<1>1. DOMAIN q = 1 .. Len(q) /\ Len(q) \in Nat \ {0}
  OBVIOUS
<1>2. Front(q) = [i \in 1 .. Len(q) - 1 |-> q[i]]
  BY DEF Front
<1>3. 1 .. Len(q) - 1 \subseteq DOMAIN q
  BY <1>1
<1> QED BY <1>2, <1>3 DEF Holds

LEMMA EmptyHolds == \A control : ~Holds(<<>>, control)
BY DEF Holds

-----------------------------------------------------------------------------
(* Frames and the parser.                                                  *)

LEMMA FrameType ==
    ASSUME NEW p \in Packet, NEW n \in Nat
    PROVE  Frame(p, n) \in Seq(Cells) /\ Len(Frame(p, n)) = n + 2
<1>1. Data(p, n) \in Seq(Cells) /\ Len(Data(p, n)) = n
  BY DEF Data, Octets, Cells
<1>2. <<Boundary>> \in Seq(Cells)
  BY DEF Cells
<1> QED BY <1>1, <1>2 DEF Frame

LEMMA ParserType ==
    /\ NewParser \in Parsers /\ NewParser.cBuffer = <<>>
    /\ \A b \in BOOLEAN, payload \in Seq(Cells \ {Boundary}) :
          /\ Parser(b, payload, <<>>) \in Parsers
          /\ Parser(b, payload, <<>>).cBuffer = <<>>
    /\ Parser(FALSE, <<>>, <<Boundary>>) \in Parsers
    /\ Parser(FALSE, <<>>, <<Boundary>>).cBuffer = <<Boundary>>
    /\ \A b \in BOOLEAN : /\ Parser(b, <<>>, <<>>) \in Parsers
                          /\ Parser(b, <<>>, <<>>).cBuffer = <<>>
                          /\ Parser(b, <<>>, <<>>).payload = <<>>
                          /\ Parser(b, <<>>, <<>>).startFound = b
BY DEF NewParser, Parser, Parsers, Cells

\* What a call may return.
Returned(s) ==
    /\ s.parser \in Parsers
    /\ s.parser.cBuffer # <<>> => s.parser = Parser(FALSE, <<>>, <<Boundary>>)
    /\ s.result = "OK" => s.parser.cBuffer # <<>> /\ s.packet[1].of \in Packet

LEMMA NothingReturned ==
    ASSUME NEW p \in Parsers, p.cBuffer = <<>>, NEW result, result # "OK", NEW packet
    PROVE  Returned(Return(p, result, packet))
<1> DEFINE r == Return(p, result, packet)
<1>1. r.parser = p /\ r.result = result
  BY DEF Return
<1> HIDE DEF r
<1>2. Returned(r)
  BY <1>1 DEF Returned
<1> QED BY <1>2 DEF r

LEMMA PacketReturned ==
    ASSUME NEW packet, packet[1].of \in Packet
    PROVE  Returned(Return(Parser(FALSE, <<>>, <<Boundary>>), "OK", packet))
<1> DEFINE p == Parser(FALSE, <<>>, <<Boundary>>)
           r == Return(p, "OK", packet)
<1>1. p \in Parsers /\ p.cBuffer = <<Boundary>>
  BY ParserType
<1>2. <<Boundary>> # <<>>
  OBVIOUS
<1>3. r.parser = p /\ r.packet = packet
  <2> HIDE DEF p
  <2> QED BY DEF Return
<1>4. r.parser = Parser(FALSE, <<>>, <<Boundary>>)
  BY <1>3
<1> HIDE DEF r, p
<1>5. Returned(r)
  BY <1>1, <1>2, <1>3, <1>4 DEF Returned
<1> QED BY <1>5 DEF r, p

\* An octet of a call that had none in the buffer, or only the start of a frame.
LEMMA OctetType ==
    ASSUME NEW p \in Parsers, p.cBuffer = <<>>, NEW c \in Cells
    PROVE  Returned(Octet(Return(p, "Cont", <<>>), c))
<1> DEFINE s0 == Return(p, "Cont", <<>>)
           i  == Len(p.payload) + 1
           D  == Cells \ {Boundary}
           Goes == ~(i > FrameMax) /\ ~(Escaping(p) /\ ~Replaced(c))
<1>0. p.payload \in Seq(D) /\ p.startFound \in BOOLEAN
  BY DEF Parsers
<1>a. s0.parser = p /\ s0.result = "Cont" /\ s0.packet = <<>>
  BY DEF Return
<1>b. Reset(p) \in Parsers /\ Reset(p).cBuffer = <<>>
  <2>1. Reset(p) = Parser(FALSE, <<>>, <<>>)
    BY DEF Reset
  <2> QED BY <2>1, ParserType
<1>1. CASE i > FrameMax
  <2>1. Octet(s0, c) = Return(Reset(p), "LengthError", <<>>)
    BY <1>a, <1>1 DEF Octet
  <2> QED BY <2>1, <1>b, NothingReturned
<1>6. CASE ~(i > FrameMax) /\ Escaping(p) /\ ~Replaced(c)
  <2>1. Octet(s0, c) = Return(Reset(p), "EscapeError", <<>>)
    BY <1>a, <1>6 DEF Octet
  <2> QED BY <2>1, <1>b, NothingReturned
<1>2. CASE Goes /\ c = Boundary /\ ~Ends(p)
  <2>1. Octet(s0, c) = Return(Parser(TRUE, <<>>, <<>>), "Cont", <<>>)
    BY <1>a, <1>2 DEF Octet
  <2>2. Parser(TRUE, <<>>, <<>>) \in Parsers /\ Parser(TRUE, <<>>, <<>>).cBuffer = <<>>
    BY ParserType
  <2> QED BY <2>1, <2>2, NothingReturned
<1>3. CASE Goes /\ c = Boundary /\ Ends(p) /\ ~CrcOk(p.payload)
  <2>1. Octet(s0, c) = Return(Reset(p), "CrcError", <<>>)
    BY <1>a, <1>3 DEF Octet
  <2> QED BY <2>1, <1>b, NothingReturned
<1>4. CASE Goes /\ c = Boundary /\ Ends(p) /\ CrcOk(p.payload)
  <2>1. Octet(s0, c) = Finish(p)
    BY <1>a, <1>4 DEF Octet
  <2>2. Finish(p) = Return(Parser(FALSE, <<>>, <<Boundary>>), "OK", p.payload)
    <3>1. Append(p.cBuffer, Boundary) = <<Boundary>>
      OBVIOUS
    <3> QED BY <3>1 DEF Finish
  <2>3. Len(p.payload) > 0
    BY <1>0, <1>4, FrameAssumption DEF Ends
  <2>4. p.payload[1] \in D
    BY <1>0, <2>3
  <2>5. p.payload[1] \notin {Blank, Escape}
    BY <1>4 DEF CrcOk
  <2>6. p.payload[1] \in [of : Packet, nr : Nat, size : Nat]
    BY <2>4, <2>5 DEF Cells
  <2>7. p.payload[1].of \in Packet
    BY <2>6
  <2> QED BY <2>1, <2>2, <2>7, PacketReturned
<1>5. CASE Goes /\ c # Boundary
  <2>1. Octet(s0, c) = Return(Parser(p.startFound, Append(p.payload, c), <<>>), "Cont", <<>>)
    BY <1>a, <1>5 DEF Octet
  <2>2. Append(p.payload, c) \in Seq(D)
    BY <1>0, <1>5
  <2>3. /\ Parser(p.startFound, Append(p.payload, c), <<>>) \in Parsers
        /\ Parser(p.startFound, Append(p.payload, c), <<>>).cBuffer = <<>>
    BY <2>2, <1>0, ParserType
  <2> QED BY <2>1, <2>3, NothingReturned
<1> QED BY <1>1, <1>2, <1>3, <1>4, <1>5, <1>6

LEMMA ParseType ==
    ASSUME NEW p \in Parsers, NEW c \in Cells,
           p.cBuffer # <<>> => p = Parser(FALSE, <<>>, <<Boundary>>)
    PROVE  Returned(Parse(p, c))
<1>1. CASE p.cBuffer = <<>>
  <2>1. Parser(p.startFound, p.payload, <<>>) = p
    BY <1>1 DEF Parsers, Parser
  <2>2. Parse(p, c) = Octet(Return(p, "Cont", <<>>), c)
    BY <1>1, <2>1 DEF Parse
  <2> QED BY <1>1, <2>2, OctetType
<1>2. CASE p.cBuffer # <<>>
  <2> DEFINE begun == Parser(TRUE, <<>>, <<>>)
             fresh == Parser(FALSE, <<>>, <<>>)
             s0    == Return(fresh, "Cont", <<>>)
  <2>0. p = Parser(FALSE, <<>>, <<Boundary>>)
    BY <1>2
  <2>1. Parser(p.startFound, p.payload, <<>>) = fresh
    BY <2>0 DEF Parser
  <2>2. Octet(s0, Boundary) = Return(begun, "Cont", <<>>)
    <3>1. s0.parser = fresh /\ s0.result = "Cont" /\ s0.packet = <<>>
      BY DEF Return
    <3>2. fresh.payload = <<>> /\ fresh.startFound = FALSE /\ fresh.cBuffer = <<>>
      BY ParserType
    <3>3. ~(Len(fresh.payload) + 1 > FrameMax)
      <4> HIDE DEF fresh
      <4>1. Len(fresh.payload) = 0
        BY <3>2
      <4> QED BY <4>1, FrameAssumption
    <3>4. ~Ends(fresh)
      BY <3>2 DEF Ends
    <3>5. ~Escaping(fresh)
      BY <3>2 DEF Escaping
    <3> HIDE DEF s0, fresh
    <3> QED BY <3>1, <3>2, <3>3, <3>4, <3>5 DEF Octet
  <2>3. Head(p.cBuffer) = Boundary
    <3>1. p.cBuffer = <<Boundary>>
      BY <2>0, ParserType
    <3> QED BY <3>1
  <2>4. Parse(p, c) = Octet(Return(begun, "Cont", <<>>), c)
    BY <1>2, <2>1, <2>2, <2>3 DEF Parse
  <2>5. begun \in Parsers /\ begun.cBuffer = <<>>
    BY ParserType
  <2> QED BY <2>4, <2>5, OctetType
<1> QED BY <1>1, <1>2

-----------------------------------------------------------------------------
(* Type correctness.                                                       *)

LEMMA Same ==
    /\ QueuesOK /\ UNCHANGED <<toMaster, box, inbox, toGs>> => QueuesOK'
    /\ MasterOK /\ UNCHANGED <<registered, masterVars>> => MasterOK'
    /\ LoadOK /\ UNCHANGED loadVars => LoadOK'
    /\ MemoryOK /\ UNCHANGED memoryVars => MemoryOK'
    /\ TreesOK /\ UNCHANGED handlerVars => TreesOK'
    /\ GsOK /\ UNCHANGED gsVars => GsOK'
    /\ CountsOK /\ UNCHANGED <<boundVars, histVars>> => CountsOK'
<1>1. QueuesOK /\ UNCHANGED <<toMaster, box, inbox, toGs>> => QueuesOK'
  BY DEF QueuesOK
<1>2. MasterOK /\ UNCHANGED <<registered, masterVars>> => MasterOK'
  BY DEF MasterOK, masterVars
<1>3. LoadOK /\ UNCHANGED loadVars => LoadOK'
  BY DEF LoadOK, loadVars
<1>4. MemoryOK /\ UNCHANGED memoryVars => MemoryOK'
  BY DEF MemoryOK, memoryVars
<1>5. TreesOK /\ UNCHANGED handlerVars => TreesOK'
  BY DEF TreesOK, handlerVars
<1>6. GsOK /\ UNCHANGED gsVars => GsOK'
  BY DEF GsOK, gsVars
<1>7. CountsOK /\ UNCHANGED <<boundVars, histVars>> => CountsOK'
  BY DEF CountsOK, boundVars, histVars
<1> QED BY <1>1, <1>2, <1>3, <1>4, <1>5, <1>6, <1>7

LEMMA BoxAppend ==
    ASSUME NEW b \in [Handlers -> Seq(ToHandler)], NEW h \in Handlers, NEW m \in ToHandler
    PROVE  [b EXCEPT ![h] = Append(@, m)] \in [Handlers -> Seq(ToHandler)]
<1>1. Append(b[h], m) \in Seq(ToHandler)
  OBVIOUS
<1> QED BY <1>1

LEMMA BoxTail ==
    ASSUME NEW b \in [Handlers -> Seq(ToHandler)], NEW h \in Handlers, b[h] # <<>>
    PROVE  [b EXCEPT ![h] = Tail(@)] \in [Handlers -> Seq(ToHandler)]
<1>1. Tail(b[h]) \in Seq(ToHandler)
  OBVIOUS
<1> QED BY <1>1

LEMMA MemoryOfType ==
    ASSUME NEW s \in OldSaves
    PROVE  MemoryOf(s) \in [0 .. Stop - 1 -> Cells]
<1> DEFINE n    == Size[s[1].value]
           I(a) == (a \div (n + 3)) + 1
           K(a) == (a % (n + 3)) + 1
           cell(a) == IF s = <<>> THEN Blank
                      ELSE IF I(a) \in DOMAIN s /\ K(a) \in 1 .. n + 2
                           THEN Frame(s[I(a)], n)[K(a)] ELSE Blank
<1>1. MemoryOf(s) = [a \in 0 .. Stop - 1 |-> cell(a)]
  BY DEF MemoryOf
<1>2. ASSUME NEW a \in 0 .. Stop - 1, s # <<>>, I(a) \in DOMAIN s, K(a) \in 1 .. n + 2
      PROVE  Frame(s[I(a)], n)[K(a)] \in Cells
  <2> HIDE DEF I, K
  <2>1. s \in Seq(Packet)
    BY Constants
  <2>2. s[1] \in Packet /\ s[I(a)] \in Packet
    BY <1>2, <2>1
  <2>3. n \in Nat
    BY <2>2, Constants DEF Packet
  <2> HIDE DEF n
  <2>4. Frame(s[I(a)], n) \in Seq(Cells) /\ Len(Frame(s[I(a)], n)) = n + 2
    BY <2>2, <2>3, FrameType
  <2> QED BY <1>2, <2>4
<1>3. Blank \in Cells
  BY DEF Cells
<1>4. \A a \in 0 .. Stop - 1 : cell(a) \in Cells
  <2> HIDE DEF I, K, n
  <2> QED BY <1>2, <1>3
<1> HIDE DEF cell
<1> QED BY <1>1, <1>4

LEMMA InitType == Init => TypeOK
<1> SUFFICES ASSUME Init PROVE TypeOK
  OBVIOUS
<1>1. QueuesOK
  <2>1. Request("load") \in ToMaster
    BY Messages
  <2> QED BY <2>1 DEF Init, QueuesOK
<1>2. MasterOK
  <2>1. busy \in BOOLEAN
    BY DEF Init
  <2>2. setAddress \in 0 .. Stop
    BY Constants DEF Init
  <2> QED BY <2>1, <2>2 DEF Init, MasterOK
<1>3. LoadOK
  BY ParserType DEF Init, LoadOK, NoLoad
<1>4. MemoryOK
  <2>1. PICK s \in OldSaves :
          \/ memory = MemoryOf(s) /\ saved = s /\ whole = (s # <<>>)
          \/ /\ \E n \in Torn : memory = [a \in 0 .. Stop - 1 |->
                                               IF a < n THEN MemoryOf(s)[a] ELSE Blank]
             /\ saved = <<>> /\ whole = FALSE
    BY DEF Init
  <2>2. MemoryOf(s) \in [0 .. Stop - 1 -> Cells] /\ Blank \in Cells
    BY MemoryOfType DEF Cells
  <2>3. memory \in [0 .. Stop - 1 -> Cells]
    BY <2>1, <2>2
  <2>4. saved \in Seq(Packet)
    BY <2>1, Constants
  <2>5. whole \in BOOLEAN
    BY <2>1
  <2> QED BY <2>3, <2>4, <2>5 DEF MemoryOK
<1>5. TreesOK
  BY Constants DEF Init, TreesOK
<1>6. GsOK
  BY DEF Init, GsOK
<1>7. CountsOK
  <2>1. commands \in 0 .. MaxCommands /\ restarts \in Nat /\ lost \in Nat
    BY Constants DEF Init
  <2>2. cut \in BOOLEAN /\ early \in BOOLEAN /\ refused \in BOOLEAN
    BY DEF Init
  <2> QED BY <2>1, <2>2 DEF CountsOK
<1> QED BY <1>1, <1>2, <1>3, <1>4, <1>5, <1>6, <1>7 DEF TypeOK

\* An action that leaves most of the state alone needs a word about the rest only.
LEMMA RefusedType ==
    ASSUME TypeOK, HandleRefused
    PROVE  TypeOK'
<1>1. QueuesOK'
  <2>1. toMaster' \in Seq(ToMaster)
    BY TailType DEF TypeOK, QueuesOK, HandleRefused
  <2> QED BY <2>1 DEF TypeOK, QueuesOK, HandleRefused
<1>2. CountsOK'
  <2>1. refused' \in BOOLEAN
    BY DEF HandleRefused
  <2> QED BY <2>1 DEF TypeOK, CountsOK, HandleRefused, boundVars
<1> QED BY <1>1, <1>2, Same DEF TypeOK, HandleRefused

LEMMA AcceptType ==
    ASSUME TypeOK, NEW control, Accept(control)
    PROVE  /\ toMaster' \in Seq(ToMaster)
           /\ Head(toMaster) \in ToMaster /\ Head(toMaster).control = control
BY TailType DEF TypeOK, QueuesOK, Accept, Awaits

LEMMA ParamSetType ==
    ASSUME TypeOK, HandleParamSet
    PROVE  TypeOK'
<1>1. QueuesOK'
  <2>1. toMaster' \in Seq(ToMaster) /\ Head(toMaster) \in ToMaster
        /\ Head(toMaster).control = "set"
    BY AcceptType DEF HandleParamSet
  <2>2. Head(toMaster) \in ToHandler
    BY <2>1 DEF ToMaster, ToHandler
  <2>3. \A h \in Handlers : /\ box[h] \in Seq(ToHandler)
                            /\ Append(box[h], Head(toMaster)) \in Seq(ToHandler)
    BY <2>2, AppendType DEF TypeOK, QueuesOK
  <2>4. box' \in [Handlers -> Seq(ToHandler)]
    BY <2>3 DEF HandleParamSet
  <2> QED BY <2>1, <2>4 DEF TypeOK, QueuesOK, HandleParamSet
<1> QED BY <1>1, Same DEF TypeOK, HandleParamSet

LEMMA LoadStartType ==
    ASSUME TypeOK, HandleLoad
    PROVE  TypeOK'
<1>1. QueuesOK'
  BY AcceptType DEF TypeOK, QueuesOK, HandleLoad
<1>2. MasterOK'
  <2>1. busy' \in BOOLEAN
    BY DEF HandleLoad
  <2> QED BY <2>1 DEF TypeOK, MasterOK, HandleLoad
<1>3. LoadOK'
  <2> DEFINE b == parser.startFound \/ parser.payload # <<>>
  <2>1. b \in BOOLEAN
    BY DEF TypeOK, LoadOK, Parsers
  <2>2. load' = [NoLoad EXCEPT !.on = TRUE, !.stale = b]
    BY DEF HandleLoad
  <2> HIDE DEF b
  <2>3. load' = [on |-> TRUE, address |-> 0, start |-> 0, expected |-> 0, stale |-> b]
    BY <2>2 DEF NoLoad
  <2>4. load' \in [on : BOOLEAN, address : Nat, start : Nat, expected : Nat, stale : BOOLEAN]
    BY <2>1, <2>3
  <2>5. outcome' = "none" /\ parser' = parser
    BY DEF HandleLoad
  <2> QED BY <2>4, <2>5 DEF TypeOK, LoadOK
<1> QED BY <1>1, <1>2, <1>3, Same DEF TypeOK, HandleLoad

LEMMA StartType ==
    ASSUME TypeOK, NEW control \in {"get", "save"}, NEW at \in Nat, StartDump(control, at)
    PROVE  TypeOK'
<1>1. QueuesOK'
  <2>1. CASE at < Len(registered)
    <3>1. registered[at + 1] \in Handlers
      BY <2>1 DEF TypeOK, MasterOK
    <3>2. box' = [box EXCEPT ![registered[at + 1]] = Append(@, Request(control))]
      BY <2>1 DEF StartDump, Ask
    <3>3. box' \in [Handlers -> Seq(ToHandler)]
      BY <3>1, <3>2, BoxAppend, Messages DEF TypeOK, QueuesOK
    <3> QED BY <3>3, AcceptType DEF TypeOK, QueuesOK, StartDump
  <2>2. CASE ~(at < Len(registered))
    BY <2>2, AcceptType DEF TypeOK, QueuesOK, StartDump
  <2> QED BY <2>1, <2>2
<1>2. MasterOK'
  <2>1. busy' \in BOOLEAN
    BY DEF StartDump
  <2> QED BY <2>1 DEF TypeOK, MasterOK, StartDump
<1>3. CountsOK'
  <2>1. early' \in BOOLEAN
    BY DEF StartDump
  <2> QED BY <2>1 DEF TypeOK, CountsOK, StartDump, boundVars
<1> QED BY <1>1, <1>2, <1>3, Same DEF TypeOK, StartDump

\* What the loop reads is a cell, so what it parses is as the parser's lemmas say.
LEMMA ParsedType ==
    ASSUME TypeOK, ParserBetweenLoads, load.on
    PROVE  Returned(Parsed)
<1>1. load.address \in Nat /\ parser \in Parsers /\ memory \in [0 .. Stop - 1 -> Cells]
  BY DEF TypeOK, LoadOK, MemoryOK
<1>2. Cell(load.address) \in Cells
  <2>1. Blank \in Cells
    BY DEF Cells
  <2> QED BY <1>1, <2>1, Constants DEF Cell
<1>3. parser.cBuffer # <<>> => parser = Parser(FALSE, <<>>, <<Boundary>>)
  BY DEF ParserBetweenLoads
<1> QED BY <1>1, <1>2, <1>3, ParseType DEF Parsed

LEMMA LoadRecord ==
    ASSUME NEW on \in BOOLEAN, NEW a \in Nat, NEW b \in Nat, NEW e \in Nat, NEW stale \in BOOLEAN
    PROVE  [on |-> on, address |-> a, start |-> b, expected |-> e, stale |-> stale]
              \in [on : BOOLEAN, address : Nat, start : Nat, expected : Nat, stale : BOOLEAN]
OBVIOUS

LEMMA LoadSteps ==
    ASSUME TypeOK, load' = [load EXCEPT !.address = @ + 1]
                \/ load' = [load EXCEPT !.address = @ + 1, !.start = load.address + 1,
                                        !.expected = @ + 1]
                \/ load' = NoLoad
    PROVE  load' \in [on : BOOLEAN, address : Nat, start : Nat, expected : Nat, stale : BOOLEAN]
<1> DEFINE L == [on : BOOLEAN, address : Nat, start : Nat, expected : Nat, stale : BOOLEAN]
<1>1. load \in L
  BY DEF TypeOK, LoadOK
<1>2. \A l \in L : [l EXCEPT !.address = @ + 1] \in L
  OBVIOUS
<1>3. \A l \in L : \A a \in Nat : [l EXCEPT !.start = a] \in L
  OBVIOUS
<1>4. \A l \in L : [l EXCEPT !.expected = @ + 1] \in L
  OBVIOUS
<1>5. ASSUME load' = [load EXCEPT !.address = @ + 1, !.start = load.address + 1,
                                  !.expected = @ + 1]
      PROVE  load' \in L
  <2> DEFINE l1 == [load EXCEPT !.address = @ + 1]
             l2 == [l1 EXCEPT !.start = load.address + 1]
  <2>1. l1 \in L /\ load.address + 1 \in Nat
    BY <1>1, <1>2
  <2>2. l2 \in L
    BY <2>1, <1>3
  <2>3. load' = [l2 EXCEPT !.expected = @ + 1]
    BY <1>5
  <2> HIDE DEF l1, l2, L
  <2> QED BY <2>2, <2>3, <1>4
<1>6. NoLoad \in L
  BY DEF NoLoad
<1> HIDE DEF L
<1>7. load' \in L
  BY <1>1, <1>2, <1>5, <1>6
<1> QED BY <1>7 DEF L

LEMMA LoaderType ==
    ASSUME TypeOK, ParserBetweenLoads, Loader
    PROVE  TypeOK'
<1> USE DEF Loader
<1>1. LoadUnchanged /\ load.on
  BY DEF LoadMore, LoadPacket, LoadFails
<1>2. Returned(Parsed)
  BY <1>1, ParsedType
<1>3. LoadOK'
  <2>1. parser' \in Parsers
    BY <1>2 DEF Returned, LoadMore, LoadPacket, LoadFails, TypeOK, LoadOK
  <2>2. outcome' \in {"none", "loaded", "fault"}
    BY DEF LoadMore, LoadPacket, LoadFails, TypeOK, LoadOK
  <2>3. \/ load' = [load EXCEPT !.address = @ + 1]
        \/ load' = [load EXCEPT !.address = @ + 1, !.start = load.address + 1,
                                !.expected = @ + 1]
        \/ load' = NoLoad
    BY DEF LoadMore, LoadPacket, LoadFails
  <2> QED BY <2>1, <2>2, <2>3, LoadSteps DEF LoadOK
<1>4. box' \in [Handlers -> Seq(ToHandler)]
  <2>1. CASE LoadPacket
    <3>1. Taken \in Packet
      BY <1>2, <2>1 DEF LoadPacket, Returned, Taken
    <3>2. Taken.piece \in Piece /\ Taken.value \in Values
      BY <3>1 DEF Packet
    <3>3. Taken.piece[1] \in Handlers
      BY <3>2, PieceType
    <3>4. SetMsg({Taken.piece}, Taken.value) \in ToHandler
      BY <3>2, Messages
    <3>5. box' = [box EXCEPT ![Taken.piece[1]] =
                                 Append(@, SetMsg({Taken.piece}, Taken.value))]
      BY <2>1 DEF LoadPacket
    <3> QED BY <3>3, <3>4, <3>5, BoxAppend DEF TypeOK, QueuesOK
  <2>2. CASE LoadMore \/ LoadFails
    BY <2>2 DEF LoadMore, LoadFails, TypeOK, QueuesOK
  <2> QED BY <2>1, <2>2
<1>5. QueuesOK'
  BY <1>1, <1>4 DEF TypeOK, QueuesOK, LoadUnchanged
<1>6. MasterOK'
  <2>1. busy' \in BOOLEAN
    BY DEF LoadMore, LoadPacket, LoadFails, TypeOK, MasterOK
  <2> QED BY <1>1, <2>1 DEF TypeOK, MasterOK, LoadUnchanged
<1> QED BY <1>1, <1>3, <1>5, <1>6, Same DEF TypeOK, LoadUnchanged

LEMMA HasParamType ==
    ASSUME TypeOK, NEW h \in Handlers, HandleHasParam(h)
    PROVE  TypeOK'
<1>1. MasterOK'
  <2>1. registered' \in Seq(Handlers) /\ Len(registered') = Len(registered) + 1
        /\ Len(registered) \in Nat
    BY DEF TypeOK, MasterOK, HandleHasParam
  <2>2. UNCHANGED masterVars
    BY DEF HandleHasParam
  <2> QED BY <2>1, <2>2 DEF TypeOK, MasterOK, masterVars
<1> QED BY <1>1, Same DEF TypeOK, HandleHasParam

LEMMA AnsweredType ==
    ASSUME TypeOK, NEW control, Answered(control)
    PROVE  /\ inbox' \in Seq(Answer)
           /\ Head(inbox) \in Answer /\ Head(inbox).control = control
           /\ control # "set" =>
                 /\ Head(inbox).piece \in Piece /\ Head(inbox).value \in Values
                 /\ Head(inbox).last \in BOOLEAN
<1>1. inbox' \in Seq(Answer) /\ Head(inbox) \in Answer /\ Head(inbox).control = control
  BY TailType DEF TypeOK, QueuesOK, Answered, Awaits
<1> QED BY <1>1 DEF Answer

LEMMA CleanUpType == CleanUp /\ MasterOK /\ UNCHANGED <<registered, currentlyGetting, sequenceGet>>
                     => MasterOK'
<1> SUFFICES ASSUME CleanUp, MasterOK, UNCHANGED <<registered, currentlyGetting, sequenceGet>>
             PROVE  MasterOK'
  OBVIOUS
<1>1. busy' \in BOOLEAN
  BY DEF CleanUp
<1>2. setAddress' \in 0 .. Stop
  BY Constants DEF CleanUp
<1> QED BY <1>1, <1>2 DEF CleanUp, MasterOK

LEMMA FcSetType ==
    ASSUME TypeOK, HandleFcSet
    PROVE  TypeOK'
<1>1. QueuesOK'
  BY AnsweredType DEF TypeOK, QueuesOK, HandleFcSet
<1>2. MasterOK'
  BY CleanUpType DEF TypeOK, HandleFcSet
<1>3. CountsOK'
  <2>1. cut' \in BOOLEAN
    BY DEF HandleFcSet
  <2> QED BY <2>1 DEF TypeOK, CountsOK, HandleFcSet, boundVars
<1> QED BY <1>1, <1>2, <1>3, Same DEF TypeOK, HandleFcSet

\* The index of the next handler is one that the master knows.
LEMMA NextHandlerType ==
    ASSUME registered \in Seq(Handlers), NEW at \in Nat, at < Len(registered) \/ at = 0,
           NEW m \in Answer
    PROVE  LET n == NextHandler(m, at)
           IN  /\ n \in Nat /\ (n < Len(registered) \/ n = 0)
               /\ ~LastOfAll(m, at) /\ registered # <<>> => registered[n + 1] \in Handlers
<1>1. Len(registered) \in Nat
  OBVIOUS
<1>2. registered # <<>> => Len(registered) > 0
  OBVIOUS
<1>3. \A n \in Nat : n < Len(registered) => registered[n + 1] \in Handlers
  OBVIOUS
<1>4. CASE LastOfAll(m, at)
  BY <1>4 DEF NextHandler
<1>5. CASE ~LastOfAll(m, at) /\ m.last
  <2>1. at + 1 < Len(registered)
    BY <1>1, <1>5 DEF LastOfAll
  <2>2. NextHandler(m, at) = at + 1
    BY <1>5 DEF NextHandler
  <2> QED BY <2>1, <2>2, <1>3
<1>6. CASE ~LastOfAll(m, at) /\ ~m.last
  <2>1. NextHandler(m, at) = at
    BY <1>6 DEF NextHandler
  <2> QED BY <2>1, <1>1, <1>2, <1>3
<1> QED BY <1>4, <1>5, <1>6

LEMMA FcGetType ==
    ASSUME TypeOK, HandleFcGet
    PROVE  TypeOK'
<1> DEFINE m    == Head(inbox)
           last == LastOfAll(m, currentlyGetting)
<1>1. /\ inbox' \in Seq(Answer) /\ m \in Answer /\ m.piece \in Piece
      /\ m.last \in BOOLEAN
  BY AnsweredType DEF HandleFcGet
<1>2. last \in BOOLEAN
  BY <1>1 DEF LastOfAll
<1>3. QueuesOK'
  <2> DEFINE a == [piece |-> m.piece, seq |-> sequenceGet, last |-> last]
  <2>1. a \in [piece : Piece, seq : Nat, last : BOOLEAN]
    <3> HIDE DEF last, m
    <3> QED BY <1>1, <1>2 DEF TypeOK, MasterOK
  <2>2. toGs' = Append(toGs, a)
    BY DEF HandleFcGet
  <2> HIDE DEF a
  <2>3. toGs' \in Seq([piece : Piece, seq : Nat, last : BOOLEAN])
    BY <2>1, <2>2, AppendType DEF TypeOK, QueuesOK
  <2> QED BY <1>1, <2>3 DEF TypeOK, QueuesOK, HandleFcGet
<1>4. MasterOK'
  <2>1. busy' \in BOOLEAN
    BY DEF HandleFcGet
  <2>2. currentlyGetting' = NextHandler(m, currentlyGetting)
    BY DEF HandleFcGet
  <2>3. sequenceGet' \in Nat
    BY DEF TypeOK, MasterOK, HandleFcGet
  <2>4. currentlyGetting' \in Nat
        /\ (currentlyGetting' < Len(registered) \/ currentlyGetting' = 0)
    <3> HIDE DEF m, last
    <3> QED BY <1>1, <2>2, NextHandlerType DEF TypeOK, MasterOK
  <2> HIDE DEF m, last
  <2> QED BY <2>1, <2>3, <2>4 DEF TypeOK, MasterOK, HandleFcGet
<1> QED BY <1>3, <1>4, Same DEF TypeOK, HandleFcGet

\* A frame, or the first cells of it, in the memory.
LEMMA WriteType ==
    ASSUME TypeOK, NEW m \in Answer, m.piece \in Piece, m.value \in Values, m.last \in BOOLEAN,
           NEW n \in Nat, n <= Size[m.value] + 2, Write(m, n)
    PROVE  Written(m) \in Packet /\ memory' \in [0 .. Stop - 1 -> Cells]
<1> DEFINE w == Written(m)
           k == Size[m.value]
           f == Frame(w, k)
<1>1. w \in Packet
  <2>1. LastOfAll(m, currentlySaving) \in BOOLEAN
    BY DEF LastOfAll
  <2> QED BY <2>1 DEF Written, Packet, TypeOK, MasterOK
<1>2. k \in Nat
  BY Constants
<1>3. f \in Seq(Cells) /\ Len(f) = k + 2
  <2> HIDE DEF w, k
  <2> QED BY <1>1, <1>2, FrameType
<1>4. memory' = [a \in DOMAIN memory |-> IF a - setAddress \in 0 .. n - 1
                                         THEN f[a - setAddress + 1] ELSE memory[a]]
  BY DEF Write
<1>5. /\ memory \in [0 .. Stop - 1 -> Cells] /\ setAddress \in 0 .. Stop
      /\ Stop \in Nat /\ n <= k + 2
  BY Constants DEF TypeOK, MemoryOK, MasterOK
<1> HIDE DEF f, k, w
<1>6. \A a \in 0 .. Stop - 1 : a - setAddress \in 0 .. n - 1 => f[a - setAddress + 1] \in Cells
  <2> TAKE a \in 0 .. Stop - 1
  <2> HAVE a - setAddress \in 0 .. n - 1
  <2> DEFINE i == a - setAddress + 1
  <2>1. i \in 1 .. Len(f)
    BY <1>2, <1>3, <1>5
  <2> HIDE DEF i
  <2>2. f[i] \in Cells
    BY <1>3, <2>1
  <2> QED BY <2>2 DEF i
<1>7. memory' \in [0 .. Stop - 1 -> Cells]
  BY <1>4, <1>5, <1>6
<1> QED BY <1>1, <1>7 DEF w

LEMMA FcSaveType ==
    ASSUME TypeOK, Known, HandleFcSave
    PROVE  TypeOK'
<1> DEFINE m    == Head(inbox)
           last == LastOfAll(m, currentlySaving)
           at   == NextHandler(m, currentlySaving)
           n    == Size[m.value] + 2
<1>1. /\ inbox' \in Seq(Answer) /\ m \in Answer /\ m.control = "save"
      /\ m.piece \in Piece /\ m.value \in Values /\ m.last \in BOOLEAN
  BY AnsweredType DEF HandleFcSave
<1>2. registered # <<>>
  BY HeadHolds DEF Known, UnderWay, HandleFcSave, Answered, TypeOK, QueuesOK
<1>3. /\ at \in Nat /\ (at < Len(registered) \/ at = 0)
      /\ ~last => registered[at + 1] \in Handlers
  <2> HIDE DEF m
  <2> QED BY <1>1, <1>2, NextHandlerType DEF TypeOK, MasterOK
<1>4. n \in Nat /\ n <= Size[m.value] + 2
  <2>1. \A v \in Values : Size[v] \in Nat
    BY Constants
  <2> QED BY <1>1, <2>1
<1>5. Write(m, n) /\ InMemory(m)
  BY DEF HandleFcSave
<1>6. Written(m) \in Packet /\ memory' \in [0 .. Stop - 1 -> Cells]
  <2> HIDE DEF m, n
  <2>1. n <= Size[m.value] + 2
    BY <1>4
  <2> QED BY <1>1, <1>4, <1>5, <2>1, WriteType
<1>7. MemoryOK'
  <2>1. last \in BOOLEAN
    BY DEF LastOfAll
  <2>2. saved' = <<Written(m)>> \/ saved' = Append(saved, Written(m))
    BY DEF HandleFcSave
  <2>3. saved' \in Seq(Packet)
    <3> HIDE DEF m
    <3>1. \A p \in Packet : <<p>> \in Seq(Packet) /\ Append(saved, p) \in Seq(Packet)
      BY DEF TypeOK, MemoryOK
    <3> QED BY <1>6, <2>2, <3>1
  <2>4. whole' \in BOOLEAN
    BY <2>1 DEF HandleFcSave
  <2> QED BY <1>6, <2>3, <2>4 DEF MemoryOK
<1>8. MasterOK'
  <2>1. busy' \in BOOLEAN
    BY DEF HandleFcSave, TypeOK, MasterOK
  <2>2. saveSequence' \in Nat
    BY DEF HandleFcSave, TypeOK, MasterOK
  <2>3. setAddress' \in 0 .. Stop
    <3>1. Size[m.value] \in Nat /\ Stop \in Nat /\ setAddress \in 0 .. Stop
      <4> HIDE DEF m
      <4> QED BY <1>1, Constants DEF TypeOK, MasterOK
    <3>2. setAddress + Size[m.value] + 2 < Stop
      BY <1>5 DEF InMemory
    <3>3. setAddress' = 0 \/ setAddress' = setAddress + Size[m.value] + 3
      BY DEF HandleFcSave, NextAddress
    <3> HIDE DEF m
    <3> QED BY <3>1, <3>2, <3>3
  <2>4. currentlySaving' = at
    BY DEF HandleFcSave
  <2>5. UNCHANGED <<registered, currentlyGetting, sequenceGet>>
    BY DEF HandleFcSave, SaveUnchanged
  <2> HIDE DEF at
  <2> QED BY <1>3, <2>1, <2>2, <2>3, <2>4, <2>5 DEF TypeOK, MasterOK
<1>9. QueuesOK'
  <2>1. CASE last
    BY <1>1, <2>1 DEF HandleFcSave, SaveUnchanged, TypeOK, QueuesOK
  <2>2. CASE ~last
    <3>1. box' = [box EXCEPT ![registered[at + 1]] = Append(@, Request("save"))]
      BY <2>2 DEF HandleFcSave, Ask
    <3> HIDE DEF at, last
    <3>2. box' \in [Handlers -> Seq(ToHandler)]
      BY <1>3, <2>2, <3>1, BoxAppend, Messages DEF TypeOK, QueuesOK
    <3> QED BY <1>1, <3>2 DEF HandleFcSave, SaveUnchanged, TypeOK, QueuesOK
  <2> QED BY <2>1, <2>2
<1>10. UNCHANGED <<loadVars, handlerVars, gsVars, boundVars, histVars>>
  BY DEF HandleFcSave, SaveUnchanged, gsVars, boundVars, histVars
<1> QED BY <1>7, <1>8, <1>9, <1>10, Same DEF TypeOK

LEMMA FcSaveFullType ==
    ASSUME TypeOK, HandleFcSaveFull
    PROVE  TypeOK'
<1>1. QueuesOK'
  BY AnsweredType DEF TypeOK, QueuesOK, HandleFcSaveFull, SaveUnchanged
<1>2. MasterOK'
  BY CleanUpType DEF TypeOK, HandleFcSaveFull, SaveUnchanged
<1>3. CountsOK'
  BY DEF TypeOK, CountsOK, HandleFcSaveFull, SaveUnchanged
<1> QED BY <1>1, <1>2, <1>3, Same DEF TypeOK, HandleFcSaveFull, SaveUnchanged

LEMMA FcSaveFailsType ==
    ASSUME TypeOK, Known, NEW n \in Torn, HandleFcSaveFails(n)
    PROVE  TypeOK'
<1> DEFINE m    == Head(inbox)
           at   == NextHandler(m, currentlySaving)
           last == LastOfAll(m, currentlySaving)
<1>1. /\ inbox' \in Seq(Answer) /\ m \in Answer /\ m.control = "save"
      /\ m.piece \in Piece /\ m.value \in Values /\ m.last \in BOOLEAN
  BY AnsweredType DEF HandleFcSaveFails
<1>2. registered # <<>>
  BY HeadHolds DEF Known, UnderWay, HandleFcSaveFails, Answered, TypeOK, QueuesOK
<1>3. ~last => registered[at + 1] \in Handlers
  <2> HIDE DEF m
  <2> QED BY <1>1, <1>2, NextHandlerType DEF TypeOK, MasterOK
<1>4. MemoryOK'
  <2>1. Write(m, n) /\ n < Size[m.value] + 2
    BY DEF HandleFcSaveFails
  <2>2. n \in Nat /\ Size[m.value] \in Nat
    <3> HIDE DEF m
    <3> QED BY <1>1, Constants
  <2>3. memory' \in [0 .. Stop - 1 -> Cells]
    <3> HIDE DEF m
    <3>1. n <= Size[m.value] + 2
      BY <2>1, <2>2
    <3> QED BY <1>1, <2>1, <2>2, <3>1, WriteType
  <2>4. saved' = <<>> /\ whole' = FALSE
    BY DEF HandleFcSaveFails
  <2>5. saved' \in Seq(Packet)
    BY <2>4
  <2> QED BY <2>3, <2>4, <2>5 DEF MemoryOK
<1>5. QueuesOK'
  <2>1. CASE last
    BY <1>1, <2>1 DEF HandleFcSaveFails, SaveUnchanged, TypeOK, QueuesOK
  <2>2. CASE ~last
    <3>1. box' = [box EXCEPT ![registered[at + 1]] = Append(@, Request("save"))]
      BY <2>2 DEF HandleFcSaveFails, Ask
    <3> HIDE DEF at, last
    <3>2. box' \in [Handlers -> Seq(ToHandler)]
      BY <1>3, <2>2, <3>1, BoxAppend, Messages DEF TypeOK, QueuesOK
    <3> QED BY <1>1, <3>2 DEF HandleFcSaveFails, SaveUnchanged, TypeOK, QueuesOK
  <2> QED BY <2>1, <2>2
<1>6. MasterOK'
  BY CleanUpType DEF TypeOK, HandleFcSaveFails, SaveUnchanged
<1>7. CountsOK'
  <2>1. lost' \in Nat
    BY DEF TypeOK, CountsOK, HandleFcSaveFails
  <2>2. cut' \in BOOLEAN
    BY DEF HandleFcSaveFails
  <2> QED BY <2>1, <2>2 DEF TypeOK, CountsOK, HandleFcSaveFails, SaveUnchanged
<1> QED BY <1>4, <1>5, <1>6, <1>7, Same DEF TypeOK, HandleFcSaveFails, SaveUnchanged

LEMMA PhSetType ==
    ASSUME TypeOK, NEW h \in Handlers, PhSet(h)
    PROVE  TypeOK'
<1> DEFINE m == Head(box[h])
<1>1. box[h] \in Seq(ToHandler) /\ box[h] # <<>> /\ m \in ToHandler /\ m.control = "set"
  <2>1. box[h] \in Seq(ToHandler) /\ box[h] # <<>> /\ m.control = "set"
    BY DEF TypeOK, QueuesOK, PhSet, Awaits
  <2> QED BY <2>1, TailType
<1>2. QueuesOK'
  <2>1. box' \in [Handlers -> Seq(ToHandler)]
    BY <1>1, BoxTail DEF TypeOK, QueuesOK, PhSet
  <2>2. inbox' \in Seq(Answer)
    BY Messages, AppendType DEF TypeOK, QueuesOK, PhSet
  <2> QED BY <2>1, <2>2 DEF TypeOK, QueuesOK, PhSet, HandlerUnchanged
<1>3. TreesOK'
  <2>1. m.value \in Values
    BY <1>1 DEF ToHandler
  <2>2. value' = [p \in Piece |-> IF p \in m.pieces /\ p[1] = h THEN m.value ELSE value[p]]
    BY DEF PhSet
  <2> HIDE DEF m
  <2>3. value' \in [Piece -> Values]
    BY <2>1, <2>2 DEF TypeOK, TreesOK
  <2> QED BY <2>3 DEF TypeOK, TreesOK, PhSet
<1> QED BY <1>2, <1>3, Same DEF TypeOK, PhSet, HandlerUnchanged

LEMMA PhDumpType ==
    ASSUME TypeOK, NEW h \in Handlers, NEW control \in {"get", "save"},
           NEW at \in [Handlers -> Nat], at[h] < Pieces[h], PhDump(h, control, at)
    PROVE  QueuesOK'
<1>1. box[h] \in Seq(ToHandler) /\ box[h] # <<>>
  BY DEF TypeOK, QueuesOK, PhDump, Awaits
<1>2. box' \in [Handlers -> Seq(ToHandler)]
  BY <1>1, BoxTail DEF TypeOK, QueuesOK, PhDump
<1>3. PieceAt(h, at) \in Piece
  <2>1. Pieces[h] \in Nat /\ at[h] \in Nat
    BY Constants
  <2>2. at[h] + 1 \in 1 .. Pieces[h]
    BY <2>1
  <2> QED BY <2>2, PieceType DEF PieceAt
<1>4. value[PieceAt(h, at)] \in Values
  BY <1>3 DEF TypeOK, TreesOK
<1> DEFINE last == at[h] + 1 = Pieces[h]
           d    == Dump(control, PieceAt(h, at), value[PieceAt(h, at)], last)
<1>5. last \in BOOLEAN
  OBVIOUS
<1>6. inbox' = Append(inbox, d)
  BY DEF PhDump
<1> HIDE DEF last
<1>7. d \in Answer
  BY <1>3, <1>4, <1>5, Messages
<1> HIDE DEF d
<1>8. inbox' \in Seq(Answer)
  BY <1>6, <1>7, AppendType DEF TypeOK, QueuesOK
<1> QED BY <1>2, <1>8 DEF TypeOK, QueuesOK, PhDump, HandlerUnchanged

LEMMA OnwardType ==
    ASSUME NEW at \in [Handlers -> Nat], \A h \in Handlers : at[h] < Pieces[h], NEW h \in Handlers
    PROVE  /\ Onward(h, at) \in [Handlers -> Nat]
           /\ \A g \in Handlers : Onward(h, at)[g] < Pieces[g]
<1> DEFINE v == IF at[h] + 1 = Pieces[h] THEN 0 ELSE at[h] + 1
<1>1. v \in Nat /\ v < Pieces[h]
  <2>1. Pieces[h] \in Nat \ {0} /\ at[h] \in Nat /\ at[h] < Pieces[h]
    BY Constants
  <2> QED BY <2>1
<1>2. Onward(h, at) = [at EXCEPT ![h] = v]
  BY DEF Onward
<1> HIDE DEF v
<1> QED BY <1>1, <1>2

LEMMA HandlerType ==
    ASSUME TypeOK, NEW h \in Handlers, Handler(h)
    PROVE  TypeOK'
<1>1. CASE PhSet(h)
  BY <1>1, PhSetType
<1>2. CASE PhGet(h)
  <2>1. PhDump(h, "get", getAt) /\ getAt' = Onward(h, getAt) /\ UNCHANGED saveAt
    BY <1>2 DEF PhGet
  <2>2. QueuesOK'
    BY <2>1, PhDumpType DEF TypeOK, TreesOK
  <2>3. TreesOK'
    BY <2>1, OnwardType DEF TypeOK, TreesOK, PhDump
  <2> QED BY <2>1, <2>2, <2>3, Same DEF TypeOK, PhDump, HandlerUnchanged
<1>3. CASE PhSave(h)
  <2>1. PhDump(h, "save", saveAt) /\ saveAt' = Onward(h, saveAt) /\ UNCHANGED getAt
    BY <1>3 DEF PhSave
  <2>2. QueuesOK'
    BY <2>1, PhDumpType DEF TypeOK, TreesOK
  <2>3. TreesOK'
    BY <2>1, OnwardType DEF TypeOK, TreesOK, PhDump
  <2> QED BY <2>1, <2>2, <2>3, Same DEF TypeOK, PhDump, HandlerUnchanged
<1> QED BY <1>1, <1>2, <1>3 DEF Handler

LEMMA GsCommandType ==
    ASSUME TypeOK, NEW m \in ToMaster, GsCommand(m)
    PROVE  TypeOK'
<1>1. QueuesOK'
  <2>1. toMaster' \in Seq(ToMaster)
    BY AppendType DEF TypeOK, QueuesOK, GsCommand, GsSends
  <2> QED BY <2>1 DEF TypeOK, QueuesOK, GsCommand, GsSends, GsUnchanged
<1>2. CountsOK'
  <2>1. commands' \in 0 .. MaxCommands
    BY Constants DEF TypeOK, CountsOK, GsCommand
  <2> QED BY <2>1 DEF TypeOK, CountsOK, GsCommand, GsSends, GsUnchanged, histVars
<1> QED BY <1>1, <1>2, Same DEF TypeOK, GsCommand, GsSends, GsUnchanged

LEMMA GsType ==
    ASSUME TypeOK, Gs
    PROVE  TypeOK'
<1>1. ASSUME NEW h \in Handlers, NEW v \in Values, GsWrite(h, v)
      PROVE  TypeOK'
  <2>1. TreePieces(h) \in SUBSET Piece
    BY DEF TreePieces
  <2>2. SetMsg(TreePieces(h), v) \in ToMaster
    BY <2>1, Messages
  <2> QED BY <1>1, <2>2, GsCommandType DEF GsWrite
<1>2. CASE GsSave \/ GsLoad \/ GsRequest
  BY <1>2, GsCommandType, Messages DEF GsSave, GsLoad, GsRequest
<1> QED BY <1>1, <1>2 DEF Gs

LEMMA GsProcessType ==
    ASSUME TypeOK, GsProcess
    PROVE  TypeOK'
<1> DEFINE M == [piece : Piece, seq : Nat, last : BOOLEAN]
           m == Head(toGs)
<1>1. m \in M /\ toGs' \in Seq(M)
  BY TailType DEF TypeOK, QueuesOK, GsProcess
<1>2. QueuesOK'
  <2>1. toMaster' \in Seq(ToMaster)
    BY AppendType, Messages DEF TypeOK, QueuesOK, GsProcess, GsSends
  <2>2. UNCHANGED <<box, inbox>>
    BY DEF GsProcess, GsSends, GsUnchanged
  <2> QED BY <1>1, <2>1, <2>2 DEF TypeOK, QueuesOK
<1>3. GsOK'
  <2>1. m.piece \in Piece /\ gsSeq \in Nat /\ gsTree \in Seq(Piece)
    BY <1>1 DEF TypeOK, GsOK
  <2>2. gsSeq' = SequenceAfter(m)
    BY DEF GsProcess
  <2>3. gsTree' = <<>> \/ gsTree' = <<m.piece>> \/ gsTree' = Append(gsTree, m.piece)
    BY DEF GsProcess
  <2> HIDE DEF m
  <2>4. gsSeq' \in Nat
    BY <2>1, <2>2 DEF SequenceAfter
  <2>5. gsTree' \in Seq(Piece)
    <3>1. \A p \in Piece : <<p>> \in Seq(Piece) /\ Append(gsTree, p) \in Seq(Piece)
      BY <2>1
    <3>2. <<>> \in Seq(Piece)
      OBVIOUS
    <3> QED BY <2>1, <2>3, <3>1, <3>2
  <2> QED BY <2>4, <2>5 DEF GsOK
<1>4. UNCHANGED <<registered, masterVars, loadVars, memoryVars, handlerVars, boundVars, histVars>>
  BY DEF GsProcess, GsSends, GsUnchanged, boundVars
<1> QED BY <1>2, <1>3, <1>4, Same DEF TypeOK

LEMMA RestartType ==
    ASSUME TypeOK, Restart
    PROVE  QueuesOK' /\ MasterOK' /\ LoadOK' /\ TreesOK' /\ GsOK' /\ CountsOK'
<1> USE DEF Restart
<1>1. QueuesOK'
  <2>1. Request("load") \in ToMaster
    BY Messages
  <2> QED BY <2>1 DEF TypeOK, QueuesOK
<1>2. MasterOK'
  <2>1. busy' \in BOOLEAN
    OBVIOUS
  <2>2. setAddress' \in 0 .. Stop
    BY Constants
  <2> QED BY <2>1, <2>2 DEF MasterOK
<1>3. LoadOK'
  BY ParserType DEF LoadOK, NoLoad
<1>4. TreesOK'
  BY Constants DEF TreesOK
<1>5. GsOK'
  BY Same DEF TypeOK
<1>6. CountsOK'
  <2>1. restarts' \in Nat
    BY DEF TypeOK, CountsOK
  <2>2. cut' \in BOOLEAN /\ early' \in BOOLEAN
    OBVIOUS
  <2> QED BY <2>1, <2>2 DEF TypeOK, CountsOK
<1> QED BY <1>1, <1>2, <1>3, <1>4, <1>5, <1>6

LEMMA PowerLossInWriteType ==
    ASSUME TypeOK, NEW n \in Torn, PowerLossInWrite(n)
    PROVE  TypeOK'
<1> DEFINE m == Head(inbox)
<1>1. /\ m \in Answer /\ m.control = "save"
      /\ m.piece \in Piece /\ m.value \in Values /\ m.last \in BOOLEAN
  <2>1. m \in Answer /\ m.control = "save"
    BY TailType DEF TypeOK, QueuesOK, PowerLossInWrite, Awaits
  <2> QED BY <2>1 DEF Answer
<1>2. MemoryOK'
  <2>1. Write(m, n) /\ n < Size[m.value] + 2
    BY DEF PowerLossInWrite
  <2>2. n \in Nat /\ Size[m.value] \in Nat
    <3> HIDE DEF m
    <3> QED BY <1>1, Constants
  <2>3. memory' \in [0 .. Stop - 1 -> Cells]
    <3> HIDE DEF m
    <3>1. n <= Size[m.value] + 2
      BY <2>1, <2>2
    <3> QED BY <1>1, <2>1, <2>2, <3>1, WriteType
  <2>4. saved' = <<>> /\ whole' = FALSE
    BY DEF PowerLossInWrite
  <2>5. saved' \in Seq(Packet)
    BY <2>4
  <2> QED BY <2>3, <2>4, <2>5 DEF MemoryOK
<1> QED BY <1>2, RestartType DEF TypeOK, PowerLossInWrite

LEMMA LoseType ==
    ASSUME TypeOK, Lose
    PROVE  TypeOK'
<1>1. QueuesOK'
  <2>1. CASE inbox # <<>> /\ inbox' = Front(inbox) /\ UNCHANGED <<toMaster, box, toGs>>
    BY <2>1, FrontType DEF TypeOK, QueuesOK
  <2>2. CASE toGs # <<>> /\ toGs' = Front(toGs) /\ UNCHANGED <<toMaster, box, inbox>>
    BY <2>2, FrontType DEF TypeOK, QueuesOK
  <2>3. CASE toMaster # <<>> /\ toMaster' = Front(toMaster) /\ UNCHANGED <<box, inbox, toGs>>
    BY <2>3, FrontType DEF TypeOK, QueuesOK
  <2>4. ASSUME NEW h \in Handlers, box[h] # <<>>, box' = [box EXCEPT ![h] = Front(@)],
               UNCHANGED <<toMaster, inbox, toGs>>
        PROVE  QueuesOK'
    <3>1. Front(box[h]) \in Seq(ToHandler)
      BY <2>4, FrontType DEF TypeOK, QueuesOK
    <3>2. box' \in [Handlers -> Seq(ToHandler)]
      BY <2>4, <3>1 DEF TypeOK, QueuesOK
    <3> QED BY <2>4, <3>2 DEF TypeOK, QueuesOK
  <2> QED BY <2>1, <2>2, <2>3, <2>4 DEF Lose
<1>2. CountsOK'
  <2>1. lost' \in Nat
    BY DEF TypeOK, CountsOK, Lose
  <2> QED BY <2>1 DEF TypeOK, CountsOK, Lose, histVars
<1> QED BY <1>1, <1>2, Same DEF TypeOK, Lose

LEMMA NextType ==
    ASSUME TypeOK, ParserBetweenLoads, Known, [Next]_vars
    PROVE  TypeOK'
<1>1. CASE Master
  <2>1. currentlyGetting \in Nat /\ currentlySaving \in Nat
    BY DEF TypeOK, MasterOK
  <2> QED BY <1>1, <2>1, RefusedType, ParamSetType, LoadStartType, StartType
          DEF Master, HandleGet, HandleSave
<1>2. CASE Loader
  BY <1>2, LoaderType
<1>3. CASE Answers
  BY <1>3, FcSetType, FcGetType, FcSaveType, FcSaveFullType DEF Answers
<1>4. ASSUME NEW h \in Handlers, Handler(h) \/ HandleHasParam(h)
      PROVE  TypeOK'
  BY <1>4, HandlerType, HasParamType
<1>5. CASE Gs \/ GsProcess
  BY <1>5, GsType, GsProcessType
<1>6. CASE PowerLoss
  BY <1>6, RestartType, Same DEF TypeOK, PowerLoss
<1>7. CASE Lose
  BY <1>7, LoseType
<1>8. ASSUME NEW n \in Torn, HandleFcSaveFails(n) \/ PowerLossInWrite(n)
      PROVE  TypeOK'
  BY <1>8, FcSaveFailsType, PowerLossInWriteType
<1>9. CASE UNCHANGED vars
  BY <1>9, Same DEF TypeOK, vars
<1> QED BY <1>1, <1>2, <1>3, <1>4, <1>5, <1>6, <1>7, <1>8, <1>9 DEF Next, Tasks, Faults

-----------------------------------------------------------------------------
(* What is under way.                                                      *)

LEMMA BoxGrows ==
    ASSUME TypeOK, NEW h \in Handlers, NEW m, box' = [box EXCEPT ![h] = Append(@, m)],
           NEW control
    PROVE  \A g \in Handlers : Holds(box'[g], control) <=>
               Holds(box[g], control) \/ (g = h /\ m.control = control)
<1>1. box \in [Handlers -> Seq(ToHandler)]
  BY DEF TypeOK, QueuesOK
<1>2. Holds(Append(box[h], m), control) <=> Holds(box[h], control) \/ m.control = control
  BY <1>1, AppendHolds
<1>3. box'[h] = Append(box[h], m) /\ \A g \in Handlers \ {h} : box'[g] = box[g]
  BY <1>1
<1> QED BY <1>2, <1>3

LEMMA BoxShrinks ==
    ASSUME TypeOK, NEW h \in Handlers, box[h] # <<>>, box' = [box EXCEPT ![h] = Tail(@)],
           NEW control
    PROVE  \A g \in Handlers : Holds(box[g], control) <=>
               Holds(box'[g], control) \/ (g = h /\ Head(box[h]).control = control)
<1>1. box \in [Handlers -> Seq(ToHandler)]
  BY DEF TypeOK, QueuesOK
<1>2. Holds(box[h], control) <=>
         Holds(Tail(box[h]), control) \/ Head(box[h]).control = control
  BY <1>1, TailHolds
<1>3. box'[h] = Tail(box[h]) /\ \A g \in Handlers \ {h} : box'[g] = box[g]
  BY <1>1
<1> QED BY <1>2, <1>3

LEMMA AnsweredHolds ==
    ASSUME TypeOK, NEW kind, Answered(kind), NEW control
    PROVE  Holds(inbox, control) <=> Holds(inbox', control) \/ kind = control
<1>1. inbox \in Seq(Answer) /\ inbox # <<>> /\ Head(inbox).control = kind /\ inbox' = Tail(inbox)
  BY DEF TypeOK, QueuesOK, Answered, Awaits
<1> QED BY <1>1, TailHolds

LEMMA AcceptHolds ==
    ASSUME TypeOK, NEW kind, Accept(kind), NEW control
    PROVE  Holds(toMaster, control) <=> Holds(toMaster', control) \/ kind = control
<1>1. /\ toMaster \in Seq(ToMaster) /\ toMaster # <<>>
      /\ Head(toMaster).control = kind /\ toMaster' = Tail(toMaster)
  BY DEF TypeOK, QueuesOK, Accept, Awaits
<1> QED BY <1>1, TailHolds

LEMMA SetHolds ==
    ASSUME TypeOK, HandleParamSet, NEW control, control # "set"
    PROVE  \A g \in Handlers : Holds(box'[g], control) <=> Holds(box[g], control)
<1>1. Head(toMaster).control = "set"
  BY AcceptType DEF HandleParamSet
<1>2. ASSUME NEW g \in Handlers
      PROVE  Holds(Append(box[g], Head(toMaster)), control) <=> Holds(box[g], control)
  BY <1>1, AppendHolds DEF TypeOK, QueuesOK
<1>3. \A g \in Handlers : box'[g] = box[g] \/ box'[g] = Append(box[g], Head(toMaster))
  BY DEF HandleParamSet
<1> QED BY <1>2, <1>3

LEMMA LoadHolds ==
    ASSUME TypeOK, ParserBetweenLoads, Loader, NEW control, control # "set"
    PROVE  \A g \in Handlers : Holds(box'[g], control) <=> Holds(box[g], control)
<1>1. CASE UNCHANGED box
  BY <1>1
<1>2. CASE LoadPacket
  <2> DEFINE m == SetMsg({Taken.piece}, Taken.value)
  <2>1. Taken.piece[1] \in Handlers
    <3>1. load.on /\ Parsed.result = "OK"
      BY <1>2 DEF LoadPacket
    <3>2. Taken \in Packet
      BY <3>1, ParsedType DEF Returned, Taken
    <3>3. Taken.piece \in Piece
      BY <3>2 DEF Packet
    <3> QED BY <3>3, PieceType
  <2>2. box' = [box EXCEPT ![Taken.piece[1]] = Append(@, m)]
    BY <1>2 DEF LoadPacket
  <2>3. m.control = "set"
    BY DEF SetMsg
  <2> HIDE DEF m
  <2> QED BY ZenonT(40), <2>1, <2>2, <2>3, BoxGrows
<1> QED BY <1>1, <1>2 DEF Loader, LoadMore, LoadFails

\* What a handler takes from its queue, and what it answers.
LEMMA HandlerHolds ==
    ASSUME TypeOK, NEW h \in Handlers, Handler(h)
    PROVE  \E kind \in {"set", "get", "save"} :
              /\ \A c \in {"get", "save"}, g \in Handlers :
                    Holds(box[g], c) <=> Holds(box'[g], c) \/ (g = h /\ kind = c)
              /\ \A c \in {"get", "save"} : Holds(inbox', c) <=> Holds(inbox, c) \/ kind = c
              /\ HandlerUnchanged
<1>0. inbox \in Seq(Answer)
  BY DEF TypeOK, QueuesOK
<1>1. ASSUME NEW kind \in {"set", "get", "save"}, Awaits(box[h], kind),
             box' = [box EXCEPT ![h] = Tail(@)], NEW a, a.control = kind,
             inbox' = Append(inbox, a), HandlerUnchanged
      PROVE  /\ \A c \in {"get", "save"}, g \in Handlers :
                    Holds(box[g], c) <=> Holds(box'[g], c) \/ (g = h /\ kind = c)
             /\ \A c \in {"get", "save"} : Holds(inbox', c) <=> Holds(inbox, c) \/ kind = c
             /\ HandlerUnchanged
  <2>1. box[h] # <<>> /\ Head(box[h]).control = kind
    BY <1>1 DEF Awaits
  <2>2. ASSUME NEW c PROVE Holds(inbox', c) <=> Holds(inbox, c) \/ kind = c
    BY <1>0, <1>1, AppendHolds
  <2>3. ASSUME NEW c PROVE \A g \in Handlers :
                    Holds(box[g], c) <=> Holds(box'[g], c) \/ (g = h /\ kind = c)
    BY <1>1, <2>1, BoxShrinks
  <2> QED BY <1>1, <2>2, <2>3
<1>2. CASE PhSet(h)
  <2>1. Request("set").control = "set"
    BY DEF Request
  <2> QED BY <1>1, <1>2, <2>1 DEF PhSet
<1>3. ASSUME NEW kind \in {"get", "save"}, NEW at, PhDump(h, kind, at)
      PROVE  /\ \A c \in {"get", "save"}, g \in Handlers :
                    Holds(box[g], c) <=> Holds(box'[g], c) \/ (g = h /\ kind = c)
             /\ \A c \in {"get", "save"} : Holds(inbox', c) <=> Holds(inbox, c) \/ kind = c
             /\ HandlerUnchanged
  <2> DEFINE a == Dump(kind, PieceAt(h, at), value[PieceAt(h, at)], at[h] + 1 = Pieces[h])
  <2>1. a.control = kind
    BY DEF Dump
  <2>2. inbox' = Append(inbox, a)
    BY <1>3 DEF PhDump
  <2> HIDE DEF a
  <2> QED BY <1>1, <1>3, <2>1, <2>2 DEF PhDump
<1> QED BY <1>2, <1>1, <1>3 DEF Handler, PhGet, PhSave

-----------------------------------------------------------------------------
(* The parser between two octets.                                          *)

\* The outcome is forgotten when a load begins.
Loading == load.on => outcome = "none"

LEMMA LoadStays ==
    ASSUME [Next]_vars, ~Loader, ~HandleLoad, ~Restart
    PROVE  UNCHANGED loadVars
BY DEF Next, Tasks, Master, Answers, Handler, Gs, Faults, vars,
       HandleRefused, HandleParamSet, HandleGet, HandleSave, StartDump, HandleFcSet,
       HandleFcGet, HandleFcSave, HandleFcSaveFull, SaveUnchanged, PhSet, PhGet, PhSave, PhDump,
       HandlerUnchanged, GsProcess, GsSends, GsUnchanged, GsWrite, GsSave, GsLoad, GsRequest,
       GsCommand, HandleHasParam, PowerLoss, PowerLossInWrite, Lose, HandleFcSaveFails

LEMMA InitParser == Init => ParserBetweenLoads /\ Loading
BY ParserType DEF Init, ParserBetweenLoads, Loading, NoLoad

LEMMA NextParser ==
    ASSUME TypeOK, ParserBetweenLoads, Loading, [Next]_vars
    PROVE  ParserBetweenLoads' /\ Loading'
<1>1. CASE Loader
  <2>1. load.on /\ outcome = "none"
    BY <1>1 DEF Loader, LoadMore, LoadPacket, LoadFails, Loading
  <2>2. Returned(Parsed)
    BY <2>1, ParsedType
  <2>3. /\ parser' \in Parsers
        /\ parser'.cBuffer # <<>> => parser' = Parser(FALSE, <<>>, <<Boundary>>)
        /\ outcome' = "loaded" => parser'.cBuffer # <<>>
    <3>1. CASE LoadMore
      BY <2>1, <2>2, <3>1 DEF LoadMore, Returned
    <3>2. CASE LoadPacket
      BY <2>2, <3>2 DEF LoadPacket, Returned
    <3>3. CASE LoadFails
      <4>1. parser' = parser \/ parser' = Parsed.parser
        BY <3>3 DEF LoadFails
      <4>2. outcome' # "loaded"
        BY <3>3 DEF LoadFails
      <4> QED BY <2>2, <4>1, <4>2 DEF Returned, TypeOK, LoadOK, ParserBetweenLoads
    <3> QED BY <1>1, <3>1, <3>2, <3>3 DEF Loader
  <2>4. parser'.cBuffer \in {<<>>, <<Boundary>>}
    BY <2>3, ParserType
  <2>5. Loading'
    BY <1>1, <2>1 DEF Loader, LoadMore, LoadPacket, LoadFails, Loading, NoLoad
  <2> QED BY <2>3, <2>4, <2>5 DEF ParserBetweenLoads
<1>2. CASE HandleLoad
  BY <1>2 DEF HandleLoad, ParserBetweenLoads, Loading
<1>3. CASE Restart
  <2>1. parser' = NewParser /\ outcome' = "none"
    BY <1>3 DEF Restart
  <2> QED BY <2>1, ParserType DEF ParserBetweenLoads, Loading
<1>4. CASE UNCHANGED loadVars
  BY <1>4 DEF loadVars, ParserBetweenLoads, Loading
<1> QED BY <1>1, <1>2, <1>3, <1>4, LoadStays

-----------------------------------------------------------------------------
(* Who is asked is known.                                                  *)

LEMMA InitKnown == Init => Known
BY EmptyHolds DEF Init, Known, UnderWay

LEMMA RegisteredStays ==
    ASSUME TypeOK, [Next]_vars, ~Restart, registered # <<>>
    PROVE  registered' # <<>>
<1>1. CASE \E h \in Handlers : HandleHasParam(h)
  BY <1>1 DEF HandleHasParam, TypeOK, MasterOK
<1>2. CASE UNCHANGED registered
  BY <1>2
<1>3. UNCHANGED registered \/ \E h \in Handlers : HandleHasParam(h)
  BY DEF Next, Tasks, Master, Loader, Answers, Handler, Gs, Faults, vars,
       HandleRefused, HandleParamSet, HandleLoad, HandleGet, HandleSave, StartDump,
       LoadMore, LoadPacket, LoadFails, LoadUnchanged, HandleFcSet,
       HandleFcGet, HandleFcSave, HandleFcSaveFull, SaveUnchanged, PhSet, PhGet, PhSave, PhDump,
       HandlerUnchanged, GsProcess, GsSends, GsUnchanged, GsWrite, GsSave, GsLoad, GsRequest,
       GsCommand, PowerLoss, PowerLossInWrite, Lose, HandleFcSaveFails
<1> QED BY <1>1, <1>2, <1>3

LEMMA NextKnown ==
    ASSUME TypeOK, ParserBetweenLoads, Known, [Next]_vars
    PROVE  Known'
<1>1. CASE registered # <<>> /\ ~Restart
  BY <1>1, RegisteredStays DEF Known
<1>2. CASE Restart
  <2>1. inbox' = <<>> /\ \A h \in Handlers : box'[h] = <<>>
    BY <1>2 DEF Restart
  <2> QED BY <2>1, EmptyHolds DEF Known, UnderWay
<1>3. CASE registered = <<>>
  <2>1. ASSUME NEW c \in {"get", "save"}
        PROVE  ~Holds(inbox, c) /\ \A h \in Handlers : ~Holds(box[h], c)
    BY <1>3 DEF Known, UnderWay
  <2> SUFFICES ASSUME NEW c \in {"get", "save"}, ~Restart, registered' = <<>>
               PROVE  ~Holds(inbox', c) /\ \A h \in Handlers : ~Holds(box'[h], c)
    BY <1>2 DEF Known, UnderWay
  <2>2. CASE UNCHANGED <<box, inbox>>
    BY <2>1, <2>2
  <2>3. CASE HandleParamSet
    BY <2>1, <2>3, SetHolds DEF HandleParamSet
  <2>4. ASSUME NEW kind \in {"get", "save"}, NEW at \in Nat, StartDump(kind, at)
        PROVE  UNCHANGED <<box, inbox>>
    <3>1. ~(at < Len(registered))
      BY <1>3
    <3> QED BY <2>4, <3>1 DEF StartDump
  <2>5. CASE Loader
    <3>1. UNCHANGED inbox
      BY <2>5 DEF Loader, LoadMore, LoadPacket, LoadFails, LoadUnchanged
    <3> QED BY <2>1, <2>5, <3>1, LoadHolds
  <2>6. CASE HandleFcSet
    <3>1. Answered("set") /\ UNCHANGED box
      BY <2>6 DEF HandleFcSet
    <3> QED BY <2>1, <3>1, AnsweredHolds
  <2>7. ASSUME NEW kind \in {"get", "save"}, Answered(kind)
        PROVE  FALSE
    BY <2>1, <2>7, AnsweredHolds
  <2>8. ASSUME NEW h \in Handlers, Handler(h)
        PROVE  ~Holds(inbox', c) /\ \A g \in Handlers : ~Holds(box'[g], c)
    BY <2>1, <2>8, HandlerHolds
  <2>9. CASE Lose
    <3>1. \A q : ~Holds(q, c) /\ q # <<>> /\ (q \in Seq(Answer) \/ q \in Seq(ToHandler))
                 => ~Holds(Front(q), c)
      BY FrontHolds
    <3>2. inbox \in Seq(Answer) /\ box \in [Handlers -> Seq(ToHandler)]
      BY DEF TypeOK, QueuesOK
    <3> QED BY <2>1, <2>9, <3>1, <3>2 DEF Lose
  <2>10. currentlyGetting \in Nat /\ currentlySaving \in Nat
    BY DEF TypeOK, MasterOK
  <2>11. CASE Master
    BY <2>2, <2>3, <2>4, <2>10, <2>11
       DEF Master, HandleRefused, HandleLoad, HandleGet, HandleSave
  <2>12. CASE Answers
    BY <2>6, <2>7, <2>12 DEF Answers, HandleFcGet, HandleFcSave, HandleFcSaveFull
  <2>13. CASE GsProcess \/ Gs
    BY <2>2, <2>13 DEF GsProcess, GsSends, GsUnchanged, Gs, GsWrite, GsSave, GsLoad, GsRequest,
                       GsCommand
  <2>14. CASE Faults
    BY <2>7, <2>9, <2>14 DEF Faults, PowerLoss, PowerLossInWrite, HandleFcSaveFails
  <2>15. CASE (\E h \in Handlers : HandleHasParam(h)) \/ UNCHANGED vars
    BY <2>2, <2>15 DEF HandleHasParam, vars
  <2> QED BY <2>5, <2>8, <2>11, <2>12, <2>13, <2>14, <2>15 DEF Next, Tasks
<1> QED BY <1>1, <1>2, <1>3

-----------------------------------------------------------------------------
(* A busy master has asked.                                                *)

LEMMA StartAsks ==
    ASSUME TypeOK, NEW control \in {"get", "save"}, NEW at \in Nat,
           at < Len(registered) \/ at = 0, StartDump(control, at)
    PROVE  (\E h \in Handlers : Holds(box'[h], control)) \/ (registered = <<>> /\ early')
<1>1. CASE at < Len(registered)
  <2> DEFINE h == registered[at + 1]
  <2>1. h \in Handlers
    BY <1>1 DEF TypeOK, MasterOK
  <2>2. box' = [box EXCEPT ![h] = Append(@, Request(control))]
    BY <1>1 DEF StartDump, Ask
  <2>3. Request(control).control = control
    BY DEF Request
  <2> HIDE DEF h
  <2> QED BY <2>1, <2>2, <2>3, BoxGrows
<1>2. CASE ~(at < Len(registered))
  <2>1. registered = <<>>
    BY <1>2 DEF TypeOK, MasterOK
  <2> QED BY <2>1 DEF StartDump
<1> QED BY <1>1, <1>2

\* A save that goes on has asked; the queues hold no fewer gets than before.
LEMMA SaveAsks ==
    ASSUME TypeOK, Known, HandleFcSave
    PROVE  /\ busy' => \E h \in Handlers : Holds(box'[h], "save")
           /\ \A h \in Handlers : Holds(box[h], "get") => Holds(box'[h], "get")
<1> DEFINE m    == Head(inbox)
           last == LastOfAll(m, currentlySaving)
           at   == NextHandler(m, currentlySaving)
<1>1. CASE last
  BY <1>1 DEF HandleFcSave
<1>2. CASE ~last
  <2>1. registered # <<>>
    BY HeadHolds DEF Known, UnderWay, HandleFcSave, Answered, TypeOK, QueuesOK
  <2>2. registered[at + 1] \in Handlers
    <3>1. m \in Answer
      BY AnsweredType DEF HandleFcSave
    <3> HIDE DEF m
    <3> QED BY <1>2, <2>1, <3>1, NextHandlerType DEF TypeOK, MasterOK
  <2>3. box' = [box EXCEPT ![registered[at + 1]] = Append(@, Request("save"))]
    BY <1>2 DEF HandleFcSave, Ask
  <2>4. Request("save").control = "save"
    BY DEF Request
  <2> HIDE DEF at, last
  <2> DEFINE h == registered[at + 1]
             q == Request("save")
  <2>5. h \in Handlers /\ box' = [box EXCEPT ![h] = Append(@, q)] /\ q.control = "save"
    BY <2>2, <2>3, <2>4
  <2> HIDE DEF h, q
  <2>6. \A g \in Handlers : Holds(box'[g], "save") <=> Holds(box[g], "save") \/ g = h
    BY <2>5, BoxGrows
  <2>7. \A g \in Handlers : Holds(box'[g], "get") <=> Holds(box[g], "get")
    BY <2>5, BoxGrows
  <2> QED BY <2>5, <2>6, <2>7
<1> QED BY <1>1, <1>2

LEMMA NextWedged ==
    ASSUME TypeOK, Known, WedgedOnlyByLoss, [Next]_vars
    PROVE  WedgedOnlyByLoss'
<1> SUFFICES ASSUME busy', ~load'.on, ~(lost' > 0), ~early'
             PROVE  UnderWay("get")' \/ UnderWay("save")'
  BY DEF WedgedOnlyByLoss
<1>0. /\ currentlyGetting \in Nat /\ (currentlyGetting < Len(registered) \/ currentlyGetting = 0)
      /\ currentlySaving \in Nat /\ (currentlySaving < Len(registered) \/ currentlySaving = 0)
  BY DEF TypeOK, MasterOK
<1>1. CASE UNCHANGED <<box, inbox, busy, load, lost, early>>
  BY <1>1 DEF WedgedOnlyByLoss, UnderWay
<1>2. CASE HandleParamSet
  BY <1>2 DEF HandleParamSet, Accept, masterVars
<1>3. CASE HandleLoad
  BY <1>3 DEF HandleLoad, NoLoad
<1>4. CASE HandleGet \/ HandleSave
  BY <1>0, <1>4, StartAsks DEF HandleGet, HandleSave, UnderWay
<1>5. CASE Loader
  <2>1. load.on
    BY <1>5 DEF Loader, LoadMore, LoadPacket, LoadFails
  <2>2. load \in [on : BOOLEAN, address : Nat, start : Nat, expected : Nat, stale : BOOLEAN]
    BY DEF TypeOK, LoadOK
  <2> QED BY <1>5, <2>1, <2>2 DEF Loader, LoadMore, LoadPacket, LoadFails
<1>6. CASE HandleFcSet \/ HandleFcGet \/ HandleFcSaveFull
  BY <1>6 DEF HandleFcSet, HandleFcGet, HandleFcSaveFull, CleanUp
<1>7. CASE HandleFcSave
  BY <1>7, SaveAsks DEF UnderWay
<1>8. ASSUME NEW h \in Handlers, Handler(h)
      PROVE  UnderWay("get")' \/ UnderWay("save")'
  <2>1. UNCHANGED <<busy, load, lost, early>>
    BY <1>8, HandlerHolds DEF HandlerUnchanged, masterVars, loadVars, boundVars, histVars
  <2>2. UnderWay("get") \/ UnderWay("save")
    BY <2>1 DEF WedgedOnlyByLoss
  <2>3. \A c \in {"get", "save"} : UnderWay(c) => UnderWay(c)'
    BY <1>8, HandlerHolds DEF UnderWay
  <2> QED BY <2>2, <2>3
<1>9. CASE Restart
  BY <1>9 DEF Restart
<1>10. CASE Lose \/ \E n \in Torn : HandleFcSaveFails(n)
  <2>1. lost' = lost + 1 /\ lost \in Nat
    BY <1>10 DEF Lose, HandleFcSaveFails, TypeOK, CountsOK
  <2> QED BY <2>1
<1>11. CASE HandleRefused \/ GsProcess \/ Gs \/ (\E h \in Handlers : HandleHasParam(h))
            \/ UNCHANGED vars
  BY <1>1, <1>11 DEF HandleRefused, GsProcess, GsSends, GsUnchanged, Gs, GsWrite, GsSave, GsLoad,
                     GsRequest, GsCommand, HandleHasParam, vars, masterVars, loadVars, boundVars,
                     histVars
<1> QED BY <1>2, <1>3, <1>4, <1>5, <1>6, <1>7, <1>8, <1>9, <1>10, <1>11
        DEF Next, Tasks, Master, Answers, Faults, PowerLoss, PowerLossInWrite

-----------------------------------------------------------------------------
(* The ground station's get is answered.                                   *)

\* What the ground station has got came from a handler.
GsKnown == gsSeq # 0 \/ toGs # <<>> => registered # <<>> \/ restarts > 0

LEMMA NextGsKnown ==
    ASSUME TypeOK, Known, GsKnown, [Next]_vars
    PROVE  GsKnown'
<1>1. CASE Restart
  <2>1. restarts' = restarts + 1 /\ restarts \in Nat
    BY <1>1 DEF Restart, TypeOK, CountsOK
  <2> QED BY <2>1 DEF GsKnown
<1>2. CASE HandleFcGet
  <2>1. registered # <<>>
    BY <1>2, HeadHolds DEF Known, UnderWay, HandleFcGet, Answered, TypeOK, QueuesOK
  <2> QED BY <1>2, <2>1 DEF HandleFcGet, GsKnown
<1>3. CASE GsProcess
  <2>1. toGs # <<>>
    BY <1>3 DEF GsProcess
  <2> QED BY <1>3, <2>1 DEF GsProcess, GsSends, GsUnchanged, GsKnown
<1>4. ASSUME ~Restart, ~HandleFcGet, ~GsProcess
      PROVE  UNCHANGED <<gsSeq, restarts>> /\ (toGs' # <<>> => toGs # <<>>)
  BY <1>4 DEF Next, Tasks, Master, Loader, Answers, Handler, Gs, Faults, vars,
       HandleRefused, HandleParamSet, HandleLoad, HandleGet, HandleSave, StartDump,
       LoadMore, LoadPacket, LoadFails, LoadUnchanged, HandleFcSet,
       HandleFcSave, HandleFcSaveFull, SaveUnchanged, PhSet, PhGet, PhSave, PhDump,
       HandlerUnchanged, GsSends, GsUnchanged, GsWrite, GsSave, GsLoad, GsRequest,
       GsCommand, HandleHasParam, PowerLoss, PowerLossInWrite, Lose, HandleFcSaveFails,
       gsVars, boundVars
<1>5. CASE ~Restart /\ ~HandleFcGet /\ ~GsProcess
  BY <1>4, <1>5, RegisteredStays DEF GsKnown
<1> QED BY <1>1, <1>2, <1>3, <1>5

LEMMA NextOngoing ==
    ASSUME TypeOK, ParserBetweenLoads, Known, GsKnown, OngoingIsAnswered, [Next]_vars
    PROVE  OngoingIsAnswered'
<1> SUFFICES ASSUME gsSeq' # 0, ~(lost' > 0), ~(restarts' > 0), ~refused', toGs' = <<>>
             PROVE  UnderWay("get")' \/ Holds(toMaster', "get")
  BY DEF OngoingIsAnswered
<1>0. /\ currentlyGetting \in Nat /\ (currentlyGetting < Len(registered) \/ currentlyGetting = 0)
      /\ currentlySaving \in Nat /\ (currentlySaving < Len(registered) \/ currentlySaving = 0)
      /\ toMaster \in Seq(ToMaster)
  BY DEF TypeOK, MasterOK, QueuesOK
<1>1. ASSUME UNCHANGED <<toGs, gsSeq, lost, restarts, refused>>
      PROVE  /\ UnderWay("get") \/ Holds(toMaster, "get")
             /\ registered # <<>>
  BY <1>1 DEF OngoingIsAnswered, GsKnown
<1>2. ASSUME UNCHANGED <<toGs, gsSeq, lost, restarts, refused>>,
             Holds(inbox, "get") => Holds(inbox', "get"),
             \A h \in Handlers : Holds(box[h], "get") => Holds(box'[h], "get"),
             Holds(toMaster, "get") => Holds(toMaster', "get")
      PROVE  UnderWay("get")' \/ Holds(toMaster', "get")
  BY <1>1, <1>2 DEF UnderWay
<1> DEFINE Same5 == UNCHANGED <<toGs, gsSeq, lost, restarts, refused>>
<1>3. CASE HandleRefused
  <2>1. toMaster # <<>> /\ toMaster' = Tail(toMaster) /\ Head(toMaster).control # "get"
    BY <1>3 DEF HandleRefused
  <2>2. Holds(toMaster, "get") => Holds(toMaster', "get")
    BY <1>0, <2>1, TailHolds
  <2>3. ~refused
    BY <1>3 DEF HandleRefused
  <2>4. UNCHANGED <<box, inbox, toGs, gsSeq, lost, restarts>>
    BY <1>3 DEF HandleRefused, gsVars, boundVars
  <2> QED BY <2>2, <2>3, <2>4 DEF OngoingIsAnswered, UnderWay
<1>4. CASE HandleParamSet
  <2>1. Holds(toMaster, "get") => Holds(toMaster', "get")
    BY <1>4, AcceptHolds DEF HandleParamSet
  <2> QED BY <1>2, <1>4, <2>1, SetHolds DEF HandleParamSet, gsVars, boundVars, histVars
<1>5. CASE HandleLoad
  <2>1. Holds(toMaster, "get") => Holds(toMaster', "get")
    BY <1>5, AcceptHolds DEF HandleLoad
  <2> QED BY <1>2, <1>5, <2>1 DEF HandleLoad, gsVars, boundVars, histVars
<1>6. CASE HandleGet
  <2>1. registered # <<>>
    BY <1>1, <1>6 DEF HandleGet, StartDump, gsVars, boundVars
  <2> QED BY <1>0, <1>6, <2>1, StartAsks DEF HandleGet, UnderWay
<1>7. CASE HandleSave
  <2>1. Holds(toMaster, "get") => Holds(toMaster', "get")
    BY <1>7, AcceptHolds DEF HandleSave, StartDump
  <2>2. Same5 /\ registered # <<>> /\ UNCHANGED inbox
    BY <1>1, <1>7 DEF HandleSave, StartDump, gsVars, boundVars
  <2>3. currentlySaving < Len(registered)
    BY <1>0, <2>2 DEF TypeOK, MasterOK
  <2>4. registered[currentlySaving + 1] \in Handlers
    BY <1>0, <2>3 DEF TypeOK, MasterOK
  <2>5. box' = [box EXCEPT ![registered[currentlySaving + 1]] = Append(@, Request("save"))]
    BY <1>7, <2>3 DEF HandleSave, StartDump, Ask
  <2>6. \A h \in Handlers : Holds(box[h], "get") => Holds(box'[h], "get")
    BY <2>4, <2>5, BoxGrows
  <2> QED BY <1>2, <2>1, <2>2, <2>6
<1>8. CASE Loader
  <2>1. UNCHANGED <<toMaster, inbox, toGs, gsVars, boundVars, histVars>>
    BY <1>8 DEF Loader, LoadMore, LoadPacket, LoadFails, LoadUnchanged
  <2> QED BY <1>2, <1>8, <2>1, LoadHolds DEF gsVars, boundVars, histVars
<1>9. ASSUME NEW h \in Handlers, Handler(h)
      PROVE  UnderWay("get")' \/ Holds(toMaster', "get")
  <2>1. Same5 /\ UNCHANGED toMaster
    BY <1>9, HandlerHolds DEF HandlerUnchanged, gsVars, boundVars, histVars
  <2>2. UnderWay("get") => UnderWay("get")'
    BY <1>9, HandlerHolds DEF UnderWay
  <2> QED BY <1>1, <2>1, <2>2
<1>10. CASE HandleFcSet \/ HandleFcSaveFull
  <2>1. Holds(inbox, "get") => Holds(inbox', "get")
    BY <1>10, AnsweredHolds DEF HandleFcSet, HandleFcSaveFull
  <2> QED BY <1>2, <1>10, <2>1
          DEF HandleFcSet, HandleFcSaveFull, SaveUnchanged, gsVars, boundVars, memoryVars
<1>11. CASE HandleFcGet
  <2>1. PICK m : toGs' = Append(toGs, m)
    BY <1>11 DEF HandleFcGet
  <2>2. toGs \in Seq([piece : Piece, seq : Nat, last : BOOLEAN])
    BY DEF TypeOK, QueuesOK
  <2>3. Append(toGs, m) # <<>>
    BY <2>2, AppendNotEmpty
  <2> QED BY <2>1, <2>3
<1>12. CASE HandleFcSave
  <2>1. Holds(inbox, "get") => Holds(inbox', "get")
    BY <1>12, AnsweredHolds DEF HandleFcSave
  <2> QED BY <1>2, <1>12, <2>1, SaveAsks DEF HandleFcSave, SaveUnchanged, gsVars
<1>13. CASE Gs
  <2>1. \E m : toMaster' = Append(toMaster, m)
    BY <1>13 DEF Gs, GsWrite, GsSave, GsLoad, GsRequest, GsCommand, GsSends
  <2>2. Holds(toMaster, "get") => Holds(toMaster', "get")
    BY <1>0, <2>1, AppendHolds
  <2> QED BY <1>2, <1>13, <2>2 DEF Gs, GsWrite, GsSave, GsLoad, GsRequest, GsCommand, GsSends,
                                   GsUnchanged, gsVars, histVars
<1>14. CASE GsProcess
  <2>1. Head(toGs).seq = gsSeq /\ ~Head(toGs).last
    BY <1>14 DEF GsProcess, SequenceAfter
  <2>2. toMaster' = Append(toMaster, Request("get"))
    BY <1>14, <2>1 DEF GsProcess, GsSends
  <2> QED BY <1>0, <2>2, AppendHolds DEF Request
<1>15. CASE Restart
  <2>1. restarts' = restarts + 1 /\ restarts \in Nat
    BY <1>15 DEF Restart, TypeOK, CountsOK
  <2> QED BY <2>1
<1>16. CASE Lose \/ \E n \in Torn : HandleFcSaveFails(n)
  <2>1. lost' = lost + 1 /\ lost \in Nat
    BY <1>16 DEF Lose, HandleFcSaveFails, TypeOK, CountsOK
  <2> QED BY <2>1
<1>17. CASE (\E h \in Handlers : HandleHasParam(h)) \/ UNCHANGED vars
  BY <1>2, <1>17 DEF HandleHasParam, vars, gsVars, boundVars, histVars
<1> QED BY <1>3, <1>4, <1>5, <1>6, <1>7, <1>8, <1>9, <1>10, <1>11, <1>12, <1>13, <1>14, <1>15,
           <1>16, <1>17
        DEF Next, Tasks, Master, Answers, Faults, PowerLoss, PowerLossInWrite

-----------------------------------------------------------------------------
(* The theorems.                                                           *)

\* The inductive invariant.
IInv == /\ TypeOK /\ ParserBetweenLoads /\ Loading /\ Known /\ WedgedOnlyByLoss
        /\ GsKnown /\ OngoingIsAnswered

LEMMA Invariance == Spec => []IInv
<1>1. Init => IInv
  <2>1. Init => WedgedOnlyByLoss /\ GsKnown /\ OngoingIsAnswered
    BY DEF Init, WedgedOnlyByLoss, GsKnown, OngoingIsAnswered
  <2> QED BY <2>1, InitType, InitParser, InitKnown DEF IInv
<1>2. IInv /\ [Next]_vars => IInv'
  BY NextType, NextParser, NextKnown, NextWedged, NextGsKnown, NextOngoing DEF IInv
<1> QED BY <1>1, <1>2, PTL DEF Spec

\* No index of the master ever leaves the handlers it knows, no dump its tree, and
\* no packet of a save the memory, whatever the order in which the handlers answer
\* and whatever is lost or torn.
THEOREM TypeCorrect == Spec => []TypeOK
<1>1. IInv => TypeOK
  BY DEF IInv
<1> QED BY <1>1, Invariance, PTL

\* The parser, which one load hands on to the next, holds back nothing but the last
\* boundary of a frame, so that no octet of a load is parsed in the next one.
THEOREM ParserKeepsABoundary == Spec => []ParserBetweenLoads
<1>1. IInv => ParserBetweenLoads
  BY DEF IInv
<1> QED BY <1>1, Invariance, PTL

\* A master that is busy has been answered or will be, unless a message was lost or
\* it was asked before it knew a handler.
THEOREM OnlyLossWedges == Spec => []WedgedOnlyByLoss
<1>1. IInv => WedgedOnlyByLoss
  BY DEF IInv
<1> QED BY <1>1, Invariance, PTL

\* A ground station that waits for parameters is answered, unless something was lost,
\* the flight controller started again, or its request met a busy master.
THEOREM WaitsForAnAnswer == Spec => []OngoingIsAnswered
<1>1. IInv => OngoingIsAnswered
  BY DEF IInv
<1> QED BY <1>1, Invariance, PTL
=============================================================================
