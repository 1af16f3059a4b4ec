------------------------- MODULE ParamLoads_proofs -------------------------
(***************************************************************************)
(* Proof that a load of ParamMaster gives back what was saved: the frames  *)
(* of a save lie one behind the other with a cell between them, a load     *)
(* stands at one of them, and the parser has as much of it as was read.    *)
(***************************************************************************)
EXTENDS ParamMaster_proofs

-----------------------------------------------------------------------------
(* The invariant.                                                          *)

\* Packet p is in memory m from cell a on.
FrameAt(m, a, p) ==
    /\ a + Size[p.value] + 2 < Stop
    /\ m[a] = Boundary /\ m[a + Size[p.value] + 1] = Boundary
    /\ \A k \in 1 .. Size[p.value] : m[a + k] = Data(p, Size[p.value])[k]

\* The packets of sv are in memory m, number i from cell st[i] on.
Laid(st, sv, m) ==
    /\ st \in [1 .. Len(sv) -> Nat]
    /\ sv # <<>> => st[1] = 0
    /\ \A i \in 1 .. Len(sv) : FrameAt(m, st[i], sv[i]) /\ sv[i].seq = i - 1
    /\ \A i \in 1 .. Len(sv) - 1 :
          ~sv[i].last /\ st[i + 1] = st[i] + Size[sv[i].value] + 3

\* They and the cell behind each are all before this address.
Below(st, sv, address) == \A i \in 1 .. Len(sv) : st[i] + Size[sv[i].value] + 3 <= address

\* A save goes on behind the packets it has written, and one that is whole has its
\* last packet.
Goes(st, sv, address, seq, done) ==
    /\ address = 0 => seq = 0
    /\ address # 0 =>
          /\ sv # <<>> /\ ~done /\ seq = Len(sv) /\ ~sv[Len(sv)].last
          /\ address = st[Len(sv)] + Size[sv[Len(sv)].value] + 3
          /\ Below(st, sv, address)
    /\ done => sv # <<>> /\ sv[Len(sv)].last

\* Where a load l may be whose next packet p begins at cell a, and what the parser q
\* has then: it begins,
Begins(l, q) ==
    /\ l.address = 0 /\ l.start = 0 /\ l.expected = 0
    /\ q \in {Parser(FALSE, <<>>, <<>>), Parser(FALSE, <<>>, <<Boundary>>)}

\* is between two frames, before or after the cell that was left out,
Between(l, q, a) ==
    /\ a > 0 /\ l.start = a - 1
    /\ \/ l.address = a - 1 /\ q = Parser(FALSE, <<>>, <<Boundary>>)
       \/ l.address = a /\ \E pl \in Seq(Cells \ {Boundary}) :
                               Len(pl) <= 1 /\ q = Parser(TRUE, pl, <<>>)

\* or in the frame.
Inside(l, q, a, p) ==
    /\ a - 1 <= l.start
    /\ \E k \in 0 .. Size[p.value] :
          l.address = a + 1 + k /\ q = Parser(TRUE, Octets(p, Size[p.value], k), <<>>)

At(l, q, a, p) == (Begins(l, q) /\ a = 0) \/ Between(l, q, a) \/ Inside(l, q, a, p)

Reads(st, sv, l, q) ==
    l.expected < Len(sv) /\ At(l, q, st[l.expected + 1], sv[l.expected + 1])

Restores(st) ==
    /\ Laid(st, saved, memory)
    /\ Goes(st, saved, setAddress, saveSequence, whole)
    /\ load.on /\ whole /\ ~load.stale => Reads(st, saved, load, parser)

\* The inductive invariant.
Restorable == \E st \in [1 .. Len(saved) -> Nat] : Restores(st)

-----------------------------------------------------------------------------
(* The parser, exactly.                                                    *)

LEMMA ParserFields ==
    ASSUME NEW b, NEW pl, NEW cb
    PROVE  /\ Parser(b, pl, cb).startFound = b /\ Parser(b, pl, cb).payload = pl
           /\ Parser(b, pl, cb).cBuffer = cb
BY DEF Parser

LEMMA ReturnFields ==
    ASSUME NEW q, NEW result, NEW packet
    PROVE  /\ Return(q, result, packet).parser = q
           /\ Return(q, result, packet).result = result
           /\ Return(q, result, packet).packet = packet
BY DEF Return

LEMMA ParsedFields ==
    ASSUME NEW q, NEW result, NEW packet, Parsed = Return(q, result, packet)
    PROVE  Parsed.parser = q /\ Parsed.result = result /\ Parsed.packet = packet
BY DEF Return

\* What one octet does to a parser q with nothing kept.
Stuck(q, c) == Escaping(q) /\ ~Replaced(c)

LEMMA OctetEscape ==
    ASSUME NEW q, q.cBuffer = <<>>, NEW c, Len(q.payload) + 1 <= FrameMax,
           Len(q.payload) \in Nat, Stuck(q, c)
    PROVE  Octet(Return(q, "Cont", <<>>), c) = Return(Reset(q), "EscapeError", <<>>)
<1> DEFINE s0 == Return(q, "Cont", <<>>)
<1>1. s0.parser = q /\ s0.result = "Cont" /\ s0.packet = <<>>
  BY ReturnFields
<1>2. ~(Len(q.payload) + 1 > FrameMax)
  BY Constants
<1> HIDE DEF s0
<1>3. Octet(s0, c) = Return(Reset(q), "EscapeError", <<>>)
  BY <1>1, <1>2 DEF Octet, Stuck
<1> QED BY <1>3 DEF s0

LEMMA OctetData ==
    ASSUME NEW q, q.cBuffer = <<>>, NEW c, Len(q.payload) + 1 <= FrameMax,
           Len(q.payload) \in Nat, ~Stuck(q, c), c # Boundary
    PROVE  Octet(Return(q, "Cont", <<>>), c)
              = Return(Parser(q.startFound, Append(q.payload, c), <<>>), "Cont", <<>>)
<1> DEFINE s0 == Return(q, "Cont", <<>>)
<1>1. s0.parser = q /\ s0.result = "Cont" /\ s0.packet = <<>>
  BY ReturnFields
<1>2. ~(Len(q.payload) + 1 > FrameMax)
  BY Constants
<1> HIDE DEF s0
<1>3. Len(q.payload) + 1 \notin DOMAIN s0.packet
  BY <1>1
<1>4. Octet(s0, c) = Return(Parser(q.startFound, Append(q.payload, c), <<>>), "Cont", <<>>)
  BY <1>1, <1>2, <1>3 DEF Octet, Stuck
<1> QED BY <1>4 DEF s0

LEMMA OctetStarts ==
    ASSUME NEW q, q.cBuffer = <<>>, Len(q.payload) + 1 <= FrameMax,
           Len(q.payload) \in Nat, ~Stuck(q, Boundary), ~Ends(q)
    PROVE  Octet(Return(q, "Cont", <<>>), Boundary)
              = Return(Parser(TRUE, <<>>, <<>>), "Cont", <<>>)
<1> DEFINE s0 == Return(q, "Cont", <<>>)
<1>1. s0.parser = q /\ s0.result = "Cont" /\ s0.packet = <<>>
  BY ReturnFields
<1>2. ~(Len(q.payload) + 1 > FrameMax)
  BY Constants
<1> HIDE DEF s0
<1>3. Octet(s0, Boundary) = Return(Parser(TRUE, <<>>, <<>>), "Cont", <<>>)
  BY <1>1, <1>2 DEF Octet, Stuck
<1> QED BY <1>3 DEF s0

LEMMA OctetEnds ==
    ASSUME NEW q, q.cBuffer = <<>>, Len(q.payload) + 1 <= FrameMax,
           Len(q.payload) \in Nat, ~Stuck(q, Boundary), Ends(q), CrcOk(q.payload)
    PROVE  Octet(Return(q, "Cont", <<>>), Boundary)
              = Return(Parser(FALSE, <<>>, <<Boundary>>), "OK", q.payload)
<1> DEFINE s0 == Return(q, "Cont", <<>>)
<1>1. s0.parser = q /\ s0.result = "Cont" /\ s0.packet = <<>>
  BY ReturnFields
<1>2. ~(Len(q.payload) + 1 > FrameMax)
  BY Constants
<1> HIDE DEF s0
<1>3. Octet(s0, Boundary) = Finish(q)
  BY <1>1, <1>2 DEF Octet, Stuck
<1>4. Append(q.cBuffer, Boundary) = <<Boundary>>
  OBVIOUS
<1>5. Finish(q) = Return(Parser(FALSE, <<>>, <<Boundary>>), "OK", q.payload)
  BY <1>4 DEF Finish
<1> QED BY <1>3, <1>5 DEF s0

LEMMA ParseOne ==
    ASSUME NEW b, NEW pl, NEW c
    PROVE  Parse(Parser(b, pl, <<>>), c) = Octet(Return(Parser(b, pl, <<>>), "Cont", <<>>), c)
BY ParserFields DEF Parse

\* The first boundary, whatever the last load left in the buffer.
LEMMA ParseBegins ==
    ASSUME NEW q \in {Parser(FALSE, <<>>, <<>>), Parser(FALSE, <<>>, <<Boundary>>)}
    PROVE  Parse(q, Boundary) = Return(Parser(TRUE, <<>>, <<>>), "Cont", <<>>)
<1> DEFINE new   == Parser(FALSE, <<>>, <<>>)
           begun == Parser(TRUE, <<>>, <<>>)
<1>1. /\ new.payload = <<>> /\ new.cBuffer = <<>> /\ ~new.startFound
      /\ begun.payload = <<>> /\ begun.cBuffer = <<>>
  BY DEF Parser
<1>2. Len(<<>>) = 0 /\ 0 \in Nat /\ 1 <= FrameMax
  BY FrameAssumption
<1>3. /\ ~Stuck(new, Boundary) /\ ~Ends(new)
      /\ ~Stuck(begun, Boundary) /\ ~Ends(begun)
  <2> HIDE DEF new, begun
  <2> QED BY <1>1, <1>2, FrameAssumption DEF Stuck, Escaping, Ends
<1>4. /\ Octet(Return(new, "Cont", <<>>), Boundary) = Return(begun, "Cont", <<>>)
      /\ Octet(Return(begun, "Cont", <<>>), Boundary) = Return(begun, "Cont", <<>>)
  <2> HIDE DEF new, begun
  <2>1. Len(new.payload) = 0 /\ Len(begun.payload) = 0
    BY <1>1, <1>2
  <2>2. begun = Parser(TRUE, <<>>, <<>>)
    BY DEF begun
  <2>3. 0 + 1 <= FrameMax
    BY <1>2
  <2>4. Octet(Return(new, "Cont", <<>>), Boundary) = Return(begun, "Cont", <<>>)
    BY <1>1, <1>2, <1>3, <2>1, <2>2, <2>3, OctetStarts
  <2>5. Octet(Return(begun, "Cont", <<>>), Boundary) = Return(begun, "Cont", <<>>)
    BY <1>1, <1>2, <1>3, <2>1, <2>2, <2>3, OctetStarts
  <2> QED BY <2>4, <2>5
<1>5. CASE q = new
  BY <1>4, <1>5, ParseOne
<1>6. CASE q = Parser(FALSE, <<>>, <<Boundary>>)
  <2>1. q.startFound = FALSE /\ q.payload = <<>> /\ q.cBuffer = <<Boundary>>
    BY <1>6 DEF Parser
  <2>2. q.cBuffer # <<>> /\ Head(q.cBuffer) = Boundary
    BY <2>1
  <2>3. Parse(q, Boundary) = Octet(Octet(Return(new, "Cont", <<>>), Boundary), Boundary)
    BY <2>1, <2>2 DEF Parse
  <2> QED BY <2>3, <1>4
<1> QED BY <1>5, <1>6

\* The cell that was left out: it is taken for the first of a frame.
LEMMA ParseLeftOut ==
    ASSUME NEW c \in Cells
    PROVE  \E pl \in Seq(Cells \ {Boundary}) :
              /\ Len(pl) <= 1
              /\ Parse(Parser(FALSE, <<>>, <<Boundary>>), c)
                    = Return(Parser(TRUE, pl, <<>>), "Cont", <<>>)
<1> DEFINE q     == Parser(FALSE, <<>>, <<Boundary>>)
           new   == Parser(FALSE, <<>>, <<>>)
           begun == Parser(TRUE, <<>>, <<>>)
<1>1. CASE c = Boundary
  <2>1. Parse(q, c) = Return(begun, "Cont", <<>>)
    BY <1>1, ParseBegins
  <2>2. <<>> \in Seq(Cells \ {Boundary}) /\ Len(<<>>) <= 1
    OBVIOUS
  <2> QED BY <2>1, <2>2
<1>2. CASE c # Boundary
  <2>1. Parse(new, Boundary) = Return(begun, "Cont", <<>>)
    BY ParseBegins
  <2>2. Octet(Return(new, "Cont", <<>>), Boundary) = Return(begun, "Cont", <<>>)
    BY <2>1, ParseOne
  <2>3. q.startFound = FALSE /\ q.payload = <<>> /\ q.cBuffer = <<Boundary>>
    BY DEF Parser
  <2>4. q.cBuffer # <<>> /\ Head(q.cBuffer) = Boundary
    <3> HIDE DEF q
    <3> QED BY <2>3
  <2>5. Parse(q, c) = Octet(Return(begun, "Cont", <<>>), c)
    <3> HIDE DEF q
    <3> QED BY <2>2, <2>3, <2>4 DEF Parse
  <2>6. begun.payload = <<>> /\ begun.cBuffer = <<>> /\ begun.startFound = TRUE
    BY DEF Parser
  <2>7. Octet(Return(begun, "Cont", <<>>), c) = Return(Parser(TRUE, <<c>>, <<>>), "Cont", <<>>)
    <3> HIDE DEF begun
    <3>1. Len(begun.payload) = 0 /\ 1 <= FrameMax
      BY <2>6, FrameAssumption
    <3>2. ~Stuck(begun, c)
      BY <2>6 DEF Stuck, Escaping
    <3>3. Append(begun.payload, c) = <<c>>
      BY <2>6
    <3>4. Len(begun.payload) + 1 <= FrameMax /\ Len(begun.payload) \in Nat
      BY <3>1
    <3> QED BY <1>2, <2>6, <3>2, <3>3, <3>4, OctetData
  <2>8. <<c>> \in Seq(Cells \ {Boundary}) /\ Len(<<c>>) <= 1
    BY <1>2
  <2> QED BY <2>5, <2>7, <2>8
<1> QED BY <1>1, <1>2

\* The first boundary of a frame behind another, after the cell that was left out.
LEMMA ParseNext ==
    ASSUME NEW pl \in Seq(Cells \ {Boundary}), Len(pl) <= 1
    PROVE  /\ pl # <<Escape>> =>
                 Parse(Parser(TRUE, pl, <<>>), Boundary)
                    = Return(Parser(TRUE, <<>>, <<>>), "Cont", <<>>)
           /\ pl = <<Escape>> =>
                 Parse(Parser(TRUE, pl, <<>>), Boundary).result = "EscapeError"
<1> DEFINE q == Parser(TRUE, pl, <<>>)
<1>1. q.payload = pl /\ q.cBuffer = <<>> /\ q.startFound = TRUE
  BY DEF Parser
<1>2. Len(pl) \in Nat /\ Len(pl) + 1 <= FrameMax /\ ~(Len(pl) > MinFrame)
  BY FrameAssumption
<1>3. Parse(q, Boundary) = Octet(Return(q, "Cont", <<>>), Boundary)
  BY ParseOne
<1> HIDE DEF q
<1>4. ~Replaced(Boundary)
  BY DEF Replaced
<1>5. Escaping(q) <=> pl = <<Escape>>
  <2>1. CASE pl = <<>>
    BY <1>1, <2>1 DEF Escaping
  <2>2. CASE pl # <<>>
    <3>1. Len(pl) = 1
      <4>1. Len(pl) # 0
        BY <2>2
      <4>2. Len(pl) \in Nat
        BY <1>2
      <4>3. \A n \in Nat : n <= 1 /\ n # 0 => n = 1
        OBVIOUS
      <4> QED BY <4>1, <4>2, <4>3
    <3>2. pl = <<pl[1]>>
      BY <3>1
    <3>3. pl = <<Escape>> <=> pl[1] = Escape
      BY <3>2
    <3> QED BY <1>1, <2>2, <3>1, <3>3 DEF Escaping
  <2> QED BY <2>1, <2>2
<1>6. CASE pl = <<Escape>>
  <2>1. Parse(q, Boundary) = Return(Reset(q), "EscapeError", <<>>)
    BY <1>1, <1>2, <1>3, <1>4, <1>5, <1>6, OctetEscape DEF Stuck
  <2>2. Parse(q, Boundary).result = "EscapeError"
    BY <2>1, ReturnFields
  <2> QED BY <1>6, <2>2 DEF q
<1>7. CASE pl # <<Escape>>
  <2>1. ~Stuck(q, Boundary) /\ ~Ends(q)
    BY <1>1, <1>2, <1>5, <1>7 DEF Stuck, Ends
  <2>2. Parse(q, Boundary) = Return(Parser(TRUE, <<>>, <<>>), "Cont", <<>>)
    BY <1>1, <1>2, <1>3, <2>1, OctetStarts
  <2> QED BY <1>7, <2>2 DEF q
<1> QED BY <1>6, <1>7

\* The octets of a frame.
LEMMA OctetsForm ==
    ASSUME NEW p \in Packet, NEW n \in Nat, NEW k \in 0 .. n
    PROVE  /\ Octets(p, n, k) \in Seq(Cells \ {Boundary}) /\ Len(Octets(p, n, k)) = k
           /\ \A i \in 1 .. k :
                 Octets(p, n, k)[i] = IF <<n, i>> \in Escaped THEN Escape
                                      ELSE [of |-> p, nr |-> i, size |-> n]
           /\ k = 0 => Octets(p, n, k) = <<>>
<1> DEFINE o == Octets(p, n, k)
           D == Cells \ {Boundary}
<1>1. o = [i \in 1 .. k |-> IF <<n, i>> \in Escaped THEN Escape
                            ELSE [of |-> p, nr |-> i, size |-> n]]
  BY DEF Octets
<1>2. Escape \in D /\ \A i \in 1 .. k : [of |-> p, nr |-> i, size |-> n] \in D
  BY Constants, CellAssumption DEF Cells
<1>3. o \in [1 .. k -> D]
  <2> HIDE DEF D
  <2> QED BY <1>1, <1>2
<1>4. o \in Seq(D) /\ Len(o) = k
  <2> HIDE DEF D, o
  <2> QED BY <1>3
<1>5. k = 0 => o = <<>>
  <2> HIDE DEF o, D
  <2> QED BY <1>4
<1> QED BY <1>1, <1>4, <1>5

\* An escape octet is followed by its replacement, and is not the last octet.
LEMMA OctetsGo ==
    ASSUME NEW p \in Packet, NEW n \in Nat, NEW k \in 0 .. n, NEW q,
           q.payload = Octets(p, n, k)
    PROVE  /\ k < n => ~Stuck(q, Data(p, n)[k + 1]) /\ Data(p, n)[k + 1] # Boundary
           /\ k = n => ~Stuck(q, Boundary)
<1>1. /\ Octets(p, n, k) \in Seq(Cells \ {Boundary}) /\ Len(Octets(p, n, k)) = k
      /\ \A i \in 1 .. k :
            Octets(p, n, k)[i] = IF <<n, i>> \in Escaped THEN Escape
                                 ELSE [of |-> p, nr |-> i, size |-> n]
      /\ k = 0 => Octets(p, n, k) = <<>>
  BY OctetsForm
<1>2. Escaping(q) => k > 0 /\ <<n, k>> \in Escaped
  <2>1. CASE k = 0
    BY <1>1, <2>1 DEF Escaping
  <2>2. CASE k > 0
    <3>1. q.payload[Len(q.payload)] = IF <<n, k>> \in Escaped THEN Escape
                                      ELSE [of |-> p, nr |-> k, size |-> n]
      BY <1>1, <2>2
    <3>2. [of |-> p, nr |-> k, size |-> n] # Escape
      BY CellAssumption
    <3> QED BY <2>2, <3>1, <3>2 DEF Escaping
  <2> QED BY <2>1, <2>2
<1>3. \A e \in Escaped : e[2] < e[1] /\ <<e[1], e[2] + 1>> \notin Escaped
  BY FrameAssumption
<1>4. ASSUME k < n
      PROVE  ~Stuck(q, Data(p, n)[k + 1]) /\ Data(p, n)[k + 1] # Boundary
  <2> DEFINE c == Data(p, n)[k + 1]
  <2>1. /\ Data(p, n) \in Seq(Cells \ {Boundary}) /\ Len(Data(p, n)) = n
        /\ c = IF <<n, k + 1>> \in Escaped THEN Escape
               ELSE [of |-> p, nr |-> k + 1, size |-> n]
    <3>1. n \in 0 .. n /\ k + 1 \in 1 .. n
      BY <1>4
    <3>2. /\ Octets(p, n, n) \in Seq(Cells \ {Boundary}) /\ Len(Octets(p, n, n)) = n
          /\ \A i \in 1 .. n :
                Octets(p, n, n)[i] = IF <<n, i>> \in Escaped THEN Escape
                                     ELSE [of |-> p, nr |-> i, size |-> n]
      BY <3>1, OctetsForm
    <3> QED BY <3>1, <3>2 DEF Data
  <2>2. c # Boundary
    BY <2>1, Constants, CellAssumption
  <2>3. ASSUME Escaping(q) PROVE Replaced(c)
    <3>1. <<n, k>> \in Escaped
      BY <1>2, <2>3
    <3>2. <<n, k + 1>> \notin Escaped
      BY <3>1, <1>3
    <3>3. c = [of |-> p, nr |-> k + 1, size |-> n]
      BY <2>1, <3>2
    <3>4. c \notin {Boundary, Blank, Escape}
      BY <3>3, CellAssumption
    <3>5. c.size = n /\ c.nr - 1 = k
      BY <3>3
    <3> QED BY <3>1, <3>4, <3>5 DEF Replaced
  <2> QED BY <2>2, <2>3 DEF Stuck
<1>5. ASSUME k = n
      PROVE  ~Escaping(q)
  <2>1. ASSUME <<n, n>> \in Escaped PROVE FALSE
    <3>1. <<n, n>>[2] < <<n, n>>[1]
      BY <1>3, <2>1
    <3> QED BY <3>1
  <2> QED BY <1>2, <1>5, <2>1
<1> QED BY <1>4, <1>5 DEF Stuck

LEMMA ParseOctet ==
    ASSUME NEW p \in Packet, NEW n \in Nat, n + 2 <= FrameMax, NEW k \in 0 .. n, k < n
    PROVE  Parse(Parser(TRUE, Octets(p, n, k), <<>>), Data(p, n)[k + 1])
              = Return(Parser(TRUE, Octets(p, n, k + 1), <<>>), "Cont", <<>>)
<1> DEFINE q == Parser(TRUE, Octets(p, n, k), <<>>)
           c == Data(p, n)[k + 1]
<1>1. q.payload = Octets(p, n, k) /\ q.cBuffer = <<>> /\ q.startFound = TRUE
  BY DEF Parser
<1>2. Parse(q, c) = Octet(Return(q, "Cont", <<>>), c)
  BY ParseOne
<1>3. Append(Octets(p, n, k), c) = Octets(p, n, k + 1)
  <2>1. k + 1 \in 0 .. n /\ n \in 0 .. n /\ k + 1 \in 1 .. n
    OBVIOUS
  <2> DEFINE a == Octets(p, n, k)
             b == Octets(p, n, k + 1)
  <2>2. /\ a \in Seq(Cells \ {Boundary}) /\ Len(a) = k
        /\ \A i \in 1 .. k : a[i] = IF <<n, i>> \in Escaped THEN Escape
                                    ELSE [of |-> p, nr |-> i, size |-> n]
    BY OctetsForm, SMTT(30)
  <2>3. /\ b \in Seq(Cells \ {Boundary}) /\ Len(b) = k + 1
        /\ \A i \in 1 .. k + 1 : b[i] = IF <<n, i>> \in Escaped THEN Escape
                                        ELSE [of |-> p, nr |-> i, size |-> n]
    BY <2>1, OctetsForm, SMTT(30)
  <2>4. c = IF <<n, k + 1>> \in Escaped THEN Escape
            ELSE [of |-> p, nr |-> k + 1, size |-> n]
    <3>1. \A i \in 1 .. n :
             Octets(p, n, n)[i] = IF <<n, i>> \in Escaped THEN Escape
                                  ELSE [of |-> p, nr |-> i, size |-> n]
      BY <2>1, OctetsForm
    <3> QED BY <2>1, <3>1 DEF Data
  <2>5. b[k + 1] = c /\ \A i \in 1 .. k : b[i] = a[i]
    <3>1. k + 1 \in 1 .. k + 1 /\ \A i \in 1 .. k : i \in 1 .. k + 1
      OBVIOUS
    <3> HIDE DEF a, b, c
    <3> QED BY <2>2, <2>3, <2>4, <3>1
  <2> HIDE DEF a, b, c
  <2>8. Append(a, c) = b
    <3> DEFINE S == Cells \cup {c}
    <3>1. a \in Seq(S) /\ c \in S /\ b \in Seq(S)
      BY <2>2, <2>3
    <3> HIDE DEF S
    <3>2. /\ Append(a, c) \in Seq(S) /\ Len(Append(a, c)) = k + 1
          /\ Append(a, c)[k + 1] = c /\ \A i \in 1 .. k : Append(a, c)[i] = a[i]
      BY <2>2, <3>1
    <3>3. \A i \in 1 .. k + 1 : i = k + 1 \/ i \in 1 .. k
      OBVIOUS
    <3>4. \A i \in 1 .. k + 1 : Append(a, c)[i] = b[i]
      BY <2>5, <3>2, <3>3
    <3> QED BY <2>3, <3>1, <3>2, <3>4
  <2> QED BY <2>8 DEF a, b
<1>4. Len(Octets(p, n, k)) = k
  BY OctetsForm
<1>5. ~Stuck(q, c) /\ c # Boundary
  <2> HIDE DEF q
  <2> QED BY <1>1, OctetsGo
<1> HIDE DEF q, c
<1>6. Parse(q, c) = Return(Parser(q.startFound, Append(q.payload, c), <<>>), "Cont", <<>>)
  <2>1. Len(q.payload) + 1 <= FrameMax /\ Len(q.payload) \in Nat
    BY <1>1, <1>4, FrameAssumption
  <2> QED BY <1>1, <1>2, <1>5, <2>1, OctetData
<1>7. Parse(q, c) = Return(Parser(TRUE, Octets(p, n, k + 1), <<>>), "Cont", <<>>)
  BY <1>1, <1>3, <1>6
<1> QED BY <1>7 DEF q, c

LEMMA ParseEnds ==
    ASSUME NEW p \in Packet, NEW n \in Nat, MinFrame < n, n + 2 <= FrameMax
    PROVE  /\ Parse(Parser(TRUE, Data(p, n), <<>>), Boundary)
                 = Return(Parser(FALSE, <<>>, <<Boundary>>), "OK", Data(p, n))
           /\ Data(p, n)[1].of = p
<1> DEFINE q == Parser(TRUE, Data(p, n), <<>>)
<1>1. q.payload = Data(p, n) /\ q.cBuffer = <<>> /\ q.startFound = TRUE
  BY DEF Parser
<1>2. Parse(q, Boundary) = Octet(Return(q, "Cont", <<>>), Boundary)
  BY ParseOne
<1>3. n \in 0 .. n /\ 1 \in 1 .. n /\ <<n, 1>> \notin Escaped
  <2>1. \A e \in Escaped : 1 < e[2]
    BY FrameAssumption
  <2>2. n > 0
    BY FrameAssumption
  <2> QED BY <2>1, <2>2
<1>4. Len(Data(p, n)) = n /\ Data(p, n)[1] = [of |-> p, nr |-> 1, size |-> n]
  BY <1>3, OctetsForm DEF Data
<1> HIDE DEF q
<1>5. CrcOk(q.payload)
  <2>1. /\ Data(p, n)[1] \notin {Blank, Escape}
        /\ Data(p, n)[1].of = p /\ Data(p, n)[1].size = n
    BY <1>4, CellAssumption
  <2> QED BY <1>1, <2>1 DEF CrcOk
<1>6. Ends(q)
  BY <1>1, <1>4 DEF Ends
<1>7. ~Stuck(q, Boundary)
  BY <1>1, <1>3, OctetsGo DEF Data
<1>8. Len(q.payload) + 1 <= FrameMax /\ Len(q.payload) \in Nat
  BY <1>1, <1>4, FrameAssumption
<1>9. Parse(q, Boundary) = Return(Parser(FALSE, <<>>, <<Boundary>>), "OK", Data(p, n))
  BY <1>1, <1>2, <1>5, <1>6, <1>7, <1>8, OctetEnds
<1>10. Data(p, n)[1].of = p
  BY <1>4
<1> QED BY <1>9, <1>10 DEF q

(* What is in the memory.                                                  *)

LEMMA FrameCells ==
    ASSUME NEW p \in Packet, NEW n \in Nat
    PROVE  /\ Frame(p, n)[1] = Boundary /\ Frame(p, n)[n + 2] = Boundary
           /\ \A k \in 1 .. n : Frame(p, n)[k + 1] = Data(p, n)[k]
<1> DEFINE b == <<Boundary>>
           d == Data(p, n)
           e == b \o d
           f == Frame(p, n)
<1>1. d \in Seq(Cells) /\ Len(d) = n
  <2>1. n \in 0 .. n
    OBVIOUS
  <2> QED BY <2>1, OctetsForm DEF Data
<1>2. b \in Seq(Cells) /\ Len(b) = 1 /\ b[1] = Boundary
  BY DEF Cells
<1>3. e = b \o d
  OBVIOUS
<1>4. f = e \o b
  BY DEF Frame
<1>a. b \in Seq(Cells) /\ d \in Seq(Cells)
  BY <1>1, <1>2
<1> HIDE DEF b, d, e, f
<1>5. /\ e \in Seq(Cells) /\ Len(e) = Len(b) + Len(d)
      /\ \A i \in 1 .. Len(b) : e[i] = b[i]
      /\ \A i \in 1 .. Len(d) : e[Len(b) + i] = d[i]
  <2>1. e \in Seq(Cells) /\ Len(e) = Len(b) + Len(d)
    BY <1>a, <1>3
  <2>2. \A i \in 1 .. Len(b) : e[i] = b[i]
    BY <1>a, <1>3
  <2>3. \A i \in 1 .. Len(d) : e[Len(b) + i] = d[i]
    BY <1>a, <1>3
  <2> QED BY <2>1, <2>2, <2>3
<1>b. e \in Seq(Cells)
  BY <1>5
<1>6. /\ \A i \in 1 .. Len(e) : f[i] = e[i]
      /\ \A i \in 1 .. Len(b) : f[Len(e) + i] = b[i]
  <2>1. \A i \in 1 .. Len(e) : f[i] = e[i]
    BY <1>a, <1>b, <1>4
  <2>2. \A i \in 1 .. Len(b) : f[Len(e) + i] = b[i]
    BY <1>a, <1>b, <1>4
  <2> QED BY <2>1, <2>2
<1>7. Len(e) = n + 1 /\ e[1] = Boundary /\ \A k \in 1 .. n : e[k + 1] = d[k]
  <2>1. 1 \in 1 .. 1 /\ \A k \in 1 .. n : 1 + k = k + 1
    OBVIOUS
  <2> QED BY <1>1, <1>2, <1>5, <2>1
<1>8. f[1] = Boundary /\ f[n + 2] = Boundary
  <2>1. 1 \in 1 .. n + 1 /\ 1 \in 1 .. 1 /\ (n + 1) + 1 = n + 2
    OBVIOUS
  <2> QED BY <1>2, <1>6, <1>7, <2>1
<1>9. ASSUME NEW k \in 1 .. n
      PROVE  f[k + 1] = d[k]
  <2>1. k + 1 \in 1 .. n + 1
    OBVIOUS
  <2> QED BY <1>6, <1>7, <2>1
<1> QED BY <1>8, <1>9 DEF f, d

\* A frame that is there, cell by cell.
LEMMA FrameThere ==
    ASSUME NEW m, NEW a \in Nat, NEW p \in Packet, a + Size[p.value] + 2 < Stop,
           \A k \in 1 .. Size[p.value] + 2 : m[a + k - 1] = Frame(p, Size[p.value])[k]
    PROVE  FrameAt(m, a, p)
<1> DEFINE n == Size[p.value]
<1>1. n \in Nat
  BY Constants DEF Packet
<1> HIDE DEF n
<1>2. \A k \in 1 .. n + 2 : m[a + k - 1] = Frame(p, n)[k]
  BY DEF n
<1>3. m[a] = Boundary /\ m[a + n + 1] = Boundary
  <2>1. 1 \in 1 .. n + 2 /\ n + 2 \in 1 .. n + 2 /\ a + 1 - 1 = a /\ a + (n + 2) - 1 = a + n + 1
    BY <1>1
  <2> QED BY <1>1, <1>2, <2>1, FrameCells
<1>4. ASSUME NEW k \in 1 .. n
      PROVE  m[a + k] = Data(p, n)[k]
  <2>1. k + 1 \in 1 .. n + 2 /\ a + (k + 1) - 1 = a + k
    BY <1>1
  <2> QED BY <1>1, <1>2, <2>1, FrameCells
<1> QED BY <1>3, <1>4 DEF FrameAt, n

LEMMA DivMod ==
    ASSUME NEW d \in Nat \ {0}, NEW q \in Nat, NEW r \in 0 .. d - 1
    PROVE  (q * d + r) \div d = q /\ (q * d + r) % d = r
<1> DEFINE a == q * d + r
<1>1. a \in Nat
  OBVIOUS
<1>2. a \div d \in Nat /\ a % d \in 0 .. d - 1 /\ a = d * (a \div d) + (a % d)
  BY <1>1
<1> QED OBVIOUS

\* What an earlier flight has saved.
LEMMA OldSaveLaid ==
    ASSUME NEW s \in OldSaves
    PROVE  \E st \in [1 .. Len(s) -> Nat] : Laid(st, s, MemoryOf(s))
<1> DEFINE n == Size[s[1].value]
           d == n + 3
           St == [i \in 1 .. Len(s) |-> (i - 1) * d]
           m == MemoryOf(s)
<1>1. s \in Seq(Packet) /\ Len(s) \in Nat /\ DOMAIN s = 1 .. Len(s)
  BY Constants
<1>2. \A i \in 1 .. Len(s) :
         /\ s[i] \in Packet /\ s[i].seq = i - 1 /\ (s[i].last <=> i = Len(s))
         /\ s[i].value = s[1].value /\ i * d <= Stop
  <2>1. \A i \in DOMAIN s :
           /\ s[i].seq = i - 1 /\ (s[i].last <=> i = Len(s))
           /\ s[i].value = s[1].value /\ i * (Size[s[1].value] + 3) <= Stop
    BY ParamAssumption
  <2>2. ASSUME NEW i \in 1 .. Len(s)
        PROVE  i \in DOMAIN s /\ s[i] \in Packet
    BY <1>1
  <2> HIDE DEF n, St, m
  <2>3. ASSUME NEW i \in 1 .. Len(s)
        PROVE  i * d <= Stop
    BY <2>1, <2>2 DEF n
  <2> HIDE DEF d
  <2> QED BY <2>1, <2>2, <2>3
<1>3. \A i \in 1 .. Len(s) : n \in Nat /\ d \in Nat \ {0} /\ Size[s[i].value] = n
  <2>1. ASSUME NEW i \in 1 .. Len(s)
        PROVE  n \in Nat /\ Size[s[i].value] = n
    <3>1. 1 \in 1 .. Len(s)
      BY <1>1
    <3> QED BY <1>2, <3>1, Constants DEF Packet
  <2> QED BY <2>1
<1>4. ASSUME NEW i \in 1 .. Len(s)
      PROVE  St[i] \in Nat /\ FrameAt(m, St[i], s[i])
  <2>1. n \in Nat /\ d \in Nat \ {0} /\ Size[s[i].value] = n /\ i - 1 \in Nat /\ s # <<>>
    BY <1>1, <1>3
  <2> DEFINE a == (i - 1) * d
  <2>2. a \in Nat /\ a + n + 2 < Stop
    <3>1. i * d = a + d /\ i * d <= Stop
      <4>1. i * d <= Stop
        BY <1>2
      <4> HIDE DEF n, d
      <4>2. i * d = a + d
        BY <2>1
      <4> QED BY <4>1, <4>2
    <3>2. a \in Nat
      BY <2>1
    <3>3. d = n + 3 /\ Stop \in Nat
      BY Constants
    <3> HIDE DEF a, n, d
    <3> QED BY <2>1, <3>1, <3>2, <3>3, SMTT(30)
  <2>3. ASSUME NEW k \in 1 .. n + 2
        PROVE  m[a + k - 1] = Frame(s[i], n)[k]
    <3>1. k - 1 \in 0 .. d - 1 /\ k - 1 + 1 = k /\ i - 1 + 1 = i
      <4> HIDE DEF n
      <4> QED BY <2>1
    <3>2. (a + (k - 1)) \div d = i - 1 /\ (a + (k - 1)) % d = k - 1
      BY <2>1, <3>1, DivMod
    <3>3. a + k - 1 = a + (k - 1) /\ a + (k - 1) \in 0 .. Stop - 1
      <4>1. k - 1 <= n + 1 /\ k \in Nat /\ Stop \in Nat
        BY <2>1, Constants
      <4> HIDE DEF a, n, d
      <4> QED BY <2>1, <2>2, <3>1, <4>1, SMTT(30)
    <3>4. m[a + (k - 1)] = Frame(s[i], n)[k]
      <4> HIDE DEF a
      <4>1. m[a + (k - 1)] =
               LET I == ((a + (k - 1)) \div d) + 1
                   K == ((a + (k - 1)) % d) + 1
               IN  IF I \in DOMAIN s /\ K \in 1 .. n + 2 THEN Frame(s[I], n)[K] ELSE Blank
        BY <2>1, <3>3 DEF MemoryOf
      <4>2. ((a + (k - 1)) \div d) + 1 = i /\ ((a + (k - 1)) % d) + 1 = k
        BY <3>1, <3>2
      <4> QED BY <1>1, <4>1, <4>2
    <3> QED BY <3>3, <3>4
  <2>4. St[i] = a
    OBVIOUS
  <2> HIDE DEF n, a, m, St
  <2> QED BY <1>2, <2>1, <2>2, <2>3, <2>4, FrameThere
<1>5. s # <<>> => St[1] = 0
  <2>1. ASSUME s # <<>> PROVE St[1] = 0
    <3>1. 1 \in 1 .. Len(s)
      BY <1>1, <2>1
    <3>2. d \in Nat
      BY <1>3, <3>1
    <3>3. St[1] = (1 - 1) * d
      BY <3>1
    <3> HIDE DEF d, St
    <3> QED BY <3>2, <3>3
  <2> QED BY <2>1
<1>6. ASSUME NEW i \in 1 .. Len(s) - 1
      PROVE  ~s[i].last /\ St[i + 1] = St[i] + Size[s[i].value] + 3
  <2>1. i \in 1 .. Len(s) /\ i + 1 \in 1 .. Len(s) /\ i # Len(s)
    <3>1. \A L \in Nat : \A j \in 1 .. L - 1 : j \in 1 .. L /\ j + 1 \in 1 .. L /\ j # L
      OBVIOUS
    <3> HIDE DEF St, n, m
    <3> QED BY <1>1, <3>1
  <2>2. St[i + 1] = ((i + 1) - 1) * d /\ St[i] = (i - 1) * d
    BY <2>1
  <2>3. d \in Nat /\ Size[s[i].value] + 3 = d /\ n \in Nat
    BY <1>3, <2>1
  <2>4. ((i + 1) - 1) * d = (i - 1) * d + d
    <3> HIDE DEF d
    <3> QED BY <2>3
  <2>5. (i - 1) * d + d = (i - 1) * d + Size[s[i].value] + 3
    <3> DEFINE x == (i - 1) * d
    <3>1. x \in Int
      <4> HIDE DEF d
      <4> QED BY <2>3
    <3>2. Size[s[i].value] = n
      BY <1>3, <2>1
    <3> HIDE DEF x, n
    <3>3. x + (n + 3) = x + n + 3
      BY <2>3, <3>1
    <3> QED BY <3>2, <3>3 DEF x
  <2> HIDE DEF St, d
  <2> QED BY <1>2, <2>1, <2>2, <2>4, <2>5
<1>7. St \in [1 .. Len(s) -> Nat]
  <2> DEFINE at(i) == (i - 1) * d
  <2>1. \A i \in 1 .. Len(s) : at(i) \in Nat
    BY <1>4
  <2> HIDE DEF at
  <2>2. [i \in 1 .. Len(s) |-> at(i)] \in [1 .. Len(s) -> Nat]
    BY <2>1
  <2> QED BY <2>2 DEF at
<1> HIDE DEF St, m
<1>8. Laid(St, s, m)
  BY <1>2, <1>4, <1>5, <1>6, <1>7 DEF Laid
<1> QED BY <1>7, <1>8 DEF m

(* Saves.                                                                  *)

\* Nothing is written below this address.
Kept(m, m2, address) == \A c \in Nat : c < address => m2[c] = m[c]

\* The cells of a frame lie before its end.
LEMMA FrameStays ==
    ASSUME NEW m, NEW m2, NEW a \in Nat, NEW b \in Nat, NEW p \in Packet, FrameAt(m, a, p),
           a + Size[p.value] + 3 <= b, Kept(m, m2, b)
    PROVE  FrameAt(m2, a, p)
<1> DEFINE n == Size[p.value]
<1>1. n \in Nat
  BY Constants DEF Packet
<1>2. m2[a] = m[a] /\ m2[a + n + 1] = m[a + n + 1]
  <2> HIDE DEF n
  <2>1. a < b /\ a + n + 1 \in Nat /\ a + n + 1 < b
    BY <1>1 DEF n
  <2> QED BY <2>1 DEF Kept
<1>3. \A k \in 1 .. n : m2[a + k] = m[a + k]
  <2> TAKE k \in 1 .. n
  <2>1. a + k \in Nat /\ a + k < b
    BY <1>1
  <2> QED BY <2>1 DEF Kept
<1> QED BY <1>2, <1>3 DEF FrameAt

\* The packet that is written is there, and what was before it is too.
LEMMA WriteLays ==
    ASSUME TypeOK, NEW m \in Answer, m.piece \in Piece, m.value \in Values, m.last \in BOOLEAN,
           InMemory(m), Write(m, Size[m.value] + 2)
    PROVE  /\ Written(m) \in Packet /\ FrameAt(memory', setAddress, Written(m))
           /\ Kept(memory, memory', setAddress)
<1> DEFINE w == Written(m)
           n == Size[m.value]
           l == Size[m.value] + 2
           f == Frame(w, n)
<1>1. n \in Nat /\ n + 2 \in Nat /\ n + 2 <= n + 2
  <2>1. n \in Nat
    BY Constants
  <2> HIDE DEF n
  <2> QED BY <2>1
<1>2. w \in Packet
  <2> HIDE DEF w
  <2>1. Size[m.value] + 2 \in Nat /\ Size[m.value] + 2 <= Size[m.value] + 2
    BY <1>1
  <2> QED BY <2>1, WriteType DEF w
<1>3. w.value = m.value
  BY DEF Written
<1>a. Write(m, l)
  OBVIOUS
<1>b. l = n + 2
  OBVIOUS
<1>5. /\ DOMAIN memory = 0 .. Stop - 1 /\ setAddress \in Nat /\ Stop \in Nat
      /\ setAddress + n + 2 < Stop
  BY Constants DEF TypeOK, MemoryOK, MasterOK, InMemory
<1> HIDE DEF l
<1>4. memory' = [a \in DOMAIN memory |-> IF a - setAddress \in 0 .. l - 1
                                         THEN f[a - setAddress + 1] ELSE memory[a]]
  BY <1>a DEF Write
<1> HIDE DEF n, f, w
<1>6. \A k \in 1 .. n + 2 : memory'[setAddress + k - 1] = f[k]
  <2> TAKE k \in 1 .. n + 2
  <2> DEFINE a == setAddress + k - 1
  <2>1. a \in 0 .. Stop - 1 /\ a - setAddress \in 0 .. l - 1 /\ a - setAddress + 1 = k
    BY <1>1, <1>5, <1>b
  <2> HIDE DEF a
  <2>2. memory'[a] = f[k]
    BY <1>4, <1>5, <2>1
  <2> QED BY <2>2 DEF a
<1>7. ASSUME NEW c \in Nat, c < setAddress
      PROVE  memory'[c] = memory[c]
  <2>1. c \in 0 .. Stop - 1 /\ c - setAddress \notin 0 .. l - 1
    BY <1>1, <1>5, <1>7
  <2> QED BY <1>4, <1>5, <2>1
<1>8. FrameAt(memory', setAddress, w)
  <2>1. n = Size[w.value]
    BY <1>3 DEF n
  <2>2. setAddress + Size[w.value] + 2 < Stop
    BY <1>5, <2>1
  <2>3. \A k \in 1 .. Size[w.value] + 2 : memory'[setAddress + k - 1] = Frame(w, Size[w.value])[k]
    BY <1>6, <2>1 DEF f
  <2> QED BY <1>2, <1>5, <2>2, <2>3, FrameThere
<1> QED BY <1>2, <1>7, <1>8 DEF w, Kept

LEMMA LaidFirst ==
    ASSUME NEW m, NEW p \in Packet, FrameAt(m, 0, p), p.seq = 0
    PROVE  Laid([i \in 1 .. 1 |-> 0], <<p>>, m)
<1> DEFINE sv == <<p>>
           st == [i \in 1 .. 1 |-> 0]
<1>1. Len(sv) = 1 /\ sv[1] = p
  OBVIOUS
<1>2. st \in [1 .. 1 -> Nat] /\ st[1] = 0
  OBVIOUS
<1>3. \A i \in 1 .. 1 : i = 1 /\ i - 1 = 0
  OBVIOUS
<1>4. 1 .. (1 - 1) = {}
  OBVIOUS
<1> HIDE DEF sv, st
<1>5. Laid(st, sv, m)
  BY <1>1, <1>2, <1>3, <1>4 DEF Laid
<1> QED BY <1>5 DEF st, sv

LEMMA LaidNext ==
    ASSUME NEW sv \in Seq(Packet), sv # <<>>, NEW st, NEW m, NEW m2, Laid(st, sv, m),
           NEW a \in Nat, a = st[Len(sv)] + Size[sv[Len(sv)].value] + 3,
           Below(st, sv, a),
           ~sv[Len(sv)].last, NEW p \in Packet, p.seq = Len(sv), FrameAt(m2, a, p),
           Kept(m, m2, a)
    PROVE  Laid([i \in 1 .. Len(sv) + 1 |-> IF i <= Len(sv) THEN st[i] ELSE a],
                Append(sv, p), m2)
<1> DEFINE L  == Len(sv)
           tv == Append(sv, p)
           tt == [i \in 1 .. Len(sv) + 1 |-> IF i <= Len(sv) THEN st[i] ELSE a]
<1>1. /\ L \in Nat /\ L >= 1 /\ Len(tv) = L + 1 /\ tv # <<>> /\ tv[L + 1] = p
      /\ \A i \in 1 .. L : tv[i] = sv[i] /\ sv[i] \in Packet
  <2>1. L \in Nat /\ Len(tv) = L + 1 /\ tv[L + 1] = p
    OBVIOUS
  <2>2. \A i \in 1 .. L : tv[i] = sv[i] /\ sv[i] \in Packet
    OBVIOUS
  <2>3. L # 0
    OBVIOUS
  <2>4. tv # <<>>
    BY AppendNotEmpty
  <2> HIDE DEF L, tv
  <2> QED BY <2>1, <2>2, <2>3, <2>4
<1>2. /\ st \in [1 .. L -> Nat] /\ st[1] = 0
      /\ \A i \in 1 .. L : FrameAt(m, st[i], sv[i]) /\ sv[i].seq = i - 1
      /\ \A i \in 1 .. L - 1 : ~sv[i].last /\ st[i + 1] = st[i] + Size[sv[i].value] + 3
  BY DEF Laid
<1>3. /\ a = st[L] + Size[sv[L].value] + 3 /\ ~sv[L].last /\ p.seq = L
      /\ \A i \in 1 .. L : st[i] + Size[sv[i].value] + 3 <= a
  BY DEF Below
<1>4. tt = [i \in 1 .. L + 1 |-> IF i <= L THEN st[i] ELSE a]
  OBVIOUS
<1> HIDE DEF L, tv, tt
<1>5. /\ tt \in [1 .. L + 1 -> Nat] /\ tt[L + 1] = a /\ tt[1] = 0
      /\ \A i \in 1 .. L : tt[i] = st[i]
  BY <1>1, <1>2, <1>4
<1>6. \A i \in 1 .. L + 1 : i \in 1 .. L \/ i = L + 1
  BY <1>1
<1>7. ASSUME NEW i \in 1 .. L + 1
      PROVE  FrameAt(m2, tt[i], tv[i]) /\ tv[i].seq = i - 1
  <2>1. CASE i = L + 1
    BY <1>1, <1>3, <1>5, <2>1
  <2>2. CASE i \in 1 .. L
    <3>1. st[i] \in Nat /\ sv[i] \in Packet /\ FrameAt(m, st[i], sv[i])
          /\ st[i] + Size[sv[i].value] + 3 <= a
      BY <1>1, <1>2, <1>3, <2>2
    <3>2. FrameAt(m2, st[i], sv[i])
      BY <3>1, FrameStays
    <3> QED BY <1>1, <1>2, <1>5, <2>2, <3>2
  <2> QED BY <1>6, <2>1, <2>2
<1>8. ASSUME NEW i \in 1 .. (L + 1) - 1
      PROVE  ~tv[i].last /\ tt[i + 1] = tt[i] + Size[tv[i].value] + 3
  <2>1. CASE i = L
    <3>1. L \in 1 .. L
      BY <1>1
    <3> QED BY <1>1, <1>3, <1>5, <2>1, <3>1
  <2>2. CASE i # L
    <3>1. i \in 1 .. L /\ i + 1 \in 1 .. L /\ i \in 1 .. L - 1
      BY <1>1, <2>2
    <3> QED BY <1>1, <1>2, <1>5, <3>1
  <2> QED BY <2>1, <2>2
<1>9. Laid(tt, tv, m2)
  BY <1>1, <1>5, <1>7, <1>8 DEF Laid
<1> QED BY <1>9 DEF tt, tv

LEMMA InitRestorable == Init => Restorable
<1> SUFFICES ASSUME Init PROVE Restorable
  OBVIOUS
<1>1. setAddress = 0 /\ saveSequence = 0 /\ ~load.on
  BY DEF Init, NoLoad
<1>2. ASSUME NEW s \in OldSaves, memory = MemoryOf(s), saved = s, whole = (s # <<>>)
      PROVE  Restorable
  <2>1. PICK st \in [1 .. Len(s) -> Nat] : Laid(st, s, MemoryOf(s))
    BY OldSaveLaid
  <2>2. s # <<>> => s[Len(s)].last
    <3>1. s \in Seq(Packet)
      BY Constants
    <3>2. s # <<>> => Len(s) \in DOMAIN s
      BY <3>1
    <3>3. \A i \in DOMAIN s : s[i].last <=> i = Len(s)
      BY ParamAssumption
    <3> QED BY <3>2, <3>3
  <2>3. Goes(st, saved, setAddress, saveSequence, whole)
    BY <1>1, <1>2, <2>2 DEF Goes
  <2>4. Restores(st)
    BY <1>1, <1>2, <2>1, <2>3 DEF Restores
  <2> QED BY <1>2, <2>1, <2>4 DEF Restorable
<1>3. ASSUME saved = <<>>, whole = FALSE
      PROVE  Restorable
  <2> DEFINE st == [i \in 1 .. Len(saved) |-> 0]
  <2>1. Len(saved) = 0 /\ st \in [1 .. Len(saved) -> Nat]
    BY <1>3
  <2> HIDE DEF st
  <2>2. 1 .. 0 = {} /\ 1 .. (0 - 1) = {}
    OBVIOUS
  <2>3. Laid(st, saved, memory)
    BY <1>3, <2>1, <2>2 DEF Laid
  <2>4. Goes(st, saved, setAddress, saveSequence, whole)
    BY <1>1, <1>3 DEF Goes
  <2>5. Restores(st)
    BY <1>1, <2>3, <2>4 DEF Restores
  <2> QED BY <2>1, <2>5 DEF Restorable
<1> QED BY <1>2, <1>3 DEF Init

\* A write that did not end is of no save.
LEMMA NothingSaved ==
    ASSUME saved' = <<>>, whole' = FALSE, setAddress' = 0, saveSequence' = 0
    PROVE  Restorable'
<1> DEFINE st == [i \in 1 .. 0 |-> 0]
<1>1. Len(saved') = 0 /\ st \in [1 .. Len(saved') -> Nat]
  OBVIOUS
<1> HIDE DEF st
<1>2. 1 .. 0 = {} /\ 1 .. (0 - 1) = {}
  OBVIOUS
<1>3. Laid(st, saved', memory')
  BY <1>1, <1>2 DEF Laid
<1>4. Goes(st, saved', setAddress', saveSequence', whole')
  BY DEF Goes
<1>5. Restores(st)'
  BY <1>3, <1>4 DEF Restores
<1> QED BY <1>1, <1>5 DEF Restorable

\* One more packet, in the cells behind the others.
LEMMA OneMore ==
    ASSUME TypeOK, NEW st \in [1 .. Len(saved) -> Nat], Restores(st),
           NEW m \in Answer, m.piece \in Piece, m.value \in Values, m.last \in BOOLEAN,
           InMemory(m), Write(m, Size[m.value] + 2),
           saved' = IF setAddress = 0 THEN <<Written(m)>> ELSE Append(saved, Written(m))
    PROVE  \E tt \in [1 .. Len(saved') -> Nat] :
              /\ Laid(tt, saved', memory') /\ saved' # <<>>
              /\ saved'[Len(saved')] = Written(m) /\ tt[Len(saved')] = setAddress
              /\ Len(saved') = saveSequence + 1
              /\ Below(tt, saved', setAddress + Size[m.value] + 3)
<1> DEFINE w == Written(m)
           n == Size[m.value]
<1>1. /\ w \in Packet /\ FrameAt(memory', setAddress, w)
      /\ Kept(memory, memory', setAddress)
  BY WriteLays
<1>2. w.seq = saveSequence /\ w.value = m.value
  BY DEF Written
<1>3. n \in Nat /\ setAddress \in Nat /\ saved \in Seq(Packet) /\ saveSequence \in Nat
  <2>1. n \in Nat
    BY Constants
  <2> HIDE DEF n
  <2> QED BY <2>1, Constants DEF TypeOK, MasterOK, MemoryOK
<1>4. Laid(st, saved, memory) /\ Goes(st, saved, setAddress, saveSequence, whole)
  BY DEF Restores
<1> HIDE DEF w, n
<1>5. CASE setAddress = 0
  <2> DEFINE tt == [i \in 1 .. 1 |-> 0]
  <2>1. saved' = <<w>>
    BY <1>5 DEF w
  <2>2. Len(<<w>>) = 1 /\ <<w>>[1] = w /\ <<w>> # <<>>
    OBVIOUS
  <2>3. saveSequence = 0
    BY <1>4, <1>5 DEF Goes
  <2>4. Laid(tt, <<w>>, memory')
    BY <1>1, <1>2, <1>5, <2>3, LaidFirst
  <2>5. tt \in [1 .. 1 -> Nat] /\ tt[1] = 0 /\ \A i \in 1 .. 1 : i = 1
    OBVIOUS
  <2> HIDE DEF tt
  <2>6. \A i \in 1 .. 1 : tt[i] + Size[<<w>>[i].value] + 3 <= setAddress + n + 3
    BY <1>2, <1>3, <1>5, <2>2, <2>5 DEF n
  <2>7. Below(tt, <<w>>, setAddress + n + 3)
    BY <2>2, <2>6 DEF Below
  <2> QED BY <1>5, <2>1, <2>2, <2>3, <2>4, <2>5, <2>7 DEF w, n
<1>6. CASE setAddress # 0
  <2> DEFINE L  == Len(saved)
             tv == Append(saved, w)
             tt == [i \in 1 .. L + 1 |-> IF i <= L THEN st[i] ELSE setAddress]
  <2>1. saved' = tv
    BY <1>6 DEF w
  <2>2. /\ saved # <<>> /\ saveSequence = L /\ ~saved[L].last
        /\ setAddress = st[L] + Size[saved[L].value] + 3
        /\ Below(st, saved, setAddress)
    BY <1>4, <1>6 DEF Goes
  <2>3. Laid(tt, tv, memory')
    BY <1>1, <1>2, <1>3, <1>4, <2>2, LaidNext
  <2>4. /\ L \in Nat /\ tv[L + 1] = w /\ tv # <<>>
        /\ \A i \in 1 .. L : tv[i] = saved[i]
    <3>1. tv # <<>>
      BY <1>3, AppendNotEmpty
    <3> QED BY <1>3, <3>1
  <2>a. Len(tv) = L + 1
    BY <1>3
  <2>5. /\ tt \in [1 .. L + 1 -> Nat] /\ tt[L + 1] = setAddress
        /\ \A i \in 1 .. L : tt[i] = st[i]
    <3> HIDE DEF tv
    <3>1. L \in Nat /\ st \in [1 .. L -> Nat]
      BY <2>4
    <3> HIDE DEF L
    <3> QED BY <1>3, <3>1
  <2> HIDE DEF L, tv, tt
  <2>6. ASSUME NEW i \in 1 .. L + 1
        PROVE  tt[i] + Size[tv[i].value] + 3 <= setAddress + n + 3
    <3>1. CASE i = L + 1
      <4>1. tt[i] = setAddress /\ Size[tv[i].value] = n
        BY <1>2, <2>4, <2>5, <3>1 DEF n
      <4> QED BY <1>3, <4>1
    <3>2. CASE i # L + 1
      <4>1. i \in 1 .. L
        BY <2>4, <3>2
      <4>2. tt[i] + Size[tv[i].value] + 3 <= setAddress
        BY <2>2, <2>4, <2>5, <4>1 DEF Below, L
      <4>3. tt[i] \in Nat /\ Size[tv[i].value] \in Nat
        <5>1. tv[i] \in Packet
          BY <1>3, <2>4, <4>1 DEF L
        <5>2. tt[i] \in Nat
          BY <2>5
        <5>3. tv[i].value \in Values
          BY ONLY <5>1 DEF Packet
        <5>4. Size[tv[i].value] \in Nat
          BY ONLY <5>3, Constants
        <5> QED BY ONLY <5>2, <5>4
      <4>4. \A x, z \in Nat : x + z + 3 <= setAddress => x + z + 3 <= setAddress + n + 3
        <5>1. n \in Nat /\ setAddress \in Nat
          BY <1>3
        <5> QED BY ONLY <5>1
      <4> QED BY ONLY <4>2, <4>3, <4>4
    <3> QED BY <3>1, <3>2
  <2>7. Below(tt, tv, setAddress + n + 3)
    BY <2>a, <2>6 DEF Below
  <2> QED BY <2>1, <2>2, <2>3, <2>4, <2>a, <2>5, <2>7 DEF w, n
<1> QED BY <1>5, <1>6

LEMMA SaveRestorable ==
    ASSUME TypeOK, Restorable, HandleFcSave
    PROVE  Restorable'
<1> DEFINE m    == Head(inbox)
           last == LastOfAll(m, currentlySaving)
<1>1. /\ m \in Answer /\ m.piece \in Piece /\ m.value \in Values /\ m.last \in BOOLEAN
      /\ InMemory(m) /\ Write(m, Size[m.value] + 2) /\ ~load.on
  BY AnsweredType DEF HandleFcSave, Answered
<1>2. /\ saved' = IF setAddress = 0 THEN <<Written(m)>> ELSE Append(saved, Written(m))
      /\ whole' = last /\ UNCHANGED loadVars
      /\ last => setAddress' = 0 /\ saveSequence' = 0
      /\ ~last => setAddress' = NextAddress(m) /\ saveSequence' = saveSequence + 1
  BY DEF HandleFcSave, SaveUnchanged
<1>3. Written(m).last = last /\ Written(m).value = m.value
  BY DEF Written
<1>4. NextAddress(m) = setAddress + Size[m.value] + 3
  BY DEF NextAddress
<1>5. PICK st \in [1 .. Len(saved) -> Nat] : Restores(st)
  BY DEF Restorable
<1> HIDE DEF m, last
<1>6. PICK tt \in [1 .. Len(saved') -> Nat] :
              /\ Laid(tt, saved', memory') /\ saved' # <<>>
              /\ saved'[Len(saved')] = Written(m) /\ tt[Len(saved')] = setAddress
              /\ Len(saved') = saveSequence + 1
              /\ Below(tt, saved', setAddress + Size[m.value] + 3)
  BY <1>1, <1>2, <1>5, OneMore
<1>7. Goes(tt, saved', setAddress', saveSequence', whole')
  <2>1. CASE last
    BY <1>2, <1>3, <1>6, <2>1 DEF Goes
  <2>2. CASE ~last
    <3>1. setAddress' # 0
      <4>1. Size[m.value] \in Nat /\ setAddress \in Nat
        BY <1>1, Constants DEF TypeOK, MasterOK
      <4> QED BY <1>2, <1>4, <2>2, <4>1
    <3>2. setAddress' = setAddress + Size[m.value] + 3
      BY <1>2, <1>4, <2>2
    <3> QED BY <1>2, <1>3, <1>6, <2>2, <3>1, <3>2 DEF Goes
  <2> QED BY <2>1, <2>2
<1>8. ~load'.on
  BY <1>1, <1>2 DEF loadVars
<1>9. Restores(tt)'
  BY <1>6, <1>7, <1>8 DEF Restores
<1> QED BY <1>6, <1>9 DEF Restorable

\* The clean-up gives up a save, of which the packets stay.
LEMMA CleanUpRestorable ==
    ASSUME Restorable, setAddress' = 0, saveSequence' = 0, UNCHANGED <<memoryVars, loadVars>>
    PROVE  Restorable'
<1>1. PICK st \in [1 .. Len(saved) -> Nat] : Restores(st)
  BY DEF Restorable
<1>2. Goes(st, saved', setAddress', saveSequence', whole')
  BY <1>1 DEF Restores, Goes, memoryVars
<1>3. Restores(st)'
  BY <1>1, <1>2 DEF Restores, memoryVars, loadVars
<1> QED BY <1>1, <1>3 DEF Restorable, memoryVars

LEMMA SameRestorable ==
    ASSUME Restorable, UNCHANGED <<memoryVars, loadVars, setAddress, saveSequence>>
    PROVE  Restorable'
<1>1. PICK st \in [1 .. Len(saved) -> Nat] : Restores(st)
  BY DEF Restorable
<1>2. Restores(st)'
  BY <1>1 DEF Restores, memoryVars, loadVars
<1> QED BY <1>1, <1>2 DEF Restorable, memoryVars

LEMMA LossRestorable ==
    ASSUME Restorable, PowerLoss
    PROVE  Restorable'
<1>1. PICK st \in [1 .. Len(saved) -> Nat] : Restores(st)
  BY DEF Restorable
<1>2. setAddress' = 0 /\ saveSequence' = 0 /\ load' = NoLoad /\ UNCHANGED memoryVars
  BY DEF PowerLoss, Restart
<1>3. Goes(st, saved', setAddress', saveSequence', whole')
  BY <1>1, <1>2 DEF Restores, Goes, memoryVars
<1>4. Restores(st)'
  BY <1>1, <1>2, <1>3 DEF Restores, memoryVars, NoLoad
<1> QED BY <1>1, <1>2, <1>4 DEF Restorable, memoryVars

-----------------------------------------------------------------------------
(* Loads.                                                                  *)

LEMMA LoadRestorable ==
    ASSUME TypeOK, ParserBetweenLoads, Restorable, HandleLoad
    PROVE  Restorable'
<1>1. PICK st \in [1 .. Len(saved) -> Nat] : Restores(st)
  BY DEF Restorable
<1>2. /\ load' = [NoLoad EXCEPT !.on = TRUE,
                                !.stale = parser.startFound \/ parser.payload # <<>>]
      /\ parser' = parser /\ UNCHANGED <<memoryVars, setAddress, saveSequence>>
  BY DEF HandleLoad
<1>3. /\ load'.address = 0 /\ load'.start = 0 /\ load'.expected = 0
      /\ load'.stale = (parser.startFound \/ parser.payload # <<>>)
  BY <1>2 DEF NoLoad
<1>4. ASSUME whole, ~load'.stale
      PROVE  Reads(st, saved, load', parser)
  <2>1. saved # <<>> /\ saved \in Seq(Packet) /\ st[1] = 0
    BY <1>1, <1>4 DEF Restores, Goes, Laid, TypeOK, MemoryOK
  <2>2. load'.expected < Len(saved) /\ load'.expected + 1 = 1
    BY <1>3, <2>1
  <2>3. parser.startFound = FALSE /\ parser.payload = <<>>
    BY <1>3, <1>4 DEF TypeOK, LoadOK, Parsers
  <2>4. parser = Parser(FALSE, <<>>, parser.cBuffer)
    BY <2>3 DEF TypeOK, LoadOK, Parsers, Parser
  <2>5. parser.cBuffer \in {<<>>, <<Boundary>>}
    BY DEF ParserBetweenLoads
  <2>6. Begins(load', parser)
    BY <1>3, <2>4, <2>5 DEF Begins
  <2> QED BY <2>1, <2>2, <2>6 DEF Reads, At
<1>5. Restores(st)'
  BY <1>1, <1>2, <1>4 DEF Restores, memoryVars
<1> QED BY <1>1, <1>2, <1>5 DEF Restorable, memoryVars

\* What a load gives a handler, and when it ends: the body of LoadRestoresTheSave.
Given ==
    /\ outcome' = "fault" => parser.payload = <<Escape>>
    /\ load'.expected > load.expected \/ outcome' = "loaded" =>
         /\ load.expected < Len(saved)
         /\ LET p == saved[load.expected + 1]
            IN  /\ box' = [box EXCEPT ![p.piece[1]] = Append(@, SetMsg({p.piece}, p.value))]
                /\ outcome' = "loaded" <=> load.expected + 1 = Len(saved)

\* The load goes on to the next octet with parser q.
GoesOn(q) == /\ parser' = q /\ outcome' = "none"
             /\ load' = [load EXCEPT !.address = @ + 1]

\* What a load that is to restore a save is at: packet p, from cell a on.
AtPacket(st, a, p) ==
    /\ load.expected + 1 \in 1 .. Len(saved)
    /\ a = st[load.expected + 1] /\ p = saved[load.expected + 1]
    /\ a \in Nat /\ p \in Packet /\ FrameAt(memory, a, p) /\ p.seq = load.expected
    /\ Size[p.value] \in Nat /\ MinFrame < Size[p.value] /\ Size[p.value] + 2 <= FrameMax

LEMMA ReadsPacket ==
    ASSUME TypeOK, NEW st \in [1 .. Len(saved) -> Nat], Restores(st),
           Reads(st, saved, load, parser)
    PROVE  \E a \in Nat, p \in Packet : AtPacket(st, a, p) /\ At(load, parser, a, p)
<1> DEFINE i == load.expected + 1
           a == st[i]
           p == saved[i]
<1>1. i \in 1 .. Len(saved)
  BY DEF Reads, TypeOK, LoadOK, MemoryOK
<1>2. a \in Nat /\ p \in Packet /\ FrameAt(memory, a, p) /\ p.seq = load.expected
  <2>1. p \in Packet /\ a \in Nat
    <3> HIDE DEF i
    <3> QED BY <1>1 DEF TypeOK, MemoryOK
  <2>2. FrameAt(memory, a, p) /\ p.seq = i - 1
    <3> HIDE DEF i
    <3> QED BY <1>1 DEF Restores, Laid
  <2>3. i - 1 = load.expected
    BY DEF TypeOK, LoadOK
  <2> QED BY <2>1, <2>2, <2>3
<1>3. At(load, parser, a, p)
  BY DEF Reads
<1>4. p.value \in Values
  BY <1>2 DEF Packet
<1> HIDE DEF a, p
<1>5. Size[p.value] \in Nat /\ MinFrame < Size[p.value] /\ Size[p.value] + 2 <= FrameMax
  BY <1>4, ParamAssumption
<1>6. AtPacket(st, a, p)
  BY <1>1, <1>2, <1>5 DEF AtPacket, a, p
<1> QED BY <1>2, <1>3, <1>6

\* An octet that does not end a frame.
LEMMA Continues ==
    ASSUME Loader, Loading, Fits, NEW q, Parsed = Return(q, "Cont", <<>>)
    PROVE  GoesOn(q) /\ load.on
<1>1. Parsed.result = "Cont" /\ Parsed.parser = q
  BY ReturnFields
<1>2. LoadMore /\ load.on
  BY <1>1 DEF Loader, LoadMore, LoadPacket, LoadFails
<1> QED BY <1>1, <1>2 DEF LoadMore, GoesOn, Loading

\* A load that goes on to the next octet of the same packet gives nothing yet.
LEMMA GoneOn ==
    ASSUME TypeOK, NEW q, GoesOn(q)
    PROVE  /\ Given
           /\ load'.address = load.address + 1 /\ load'.start = load.start
           /\ load'.expected = load.expected /\ load'.on = load.on
           /\ load'.stale = load.stale
<1>1. /\ load'.address = load.address + 1 /\ load'.start = load.start
      /\ load'.expected = load.expected /\ load'.on = load.on
      /\ load'.stale = load.stale
  BY DEF GoesOn, TypeOK, LoadOK
<1>2. ~(load'.expected > load.expected)
  BY <1>1 DEF TypeOK, LoadOK
<1> QED BY <1>1, <1>2 DEF Given, GoesOn

LEMMA ReadBegins ==
    ASSUME TypeOK, Loading, Loader, NEW st, NEW a \in Nat, NEW p \in Packet,
           AtPacket(st, a, p), Begins(load, parser), a = 0
    PROVE  Given /\ At(load', parser', a, p) /\ load'.expected = load.expected
<1> DEFINE n == Size[p.value]
<1>1. /\ n \in Nat /\ memory[0] = Boundary /\ 0 < Stop
  BY Constants DEF AtPacket, FrameAt
<1>2. load.address = 0 /\ load.start = 0 /\ FrameMax \in Nat
  BY Constants DEF Begins
<1>3. Cell(load.address) = Boundary /\ Fits
  BY <1>1, <1>2 DEF Cell, Fits
<1>4. Parsed = Return(Parser(TRUE, <<>>, <<>>), "Cont", <<>>)
  BY <1>3, ParseBegins DEF Parsed, Begins
<1>5. GoesOn(Parser(TRUE, <<>>, <<>>))
  BY <1>3, <1>4, Continues
<1>6. /\ Given /\ load'.address = 1 /\ load'.start = 0 /\ load'.expected = load.expected
  <2>1. /\ Given /\ load'.address = load.address + 1 /\ load'.start = load.start
        /\ load'.expected = load.expected
    BY <1>5, GoneOn
  <2>2. 0 + 1 = 1
    OBVIOUS
  <2> QED BY <1>2, <2>1, <2>2
<1>7. Octets(p, n, 0) = <<>>
  <2>1. 0 \in 0 .. n
    BY <1>1
  <2> HIDE DEF n
  <2> QED BY <1>1, <2>1, OctetsForm
<1>8. Inside(load', parser', a, p)
  <2>1. parser' = Parser(TRUE, Octets(p, n, 0), <<>>)
    BY <1>5, <1>7 DEF GoesOn
  <2>2. 0 \in 0 .. n /\ a - 1 <= load'.start /\ load'.address = a + 1 + 0
    BY <1>1, <1>6
  <2> QED BY <2>1, <2>2 DEF Inside
<1> QED BY <1>6, <1>8 DEF At

LEMMA ReadBetween ==
    ASSUME TypeOK, Loading, Loader, NEW st, NEW a \in Nat, NEW p \in Packet,
           AtPacket(st, a, p), Between(load, parser, a)
    PROVE  Given /\ (load'.on => At(load', parser', a, p) /\ load'.expected = load.expected)
<1> DEFINE n == Size[p.value]
<1>1. /\ n \in Nat /\ memory[a] = Boundary /\ a < Stop
  BY Constants DEF AtPacket, FrameAt
<1>2. a > 0 /\ load.start = a - 1 /\ FrameMax \in Nat /\ 1 <= FrameMax
  BY Constants, FrameAssumption DEF Between
<1> HIDE DEF n
<1>3. CASE load.address = a - 1 /\ parser = Parser(FALSE, <<>>, <<Boundary>>)
  <2>1. Fits
    BY <1>2, <1>3 DEF Fits
  <2>2. Cell(load.address) \in Cells
    <3>1. a - 1 \in 0 .. Stop - 1
      BY <1>1, <1>2, Constants
    <3> QED BY <1>3, <3>1 DEF Cell, TypeOK, MemoryOK, Cells
  <2>3. PICK pl \in Seq(Cells \ {Boundary}) :
              Len(pl) <= 1 /\ Parsed = Return(Parser(TRUE, pl, <<>>), "Cont", <<>>)
    BY <1>3, <2>2, ParseLeftOut DEF Parsed
  <2>4. GoesOn(Parser(TRUE, pl, <<>>))
    BY <2>1, <2>3, Continues
  <2>5. Given /\ load'.address = a /\ load'.start = a - 1 /\ load'.expected = load.expected
    <3>1. /\ Given /\ load'.address = load.address + 1 /\ load'.start = load.start
          /\ load'.expected = load.expected
      BY <2>4, GoneOn
    <3>2. (a - 1) + 1 = a
      OBVIOUS
    <3> QED BY <1>2, <1>3, <3>1, <3>2
  <2>6. Between(load', parser', a)
    BY <1>2, <2>3, <2>4, <2>5 DEF Between, GoesOn
  <2> QED BY <2>5, <2>6 DEF At
<1>4. ASSUME load.address = a, NEW pl \in Seq(Cells \ {Boundary}), Len(pl) <= 1,
             parser = Parser(TRUE, pl, <<>>)
      PROVE  Given /\ (load'.on => At(load', parser', a, p) /\ load'.expected = load.expected)
  <2>1. Fits /\ Cell(load.address) = Boundary
    BY <1>1, <1>2, <1>4 DEF Fits, Cell
  <2>2. CASE pl = <<Escape>>
    <3>1. Parsed.result = "EscapeError" /\ parser.payload = <<Escape>>
      <4>1. Parsed = Parse(Parser(TRUE, pl, <<>>), Boundary)
        BY <1>4, <2>1 DEF Parsed
      <4>2. Parse(Parser(TRUE, pl, <<>>), Boundary).result = "EscapeError"
        BY <1>4, <2>2, ParseNext
      <4>3. parser.payload = pl
        BY <1>4 DEF Parser
      <4> QED BY <2>2, <4>1, <4>2, <4>3
    <3>2. LoadFails
      BY <2>1, <3>1 DEF Loader, LoadMore, LoadPacket
    <3>3. ~load'.on /\ outcome' = "fault" /\ load'.expected = 0
      BY <3>2 DEF LoadFails, NoLoad
    <3>4. ~(load'.expected > load.expected)
      BY <3>3 DEF TypeOK, LoadOK
    <3> QED BY <3>1, <3>3, <3>4 DEF Given
  <2>3. CASE pl # <<Escape>>
    <3>1. Parsed = Return(Parser(TRUE, <<>>, <<>>), "Cont", <<>>)
      BY <1>4, <2>1, <2>3, ParseNext DEF Parsed
    <3>2. GoesOn(Parser(TRUE, <<>>, <<>>))
      BY <2>1, <3>1, Continues
    <3>3. Given /\ load'.address = a + 1 /\ load'.start = a - 1 /\ load'.expected = load.expected
      BY <1>2, <1>4, <3>2, GoneOn
    <3>4. Octets(p, n, 0) = <<>> /\ 0 \in 0 .. n
      <4>1. 0 \in 0 .. n
        BY <1>1
      <4> QED BY <1>1, <4>1, OctetsForm
    <3>5. Inside(load', parser', a, p)
      <4>1. parser' = Parser(TRUE, Octets(p, n, 0), <<>>)
        BY <3>2, <3>4 DEF GoesOn
      <4>2. a - 1 <= load'.start /\ load'.address = a + 1 + 0
        BY <3>3
      <4> QED BY <3>4, <4>1, <4>2 DEF Inside, n
    <3> QED BY <3>3, <3>5 DEF At
  <2> QED BY <2>2, <2>3
<1> QED BY <1>3, <1>4 DEF Between

LEMMA ReadOctet ==
    ASSUME TypeOK, Loading, Loader, NEW st, NEW a \in Nat, NEW p \in Packet,
           AtPacket(st, a, p), NEW k \in 0 .. Size[p.value], k < Size[p.value],
           a - 1 <= load.start, load.address = a + 1 + k,
           parser = Parser(TRUE, Octets(p, Size[p.value], k), <<>>)
    PROVE  Given /\ At(load', parser', a, p) /\ load'.expected = load.expected
<1> DEFINE n == Size[p.value]
<1>1. /\ n \in Nat /\ n + 2 <= FrameMax /\ a + n + 2 < Stop
      /\ \A j \in 1 .. n : memory[a + j] = Data(p, n)[j]
  BY DEF AtPacket, FrameAt
<1>2. /\ load.start \in Nat /\ FrameMax \in Nat /\ k < n /\ k \in 0 .. n
      /\ parser = Parser(TRUE, Octets(p, n, k), <<>>)
  BY Constants DEF TypeOK, LoadOK
<1> HIDE DEF n
<1>3. Fits
  <2>1. load.address - load.start <= FrameMax
    BY <1>1, <1>2
  <2> QED BY <2>1 DEF Fits
<1>4. Cell(load.address) = Data(p, n)[k + 1]
  <2>1. k + 1 \in 1 .. n /\ a + 1 + k = a + (k + 1) /\ a + (k + 1) < Stop
    BY <1>1, <1>2, Constants
  <2>2. memory[a + (k + 1)] = Data(p, n)[k + 1]
    BY <1>1, <2>1
  <2> QED BY <2>1, <2>2 DEF Cell
<1>5. Parsed = Return(Parser(TRUE, Octets(p, n, k + 1), <<>>), "Cont", <<>>)
  <2>1. Parsed = Parse(Parser(TRUE, Octets(p, n, k), <<>>), Data(p, n)[k + 1])
    BY <1>2, <1>4 DEF Parsed
  <2> QED BY <1>1, <1>2, <2>1, ParseOctet
<1>6. GoesOn(Parser(TRUE, Octets(p, n, k + 1), <<>>))
  BY <1>3, <1>5, Continues
<1>7. /\ Given /\ load'.address = load.address + 1 /\ load'.start = load.start
      /\ load'.expected = load.expected
  BY <1>6, GoneOn
<1>8. /\ k + 1 \in 0 .. n /\ load'.address = a + 1 + (k + 1) /\ a - 1 <= load'.start
      /\ parser' = Parser(TRUE, Octets(p, n, k + 1), <<>>)
  <2>1. load'.address = (a + 1 + k) + 1
    BY <1>7
  <2>2. (a + 1 + k) + 1 = a + 1 + (k + 1) /\ k + 1 \in 0 .. n
    BY <1>1, <1>2
  <2> QED BY <1>6, <1>7, <2>1, <2>2 DEF GoesOn
<1>9. Inside(load', parser', a, p)
  BY <1>8 DEF Inside, n
<1> QED BY <1>7, <1>9 DEF At

LEMMA ReadPacket ==
    ASSUME TypeOK, Loading, Loader, NEW st \in [1 .. Len(saved) -> Nat], Restores(st), whole,
           NEW a \in Nat, NEW p \in Packet, AtPacket(st, a, p),
           a - 1 <= load.start, load.address = a + 1 + Size[p.value],
           parser = Parser(TRUE, Octets(p, Size[p.value], Size[p.value]), <<>>)
    PROVE  Given /\ (load'.on => Reads(st, saved, load', parser'))
<1> DEFINE n == Size[p.value]
           i == load.expected + 1
<1>1. /\ n \in Nat /\ MinFrame < n /\ n + 2 <= FrameMax /\ a + n + 2 < Stop
      /\ memory[a + n + 1] = Boundary
  BY DEF AtPacket, FrameAt
<1>2. /\ load.start \in Nat /\ FrameMax \in Nat /\ load.expected \in Nat /\ Stop \in Nat
      /\ parser = Parser(TRUE, Data(p, n), <<>>)
  BY Constants DEF TypeOK, LoadOK, Data
<1>3. /\ i \in 1 .. Len(saved) /\ a = st[i] /\ p = saved[i] /\ p.seq = load.expected
      /\ Len(saved) \in Nat
  BY DEF AtPacket, TypeOK, MemoryOK
<1>4. load.address = a + 1 + n
  OBVIOUS
<1> HIDE DEF n
<1>5. Fits
  <2>1. load.address - load.start <= FrameMax
    BY <1>1, <1>2, <1>4
  <2> QED BY <2>1 DEF Fits
<1>6. Cell(load.address) = Boundary
  <2>1. a + 1 + n = a + n + 1 /\ a + n + 1 < Stop
    BY <1>1, <1>2
  <2> QED BY <1>1, <1>4, <2>1 DEF Cell
<1>7. Parsed = Return(Parser(FALSE, <<>>, <<Boundary>>), "OK", Data(p, n)) /\ Data(p, n)[1].of = p
  <2>1. Parsed = Parse(Parser(TRUE, Data(p, n), <<>>), Boundary)
    BY <1>2, <1>6 DEF Parsed
  <2> QED BY <1>1, <2>1, ParseEnds
<1>8. /\ Parsed.result = "OK" /\ Parsed.parser = Parser(FALSE, <<>>, <<Boundary>>)
      /\ Taken = p
  <2>1. /\ Parsed.result = "OK" /\ Parsed.parser = Parser(FALSE, <<>>, <<Boundary>>)
        /\ Parsed.packet = Data(p, n)
    BY <1>7, ParsedFields
  <2> QED BY <1>7, <2>1 DEF Taken
<1>9. LoadPacket
  BY <1>3, <1>5, <1>8 DEF Loader, LoadMore, LoadFails
<1>10. /\ parser' = Parser(FALSE, <<>>, <<Boundary>>)
       /\ box' = [box EXCEPT ![p.piece[1]] = Append(@, SetMsg({p.piece}, p.value))]
       /\ p.last => load' = NoLoad /\ outcome' = "loaded"
       /\ ~p.last => /\ load' = [load EXCEPT !.address = @ + 1, !.start = load.address + 1,
                                             !.expected = @ + 1]
                     /\ outcome' = "none"
  BY <1>8, <1>9 DEF LoadPacket, Loading
<1>11. p.last <=> i = Len(saved)
  <2>1. CASE i = Len(saved)
    BY <1>3, <2>1 DEF Restores, Goes
  <2>2. CASE i # Len(saved)
    <3>1. i \in 1 .. Len(saved) - 1
      <4> HIDE DEF i
      <4> QED BY <1>3, <2>2
    <3> HIDE DEF i
    <3> QED BY <1>3, <2>2, <3>1 DEF Restores, Laid
  <2> QED BY <2>1, <2>2
<1>12. Given
  <2>1. outcome' # "fault" /\ (outcome' = "loaded" <=> p.last)
    BY <1>10
  <2>2. load.expected < Len(saved)
    BY <1>2, <1>3
  <2> QED BY <1>3, <1>10, <1>11, <2>1, <2>2 DEF Given
<1>13. ASSUME load'.on
       PROVE  Reads(st, saved, load', parser')
  <2>1. ~p.last
    BY <1>10, <1>13 DEF NoLoad
  <2>2. /\ load'.address = load.address + 1 /\ load'.start = load.address + 1
        /\ load'.expected = load.expected + 1
    BY <1>10, <2>1 DEF TypeOK, LoadOK
  <2>3. i \in 1 .. Len(saved) - 1
    <3> HIDE DEF i
    <3> QED BY <1>3, <1>11, <2>1
  <2>4. st[i + 1] = a + n + 3
    <3> HIDE DEF i
    <3> QED BY <1>3, <2>3 DEF Restores, Laid, n
  <2> DEFINE b == st[i + 1]
  <2>5. b > 0 /\ load'.start = b - 1 /\ load'.address = b - 1
    <3>1. (a + 1 + n) + 1 = (a + n + 3) - 1 /\ a + n + 3 > 0
      BY <1>1
    <3> QED BY <1>4, <2>2, <2>4, <3>1
  <2> HIDE DEF b
  <2>6. Between(load', parser', b)
    BY <1>10, <2>5 DEF Between
  <2>7. load'.expected + 1 = i + 1 /\ load'.expected < Len(saved)
    BY <1>2, <1>3, <2>2, <2>3
  <2> QED BY <2>6, <2>7 DEF Reads, At, b
<1> QED BY <1>12, <1>13

LEMMA ReadStep ==
    ASSUME TypeOK, Loading, Loader, NEW st \in [1 .. Len(saved) -> Nat], Restores(st),
           whole, ~load.stale
    PROVE  Given /\ (load'.on => Reads(st, saved, load', parser'))
<1>1. load.on
  BY DEF Loader, LoadMore, LoadPacket, LoadFails
<1>2. Reads(st, saved, load, parser)
  BY <1>1 DEF Restores
<1>3. PICK a \in Nat, p \in Packet : AtPacket(st, a, p) /\ At(load, parser, a, p)
  BY <1>2, ReadsPacket
<1>4. ASSUME At(load', parser', a, p), load'.expected = load.expected
      PROVE  Reads(st, saved, load', parser')
  BY <1>2, <1>3, <1>4 DEF Reads, AtPacket
<1>5. CASE Begins(load, parser) /\ a = 0
  BY <1>3, <1>4, <1>5, ReadBegins
<1>6. CASE Between(load, parser, a)
  BY <1>3, <1>4, <1>6, ReadBetween
<1>7. ASSUME a - 1 <= load.start, NEW k \in 0 .. Size[p.value],
             load.address = a + 1 + k,
             parser = Parser(TRUE, Octets(p, Size[p.value], k), <<>>)
      PROVE  Given /\ (load'.on => Reads(st, saved, load', parser'))
  <2>1. CASE k < Size[p.value]
    BY <1>3, <1>4, <1>7, <2>1, ReadOctet
  <2>2. CASE k = Size[p.value]
    BY <1>3, <1>7, <2>2, ReadPacket
  <2>3. Size[p.value] \in Nat
    BY <1>3 DEF AtPacket
  <2> QED BY <2>1, <2>2, <2>3
<1> QED BY <1>3, <1>5, <1>6, <1>7 DEF At, Inside

LEMMA LoaderRestorable ==
    ASSUME TypeOK, Loading, Restorable, Loader
    PROVE  Restorable' /\ (whole /\ ~load.stale => Given)
<1>1. PICK st \in [1 .. Len(saved) -> Nat] : Restores(st)
  BY DEF Restorable
<1>2. UNCHANGED <<memoryVars, setAddress, saveSequence>> /\ load.on
  BY DEF Loader, LoadMore, LoadPacket, LoadFails, LoadUnchanged
<1>3. load'.on => load'.stale = load.stale
  <2>1. load \in [on : BOOLEAN, address : Nat, start : Nat, expected : Nat, stale : BOOLEAN]
    BY DEF TypeOK, LoadOK
  <2>2. \/ load' = NoLoad
        \/ load' = [load EXCEPT !.address = @ + 1]
        \/ load' = [load EXCEPT !.address = @ + 1, !.start = load.address + 1, !.expected = @ + 1]
    BY DEF Loader, LoadMore, LoadPacket, LoadFails
  <2>3. ~NoLoad.on
    BY DEF NoLoad
  <2> QED BY <2>1, <2>2, <2>3
<1>4. whole /\ ~load.stale => Given /\ (load'.on => Reads(st, saved, load', parser'))
  BY <1>1, ReadStep
<1>5. Restores(st)'
  BY <1>1, <1>2, <1>3, <1>4 DEF Restores, memoryVars
<1> QED BY <1>1, <1>2, <1>4, <1>5 DEF Restorable, memoryVars

-----------------------------------------------------------------------------
(* The theorem.                                                            *)

\* What leaves the memory, the save and the load as they are.
LEMMA NothingWritten ==
    ASSUME [Next]_vars, ~Loader, ~HandleLoad, ~HandleFcSet, ~HandleFcSave, ~HandleFcSaveFull,
           ~PowerLoss, \A n \in Torn : ~HandleFcSaveFails(n) /\ ~PowerLossInWrite(n)
    PROVE  UNCHANGED <<memoryVars, loadVars, setAddress, saveSequence>>
BY DEF Next, Tasks, Master, Answers, Handler, Gs, Faults, vars, masterVars,
       HandleRefused, HandleParamSet, HandleGet, HandleSave, StartDump,
       HandleFcGet, PhSet, PhGet, PhSave, PhDump,
       HandlerUnchanged, GsProcess, GsSends, GsUnchanged, GsWrite, GsSave, GsLoad, GsRequest,
       GsCommand, HandleHasParam, Lose

LEMMA NextRestorable ==
    ASSUME IInv, Restorable, [Next]_vars
    PROVE  Restorable'
<1>1. TypeOK /\ ParserBetweenLoads /\ Loading
  BY DEF IInv
<1>2. CASE Loader
  BY <1>1, <1>2, LoaderRestorable
<1>3. CASE HandleLoad
  BY <1>1, <1>3, LoadRestorable
<1>4. CASE HandleFcSet \/ HandleFcSaveFull
  BY <1>4, CleanUpRestorable DEF HandleFcSet, HandleFcSaveFull, CleanUp, SaveUnchanged
<1>5. CASE HandleFcSave
  BY <1>1, <1>5, SaveRestorable
<1>6. CASE PowerLoss
  BY <1>6, LossRestorable
<1>7. ASSUME NEW n \in Torn, HandleFcSaveFails(n) \/ PowerLossInWrite(n)
      PROVE  Restorable'
  BY <1>7, NothingSaved DEF HandleFcSaveFails, PowerLossInWrite, CleanUp, Restart
<1> QED BY <1>2, <1>3, <1>4, <1>5, <1>6, <1>7, NothingWritten, SameRestorable

\* A step that is no step of a load ends none well, and gives up none but with all
\* that runs.
LEMMA NextGiven ==
    ASSUME IInv, Restorable, [Next]_vars, load.on, whole, ~load.stale
    PROVE  Given
<1>1. TypeOK /\ Loading /\ outcome = "none" /\ load.expected \in Nat
  BY DEF IInv, Loading, TypeOK, LoadOK
<1>2. CASE Loader
  BY <1>1, <1>2, LoaderRestorable
<1>3. CASE HandleLoad
  BY <1>3 DEF HandleLoad, Accept
<1>4. CASE Restart
  <2>1. outcome' = "none" /\ load'.expected = 0
    BY <1>4 DEF Restart, NoLoad
  <2> QED BY <1>1, <2>1 DEF Given
<1>5. CASE UNCHANGED loadVars
  BY <1>1, <1>5 DEF Given, loadVars
<1> QED BY <1>2, <1>3, <1>4, <1>5, LoadStays

LEMMA RestorableHolds == Spec => []Restorable
<1>1. Init => Restorable
  BY InitRestorable
<1>2. IInv /\ Restorable /\ [Next]_vars => Restorable'
  BY NextRestorable
<1> QED BY <1>1, <1>2, Invariance, PTL DEF Spec

\* A load of a complete save gives back just the packets that were saved, each to
\* the handler it came from, in order, and fails only where an escape octet of an
\* older save was left between two packets.
THEOREM LoadRestores == Spec => LoadRestoresTheSave
<1>1. ASSUME IInv, Restorable, [Next]_vars
      PROVE  [load.on /\ whole /\ ~load.stale =>
        /\ outcome' = "fault" => parser.payload = <<Escape>>
        /\ load'.expected > load.expected \/ outcome' = "loaded" =>
             /\ load.expected < Len(saved)
             /\ LET p == saved[load.expected + 1]
                IN  /\ box' = [box EXCEPT ![p.piece[1]] = Append(@, SetMsg({p.piece}, p.value))]
                    /\ outcome' = "loaded" <=> load.expected + 1 = Len(saved)]_vars
  BY <1>1, NextGiven DEF Given
<1> QED BY <1>1, Invariance, RestorableHolds, PTL DEF Spec, LoadRestoresTheSave

-----------------------------------------------------------------------------
=============================================================================
