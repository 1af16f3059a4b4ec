----------------------------- MODULE SlipParser -----------------------------
(***************************************************************************)
(* SLIP frames (slip_packet.c), as the parameter memory of QuadFC is       *)
(* written and read: a frame at a time, and a byte at a time.  A cell      *)
(* stands for an octet of a frame: the boundary, an escape octet, or an    *)
(* octet of the data, which after an escape octet is a replacement.        *)
(***************************************************************************)
EXTENDS Naturals, Sequences

CONSTANTS Boundary,    \* frame_boundary_octet
          Blank,       \* what is in a memory where no frame was written
          Escape,      \* control_escape_octet
          Escaped,     \* <<n, i>>: cell i of data of n cells is an escape octet
          MinFrame,    \* a boundary after at most so much data starts a frame
          FrameMax     \* SLIP_PACKET_LEN, the size of a packet

\* Data starts with the type of the message, which is no control octet; after an
\* escape octet there is its replacement.
ASSUME FrameAssumption == /\ MinFrame \in Nat \ {0} /\ FrameMax \in Nat
                          /\ MinFrame + 3 <= FrameMax
                          /\ Boundary # Blank /\ Boundary # Escape /\ Escape # Blank
                          /\ Escaped \subseteq Nat \X Nat
                          /\ \A e \in Escaped : /\ 1 < e[2] /\ e[2] < e[1]
                                                /\ <<e[1], e[2] + 1>> \notin Escaped

\* The data of packet p and its checksum are n cells; Slip_Packetize.
Octets(p, n, k) == [i \in 1 .. k |-> IF <<n, i>> \in Escaped THEN Escape
                                     ELSE [of |-> p, nr |-> i, size |-> n]]
Data(p, n)  == Octets(p, n, n)
Frame(p, n) == <<Boundary>> \o Data(p, n) \o <<Boundary>>

\* SLIP_CheckCRC: the payload is all of one packet and nothing else.
CrcOk(payload) ==
    payload[1] \notin {Blank, Escape} /\ payload = Data(payload[1].of, payload[1].size)

\* What the parser keeps from one call to the next, and what a call returns.
Parser(started, payload, buffer) ==
    [startFound |-> started, payload |-> payload, cBuffer |-> buffer]
Return(parser, result, packet) == [parser |-> parser, result |-> result, packet |-> packet]

NewParser == Parser(FALSE, <<>>, <<>>)

\* SlipParser_Reset.
Reset(p) == Parser(FALSE, <<>>, p.cBuffer)

\* controlEscapeFound, and what may come then.
Escaping(p) == p.payload # <<>> /\ p.payload[Len(p.payload)] = Escape
Replaced(c) == c \notin {Boundary, Blank, Escape} /\ <<c.size, c.nr - 1>> \in Escaped

Ends(p) == p.startFound /\ Len(p.payload) > MinFrame

\* Mutant: the start of the finished frame is not forgotten.
Finish_KeepsStart(p) == Return(Parser(TRUE, <<>>, Append(p.cBuffer, Boundary)), "OK", p.payload)

\* The last boundary of a frame also goes to the buffer, to start the next one.
Finish(p) == Return(Parser(FALSE, <<>>, Append(p.cBuffer, Boundary)), "OK", p.payload)

\* One octet.  After the last boundary of a frame an octet of the same call is
\* still parsed, into the payload of the finished packet, and kept too.
Octet(s, c) ==
    LET p    == s.parser
        i    == Len(p.payload) + 1
        kept == IF s.result = "OK" THEN Append(p.cBuffer, c) ELSE p.cBuffer
    IN  IF s.result \notin {"Cont", "OK"} THEN s
        ELSE IF i > FrameMax      THEN Return(Reset(p), "LengthError", <<>>)
        ELSE IF Escaping(p) /\ ~Replaced(c) THEN Return(Reset(p), "EscapeError", <<>>)
        ELSE IF c # Boundary      THEN Return(Parser(p.startFound, Append(p.payload, c), kept), s.result,
                                              IF i \in DOMAIN s.packet THEN [s.packet EXCEPT ![i] = c]
                                              ELSE s.packet)
        ELSE IF ~Ends(p)          THEN Return(Parser(TRUE, <<>>, kept), s.result, s.packet)
        ELSE IF ~CrcOk(p.payload) THEN Return(Reset(p), "CrcError", <<>>)
        ELSE Finish(p)

\* SlipParser_Parse with an input of one octet, and at most one in the buffer.
Parse(p, c) ==
    LET s == Return(Parser(p.startFound, p.payload, <<>>), "Cont", <<>>)
    IN  IF p.cBuffer = <<>> THEN Octet(s, c) ELSE Octet(Octet(s, Head(p.cBuffer)), c)
=============================================================================
