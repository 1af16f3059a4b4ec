----------------------------- MODULE SerialLink -----------------------------
(***************************************************************************)
(* The serial link between the flight controller (FC) and the ground       *)
(* station (GS): the ComRx and ComTx tasks of communication_tasks.c and    *)
(* the writer, io and module threads of SerialManager.cpp.                 *)
(*                                                                         *)
(* Each side sends one message at a time, with a number that the other     *)
(* side's acknowledgement (Msg_Transmission) repeats, and sends it again   *)
(* when none comes.  The FC acknowledges through the port queue its ComTx  *)
(* task also sends messages from, so it cannot acknowledge while it waits; *)
(* the GS acknowledges from a FIFO of its own, before anything else.       *)
(***************************************************************************)
EXTENDS Naturals, Sequences, FiniteSets

CONSTANTS
    NrRetransmitt,   \* NR_RETRANSMITT of the FC: attempts for one message
    NrRetries,       \* NR_RETRIES of the GS: attempts after the first
    FcNrs,           \* the FC numbers its messages modulo 255
    GsNrs,           \* the GS numbers its messages modulo 256
    EventLength,     \* EVENT_QUEUE_LENGTH: ComTx's event queue and the port queue
    FifoLength,      \* the GS FIFOs of outgoing messages and acknowledgements
    WireLength,      \* bound: frames under way in one direction
    FcKinds,         \* the messages the FC sends: destination, acknowledged or not
    GsKinds,         \* the messages the GS sends
    Messages,        \* bound: messages the FC and the GS send of their own
    Mishaps          \* bound: frames lost or damaged, and waits of the FC that
                     \* end with the answer still under way

Kind == [dst : {"FC", "GS", "BC"}, ack : BOOLEAN]

ASSUME SerialLinkAssumption ==
    /\ NrRetransmitt \in Nat \ {0} /\ NrRetries \in Nat
    /\ FcNrs \in Nat \ {0} /\ GsNrs \in Nat \ {0}
    /\ EventLength \in Nat \ {0} /\ FifoLength \in Nat \ {0} /\ WireLength \in Nat \ {0}
    /\ FcKinds \subseteq {k \in Kind : k.dst # "FC"}
    /\ GsKinds \subseteq {k \in Kind : k.dst = "FC"}
    /\ Messages \in Nat /\ Mishaps \in Nat

VARIABLES
    portQ,      \* FC: portQueue of the event handlers
    fcEvq,      \* FC: the event queue of ComTx, acknowledgements only
    sending,    \* FC: the message ComTx waits with in Com_TxSend, if any
    tries,      \* FC: reTransmittNr
    fcSeq,      \* FC: messages numbered so far; msgNr is this modulo FcNrs
    toGS, toFC, \* the wires
    outFifo,    \* GS: mOutgoingFifo
    ackFifo,    \* GS: mTransmissionFifo
    inbox,      \* GS: received, on its way through the router
    lastMsg,    \* GS: mLastMsg, empty or with one message
    doResend,   \* GS: mDoResend
    retries,    \* GS: mRetries
    gsSeq,      \* GS: messages numbered so far; mMsgNrTx is this modulo GsNrs
    doSend,     \* GS: the count of the semaphore mDoSend
    timer,      \* GS: is mTimeoutRead running
    hand,       \* GS: the message the writer thread has written and not yet saved
    fcGot,      \* history: the last message of the GS that reached the FC
    gsGot,      \* history: the last message of the FC that reached the GS
    budget      \* what the environment may still do

fcVars   == <<portQ, fcEvq, sending, tries, fcSeq>>
writeVars == <<hand, gsSeq, retries>>
gsVars   == <<outFifo, ackFifo, inbox, lastMsg, doResend, doSend, timer, writeVars>>
wires    == <<toGS, toFC>>
history  == <<fcGot, gsGot>>
vars     == <<fcVars, gsVars, wires, history, budget>>

(* A frame.  The fields seq (the number before the modulo) and hops (how   *)
(* often the message was sent from one side to the other) are history.     *)
Frame == [type : {"data", "trans"}, nr : Nat, ok : BOOLEAN, ack : BOOLEAN,
          dst : {"FC", "GS", "BC"}, seq : Nat, hops : Nat]
Data(kind) == [type |-> "data", nr |-> 0, ok |-> TRUE, ack |-> kind.ack,
               dst |-> kind.dst, seq |-> 0, hops |-> 0]
Trans(nr, ok, dst) == [type |-> "trans", nr |-> nr, ok |-> ok, ack |-> FALSE,
                       dst |-> dst, seq |-> 0, hops |-> 0]

\* Mutant: the queue is not bounded.
Put_Unbounded(q, f, length) == Append(q, f)

\* A queue that drops what does not fit.
Put(q, f, length) == IF Len(q) < length THEN Append(q, f) ELSE q
Room(wire) == Len(wire) < WireLength
FcNumber(f, n) == [f EXCEPT !.seq = n, !.nr = n % FcNrs, !.hops = @ + 1]
GsNumber(f, n) == [f EXCEPT !.seq = n, !.nr = n % GsNrs, !.hops = @ + 1]

Init ==
    /\ portQ = <<>> /\ fcEvq = <<>> /\ sending = {} /\ tries = 0 /\ fcSeq = 0
    /\ toGS = <<>> /\ toFC = <<>>
    /\ outFifo = <<>> /\ ackFifo = <<>> /\ inbox = <<>>
    /\ lastMsg = {} /\ doResend = FALSE /\ retries = 0 /\ gsSeq = 0
    /\ doSend = 0 /\ timer = FALSE /\ hand = {}
    /\ fcGot = 0 /\ gsGot = 0
    /\ budget = [messages |-> Messages, mishaps |-> Mishaps]

-----------------------------------------------------------------------------
(* The flight controller.                                                  *)

\* A handler of the FC sends a message to the GS, or a broadcast.
FcNew(kind) ==
    /\ budget.messages > 0
    /\ budget' = [budget EXCEPT !.messages = @ - 1]
    /\ portQ' = Put(portQ, Data(kind), EventLength)
    /\ UNCHANGED <<fcEvq, sending, tries, fcSeq, gsVars, wires, history>>

\* ComTx handles an acknowledgement nobody waits for.
TxIdle ==
    /\ sending = {} /\ fcEvq # <<>>
    /\ fcEvq' = Tail(fcEvq)
    /\ UNCHANGED <<portQ, sending, tries, fcSeq, gsVars, wires, history, budget>>

\* ComTx sends the next message of the port queue, and waits if it is to be
\* acknowledged.
TxSend ==
    /\ sending = {} /\ portQ # <<>> /\ Room(toGS)
    /\ portQ' = Tail(portQ)
    /\ LET f == Head(portQ)
           n == IF f.type = "data" THEN fcSeq + 1 ELSE fcSeq
           g == IF f.type = "data" THEN FcNumber(f, n) ELSE f
       IN /\ fcSeq' = n
          /\ toGS' = Append(toGS, g)
          /\ sending' = IF g.ack THEN {g} ELSE {}
    /\ tries' = 0
    /\ UNCHANGED <<fcEvq, toFC, gsVars, history, budget>>

\* Mutant: after the last attempt it goes on waiting.
Retransmitt_NeverGivesUp ==
    \E f \in sending :
        /\ tries + 1 < NrRetransmitt /\ tries' = tries + 1
        /\ Room(toGS) /\ toGS' = Append(toGS, f)
        /\ UNCHANGED sending

\* Nothing, or not the right thing, came: once more, or never again.
Retransmitt ==
    \E f \in sending :
        /\ tries' = tries + 1
        /\ IF tries + 1 >= NrRetransmitt
           THEN sending' = {} /\ UNCHANGED toGS
           ELSE Room(toGS) /\ toGS' = Append(toGS, f) /\ UNCHANGED sending

\* Mutant: any acknowledgement will do.
Acknowledges_Any(t) == t.ok

\* Is it the acknowledgement the FC waits for (Com_TxTransmission)?
Acknowledges(t) == t.nr = fcSeq % FcNrs /\ t.ok

TxAck ==
    /\ sending # {} /\ fcEvq # <<>>
    /\ Acknowledges(Head(fcEvq))
    /\ fcEvq' = Tail(fcEvq)
    /\ sending' = {}
    /\ UNCHANGED <<portQ, tries, fcSeq, gsVars, wires, history, budget>>

TxWrongAck ==
    /\ sending # {} /\ fcEvq # <<>>
    /\ ~Acknowledges(Head(fcEvq))
    /\ fcEvq' = Tail(fcEvq)
    /\ Retransmitt
    /\ UNCHANGED <<portQ, fcSeq, toFC, gsVars, history, budget>>

\* A second has passed.  That is long for the ground station, which answers at once:
\* an answer is still under way only as often as the budget says.
Late == toGS # <<>> \/ ackFifo # <<>> \/ toFC # <<>>
TxTimeout ==
    /\ sending # {} /\ fcEvq = <<>>
    /\ Late => budget.mishaps > 0
    /\ budget' = IF Late THEN [budget EXCEPT !.mishaps = @ - 1] ELSE budget
    /\ Retransmitt
    /\ UNCHANGED <<portQ, fcEvq, fcSeq, toFC, gsVars, history>>

\* Mutant: a broadcast stays one.
Retarget_Not(f) == f

\* What becomes of a broadcast that arrives: it is given the ground station's
\* address, and so is sent back.
Retarget(f) == IF f.dst = "BC" THEN [f EXCEPT !.dst = "GS"] ELSE f

\* ComRx has a frame: it is acknowledged, then sent on.
FcReceive ==
    /\ toFC # <<>>
    /\ toFC' = Tail(toFC)
    /\ LET f == Head(toFC)
           g == Retarget(f)
           acked == IF f.ack THEN Put(portQ, Trans(f.nr, TRUE, "GS"), EventLength)
                             ELSE portQ
       IN /\ portQ' = IF g.dst # "FC" THEN Put(acked, g, EventLength) ELSE acked
          /\ fcEvq' = IF f.type = "trans" THEN Put(fcEvq, f, EventLength) ELSE fcEvq
          /\ fcGot' = IF f.type = "data" THEN f.seq ELSE fcGot
    /\ UNCHANGED <<sending, tries, fcSeq, toGS, gsVars, gsGot, budget>>

\* ComRx has a damaged frame: it asks for another one, with number 0.
FcReceiveBad ==
    /\ toFC # <<>> /\ budget.mishaps > 0
    /\ budget' = [budget EXCEPT !.mishaps = @ - 1]
    /\ toFC' = Tail(toFC)
    /\ portQ' = Put(portQ, Trans(0, FALSE, "GS"), EventLength)
    /\ UNCHANGED <<fcEvq, sending, tries, fcSeq, toGS, gsVars, history>>

-----------------------------------------------------------------------------
(* The ground station.                                                     *)

\* A module sends a message to the FC (ReceivingFcnIo).
GsNew(kind) ==
    /\ budget.messages > 0
    /\ Len(outFifo) < FifoLength
    /\ budget' = [budget EXCEPT !.messages = @ - 1]
    /\ outFifo' = Append(outFifo, Data(kind))
    /\ doSend' = doSend + 1
    /\ UNCHANGED <<ackFifo, inbox, lastMsg, doResend, timer, writeVars, fcVars,
                   wires, history>>

\* messageHandler: a message that asks for it is acknowledged, then all go to the
\* router.  With a full FIFO of acknowledgements the exception drops the message.
GsReceive ==
    /\ toGS # <<>>
    /\ toGS' = Tail(toGS)
    /\ LET f == Head(toGS)
       IN \/ /\ f.ack /\ Len(ackFifo) < FifoLength
             /\ ackFifo' = Append(ackFifo, Trans(f.nr, TRUE, "FC"))
             /\ doSend' = doSend + 1
             /\ inbox' = Append(inbox, f)
             /\ gsGot' = f.seq
          \/ /\ ~f.ack
             /\ inbox' = Append(inbox, IF f.dst = "BC" THEN [f EXCEPT !.dst = "GS"] ELSE f)
             /\ gsGot' = IF f.type = "data" THEN f.seq ELSE gsGot
             /\ UNCHANGED <<ackFifo, doSend>>
          \/ /\ f.ack /\ Len(ackFifo) >= FifoLength
             /\ UNCHANGED <<ackFifo, doSend, inbox, gsGot>>
    /\ UNCHANGED <<outFifo, lastMsg, doResend, timer, writeVars, fcVars, toFC, fcGot,
                   budget>>

\* The module thread processes a Msg_Transmission.
Process ==
    /\ inbox # <<>> /\ Head(inbox).type = "trans"
    /\ inbox' = Tail(inbox)
    /\ timer' = FALSE
    /\ IF Head(inbox).ok
       THEN doResend' = FALSE /\ lastMsg' = {}
       ELSE doResend' = TRUE /\ UNCHANGED lastMsg
    /\ doSend' = doSend + 1
    /\ UNCHANGED <<outFifo, ackFifo, writeVars, fcVars, wires, history, budget>>

\* The router delivers another message; a global broadcast is also sent out, to
\* where it came from.
Route ==
    /\ inbox # <<>> /\ Head(inbox).type = "data"
    /\ inbox' = Tail(inbox)
    /\ IF Head(inbox).dst = "BC" /\ Len(outFifo) < FifoLength
       THEN outFifo' = Append(outFifo, Head(inbox)) /\ doSend' = doSend + 1
       ELSE UNCHANGED <<outFifo, doSend>>
    /\ UNCHANGED <<ackFifo, lastMsg, doResend, timer, writeVars, fcVars, wires,
                   history, budget>>

\* timerReadCallback.
GsTimeout ==
    /\ timer
    /\ timer' = FALSE
    /\ doResend' = TRUE
    /\ doSend' = doSend + 1
    /\ UNCHANGED <<outFifo, ackFifo, inbox, lastMsg, writeVars, fcVars, wires,
                   history, budget>>

-----------------------------------------------------------------------------
(* The writer thread of the ground station (doWrite): one action for each   *)
(* branch it takes when mDoSend wakes it, up to the return of mPort->write; *)
(* then the assignment to mLastMsg.  In between the module thread may run,  *)
(* and finds mLastMsg empty.  mPortReady keeps it from writing too much.    *)

Wakes == hand = {} /\ doSend > 0 /\ Room(toFC) /\ doSend' = doSend - 1

\* Writes a frame, which is kept if it is to be acknowledged.
Write(f) == toFC' = Append(toFC, f) /\ hand' = IF f.ack THEN {f} ELSE {}

\* An acknowledgement is sent first.
WriterAck ==
    /\ Wakes /\ ackFifo # <<>>
    /\ Write(Head(ackFifo)) /\ ackFifo' = Tail(ackFifo)
    /\ UNCHANGED <<outFifo, lastMsg, doResend, retries, gsSeq, timer>>

\* Otherwise the last message, if it is to be sent again: it is moved out of mLastMsg.
Resends == ackFifo = <<>> /\ lastMsg # {} /\ doResend
WriterResend ==
    /\ Wakes /\ Resends /\ retries < NrRetries
    /\ retries' = retries + 1
    /\ timer' = TRUE
    /\ \E f \in lastMsg : Write(f)
    /\ lastMsg' = {}
    /\ UNCHANGED <<outFifo, ackFifo, doResend, gsSeq>>
WriterDrop ==
    /\ Wakes /\ Resends /\ retries >= NrRetries
    /\ doResend' = FALSE /\ retries' = 0 /\ lastMsg' = {}
    /\ UNCHANGED <<outFifo, ackFifo, timer, gsSeq, hand, toFC>>

\* Mutant: a new message is sent although an acknowledgement waits.
SendsNew_BeforeAcks == outFifo # <<>> /\ lastMsg = {}

\* Otherwise a new message, unless an answer to the last one is still due.
SendsNew == ackFifo = <<>> /\ outFifo # <<>> /\ lastMsg = {}
WriterNew ==
    /\ Wakes /\ SendsNew
    /\ gsSeq' = gsSeq + 1
    /\ timer' = (timer \/ Head(outFifo).ack)
    /\ Write(GsNumber(Head(outFifo), gsSeq + 1)) /\ outFifo' = Tail(outFifo)
    /\ UNCHANGED <<ackFifo, lastMsg, doResend, retries>>

\* Otherwise nothing: the wake-up is used up.
WriterNothing ==
    /\ Wakes
    /\ ackFifo = <<>> /\ ~Resends /\ ~SendsNew
    /\ UNCHANGED <<outFifo, ackFifo, lastMsg, doResend, timer, writeVars, toFC>>

Writer == /\ WriterAck \/ WriterResend \/ WriterDrop \/ WriterNew \/ WriterNothing
          /\ UNCHANGED <<inbox, fcVars, toGS, history, budget>>

\* What is to be acknowledged is kept.
Save ==
    /\ hand # {}
    /\ lastMsg' = hand /\ hand' = {}
    /\ UNCHANGED <<outFifo, ackFifo, inbox, doResend, doSend, timer, gsSeq, retries,
                   fcVars, wires, history, budget>>

-----------------------------------------------------------------------------
(* The wires lose frames; the GS says nothing about a damaged one.         *)

LoseToFC ==
    /\ toFC # <<>> /\ budget.mishaps > 0
    /\ budget' = [budget EXCEPT !.mishaps = @ - 1]
    /\ toFC' = Tail(toFC)
    /\ UNCHANGED <<fcVars, gsVars, toGS, history>>

LoseToGS ==
    /\ toGS # <<>> /\ budget.mishaps > 0
    /\ budget' = [budget EXCEPT !.mishaps = @ - 1]
    /\ toGS' = Tail(toGS)
    /\ UNCHANGED <<fcVars, gsVars, toFC, history>>

-----------------------------------------------------------------------------
ComTx == TxIdle \/ TxSend \/ TxAck \/ TxWrongAck \/ TxTimeout
ComRx == FcReceive \/ FcReceiveBad
GsIo == GsReceive \/ GsTimeout
GsModule == Process \/ Route
GsWriter == Writer \/ Save
Environment == \/ \E kind \in FcKinds : FcNew(kind)
               \/ \E kind \in GsKinds : GsNew(kind)
               \/ LoseToFC \/ LoseToGS

Threads == ComTx \/ ComRx \/ GsIo \/ GsModule \/ GsWriter

Next == Threads \/ Environment

Spec == Init /\ [][Next]_vars

\* While a thread has something to do, one of them goes on.
FairSpec == Spec /\ WF_vars(Threads)

-----------------------------------------------------------------------------
(* Properties.                                                             *)

Frames == Seq(Frame)
FcType == /\ portQ \in Frames /\ Len(portQ) <= EventLength
          /\ fcEvq \in Frames /\ Len(fcEvq) <= EventLength
          /\ sending \in SUBSET Frame /\ tries \in 0 .. NrRetransmitt
          /\ fcSeq \in Nat
WireType == /\ toGS \in Frames /\ Len(toGS) <= WireLength
            /\ toFC \in Frames /\ Len(toFC) <= WireLength
GsType == /\ outFifo \in Frames /\ Len(outFifo) <= FifoLength
          /\ ackFifo \in Frames /\ Len(ackFifo) <= FifoLength
          /\ inbox \in Frames
          /\ lastMsg \in SUBSET Frame /\ hand \in SUBSET Frame
          /\ doResend \in BOOLEAN /\ timer \in BOOLEAN
          /\ retries \in 0 .. NrRetries
          /\ gsSeq \in Nat /\ doSend \in Nat
HistoryType == /\ fcGot \in Nat /\ gsGot \in Nat
               /\ budget \in [messages : 0 .. Messages, mishaps : 0 .. Mishaps]
TypeOK == FcType /\ WireType /\ GsType /\ HistoryType

\* ComTx goes on to the next message by an acknowledgement only if the ground
\* station has received the one acknowledged, however late the acknowledgements of
\* earlier transmissions come (Com_TxTransmission compares the numbers).
AckMeansReceived ==
    [][\A f \in sending : sending' = {} /\ tries' = tries => gsGot >= f.seq]_vars

\* An acknowledgement waiting in mTransmissionFifo always has a wake-up of the writer
\* left: the wake-ups that find nothing to send are never those of acknowledgements.
AcksHaveWakeups == doSend >= Len(ackFifo)

\* A broadcast of the FC crosses the link three times, not for ever: the ground
\* station's router sends it back, ComRx gives it the ground station's address and
\* sends it there once more.
EchoEnds == \A i \in 1 .. Len(toGS) : toGS[i].hops <= 3

\* The two sides neither wait for each other for ever nor keep each other busy: once
\* neither has anything new to say, all that was sent, acknowledged, sent again and
\* sent back comes to an end, with nothing left in a queue of the flight controller,
\* on the wires or among the acknowledgements.
LinkQuiets ==
    <>[](/\ sending = {} /\ portQ = <<>> /\ fcEvq = <<>>
         /\ ackFifo = <<>> /\ inbox = <<>> /\ toGS = <<>> /\ toFC = <<>>)

\* "All other message types will be re-sent if not acked properly."
\* (SerialManager.cpp:394): a message is let go only when the FC has it.
ReleasedWhenReceived ==
    [][\A f \in lastMsg : inbox' # inbox /\ lastMsg' = {} => fcGot >= f.seq]_vars
=============================================================================
