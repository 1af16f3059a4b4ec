---------------------------- MODULE ParamMaster ----------------------------
(***************************************************************************)
(* The parameters of QuadFC: the parameter master (paramMasterHandler.c),  *)
(* which runs in the service task, the parameter handlers of the other     *)
(* tasks (paramHandler.c), the memory a tree is saved in, and the ground   *)
(* station's end (Parameters.cpp).  The master collects a tree by asking   *)
(* one handler at a time, a message per piece; it saves each answer at     *)
(* once as a SLIP frame and loads by reading the frames back.              *)
(***************************************************************************)
EXTENDS SlipParser, Integers, SequencesExt

CONSTANTS Handlers,      \* the tasks with a parameter handler
          Pieces,        \* messages it takes to dump a handler's tree
          Values,        \* values of a parameter
          Default,       \* the value after start
          Size,          \* cells in the frame of a piece with a value
          Stop,          \* PARAM_MEM_STOP_ADDR; the start address is 0
          OldSaves,      \* what an earlier flight may have saved, if it saved all of it
          Torn,          \* cells that a write which does not end leaves
          MaxCommands,   \* bound: commands of the ground station
          MaxFaults      \* bound: messages lost, writes failed and power losses

Piece == UNION {{h} \X (1 .. Pieces[h]) : h \in Handlers}

\* What a save writes: Msg_ParamFc_e, addressed back to the handler it came from.
Packet == [piece : Piece, value : Values, seq : Nat, last : BOOLEAN]

ASSUME ParamAssumption ==
    /\ Handlers # {}
    /\ Pieces \in [Handlers -> Nat \ {0}]
    /\ Default \in Values
    /\ Size \in [Values -> Nat]
    /\ \A v \in Values : MinFrame < Size[v] /\ Size[v] + 2 <= FrameMax
    /\ Stop \in Nat \ {0}
    /\ OldSaves \subseteq Seq(Packet)
    /\ \A s \in OldSaves : \A i \in DOMAIN s :
          /\ s[i].seq = i - 1 /\ (s[i].last <=> i = Len(s))
          /\ s[i].value = s[1].value /\ i * (Size[s[1].value] + 3) <= Stop
    /\ Torn \subseteq Nat
    /\ MaxCommands \in Nat /\ MaxFaults \in Nat

\* An octet of the data is not taken for a control octet, nor for one never written.
ASSUME CellAssumption ==
    \A c \in {Boundary, Blank, Escape} : c \notin [of : Packet, nr : Nat, size : Nat]

VARIABLES
    toMaster,          \* Msg_Param_e on the way to the master
    box,               \* Msg_ParamFc_e in the queue of each handler's task
    inbox,             \* Msg_ParamFc_e answers in the queue of the service task
    toGs,              \* Msg_Param_e on the way to the ground station
    registered,        \* handlers[], in the order of their Msg_HasParam_e
    busy,              \* actionOngoing
    currentlyGetting,  \* index of the handler a get is at
    currentlySaving,   \* currentlySavinging, the same for a save
    sequenceGet,       \* number of the next answer to the ground station
    saveSequence,      \* number of the next packet to save
    setAddress,        \* where it goes
    parser,            \* the SLIP parser of the master
    load,              \* the locals of the loop of param_load, between two octets
    outcome,           \* what became of the last load
    memory,            \* the parameter memory, which a power loss spares
    value,             \* the value of each piece of each handler
    getAt, saveAt,     \* helper, saveHelper: pieces a handler has dumped
    gsSeq,             \* sequenceNr of the ground station
    gsTree,            \* the pieces it took since its sequence began
    commands, restarts, lost,   \* what the bounds count
    saved,             \* history: the packets written from the start address on
    whole,             \* history: up to the last one of a save, nothing torn
    cut,               \* history: a get or save was cut short since the start
    early,             \* history: one was accepted before any handler was known
    refused            \* history: the ground station's get met a busy master
masterVars  == <<busy, currentlyGetting, currentlySaving, sequenceGet, saveSequence, setAddress>>
loadVars    == <<parser, load, outcome>>
memoryVars  == <<memory, saved, whole>>
handlerVars == <<value, getAt, saveAt>>
gsVars      == <<gsSeq, gsTree>>
boundVars   == <<commands, restarts, lost>>
histVars    == <<cut, early, refused>>
vars == <<toMaster, box, inbox, toGs, registered, masterVars, loadVars, memoryVars,
          handlerVars, gsVars, boundVars, histVars>>

-----------------------------------------------------------------------------
(* Messages.                                                               *)

\* Parameter strings: the path says whose they are.  A dump holds one piece of a
\* tree, a set by the ground station all of one handler's.
SetMsg(pieces, v) == [control |-> "set", pieces |-> pieces, value |-> v]
Request(control)  == [control |-> control]
TreePieces(h)     == {p \in Piece : p[1] = h}

Dump(control, p, v, last) == [control |-> control, piece |-> p, value |-> v, last |-> last]

Awaits(queue, control) == queue # <<>> /\ Head(queue).control = control

-----------------------------------------------------------------------------
(* Start.                                                                  *)

NoLoad == [on |-> FALSE, address |-> 0, start |-> 0, expected |-> 0, stale |-> FALSE]

\* The memory after save s, of pieces with one value.
MemoryOf(s) ==
    [a \in 0 .. Stop - 1 |->
        IF s = <<>> THEN Blank
        ELSE LET n == Size[s[1].value]
                 i == (a \div (n + 3)) + 1
                 k == (a % (n + 3)) + 1
             IN  IF i \in DOMAIN s /\ k \in 1 .. n + 2 THEN Frame(s[i], n)[k] ELSE Blank]

Init ==
    /\ toMaster = <<Request("load")>>       \* by the main task
    /\ box = [h \in Handlers |-> <<>>] /\ inbox = <<>> /\ toGs = <<>>
    /\ registered = <<>>
    /\ busy = FALSE
    /\ currentlyGetting = 0 /\ currentlySaving = 0
    /\ sequenceGet = 0 /\ saveSequence = 0 /\ setAddress = 0
    /\ parser = NewParser /\ load = NoLoad /\ outcome = "none"
    /\ \E s \in OldSaves :
       \/ memory = MemoryOf(s) /\ saved = s /\ whole = (s # <<>>)
       \/ /\ \E n \in Torn : memory = [a \in 0 .. Stop - 1 |->
                                            IF a < n THEN MemoryOf(s)[a] ELSE Blank]
          /\ saved = <<>> /\ whole = FALSE
    /\ value = [p \in Piece |-> Default]
    /\ getAt = [h \in Handlers |-> 0] /\ saveAt = [h \in Handlers |-> 0]
    /\ gsSeq = 0 /\ gsTree = <<>>
    /\ commands = 0 /\ restarts = 0 /\ lost = 0
    /\ cut = FALSE /\ early = FALSE /\ refused = FALSE

-----------------------------------------------------------------------------
(* The master, when a message of the ground station or of the main task    *)
(* comes: ParamMaster_HandleParamMsg.                                      *)

Ask(h, control) == box' = [box EXCEPT ![h] = Append(@, Request(control))]

HandleRefused ==
    /\ ~load.on /\ busy /\ toMaster # <<>>
    /\ toMaster' = Tail(toMaster)
    /\ refused' = (refused \/ Head(toMaster).control = "get")
    /\ UNCHANGED <<box, inbox, toGs, registered, masterVars, loadVars, memoryVars,
                   handlerVars, gsVars, boundVars, cut, early>>

\* Mutant: a message that comes while an action is under way is not refused.
Accept_WhileBusy(control) ==
    /\ ~load.on /\ Awaits(toMaster, control)
    /\ toMaster' = Tail(toMaster)

Accept(control) ==
    /\ ~load.on /\ ~busy /\ Awaits(toMaster, control)
    /\ toMaster' = Tail(toMaster)

HandleParamSet ==
    /\ Accept("set")
    /\ box' = [h \in Handlers |-> IF h \in ToSet(registered)
                                  THEN Append(box[h], Head(toMaster)) ELSE box[h]]
    /\ UNCHANGED <<inbox, toGs, registered, masterVars, loadVars, memoryVars,
                   handlerVars, gsVars, boundVars, histVars>>

HandleLoad ==
    /\ Accept("load")
    /\ busy' = TRUE
    /\ load' = [NoLoad EXCEPT !.on = TRUE,
                              !.stale = parser.startFound \/ parser.payload # <<>>]
    /\ outcome' = "none"
    /\ UNCHANGED <<box, inbox, toGs, registered, currentlyGetting, currentlySaving,
                   sequenceGet, saveSequence, setAddress, parser, memoryVars,
                   handlerVars, gsVars, boundVars, histVars>>

\* A get or a save goes to the handler the last one stopped at.  With no handler
\* known it goes nowhere, and no answer will end it.
StartDump(control, at) ==
    /\ Accept(control)
    /\ IF at < Len(registered) THEN Ask(registered[at + 1], control) ELSE UNCHANGED box
    /\ busy' = TRUE
    /\ early' = (early \/ registered = <<>>)
    /\ UNCHANGED <<inbox, toGs, registered, currentlyGetting, currentlySaving, sequenceGet,
                   saveSequence, setAddress, loadVars, memoryVars, handlerVars, gsVars,
                   boundVars, cut, refused>>

HandleGet  == StartDump("get", currentlyGetting)
HandleSave == StartDump("save", currentlySaving)

-----------------------------------------------------------------------------
(* The loop of param_load, an octet at a time: other tasks run meanwhile,  *)
(* the messages for the service task wait.                                 *)

Cell(a) == IF a < Stop THEN memory[a] ELSE Blank

Fits == load.address - load.start <= FrameMax
Parsed == Parse(parser, Cell(load.address))
Taken  == Parsed.packet[1].of              \* the message of a parsed frame

LoadUnchanged == UNCHANGED <<toMaster, inbox, toGs, registered, currentlyGetting,
                             currentlySaving, sequenceGet, saveSequence, setAddress,
                             memoryVars, handlerVars, gsVars, boundVars, histVars>>

\* Mutant: the address is not counted up.
LoadMore_SameOctet ==
    /\ load.on /\ Fits /\ Parsed.result = "Cont"
    /\ parser' = Parsed.parser
    /\ UNCHANGED <<load, busy, outcome, box>>
    /\ LoadUnchanged

LoadMore ==
    /\ load.on /\ Fits /\ Parsed.result = "Cont"
    /\ parser' = Parsed.parser
    /\ load' = [load EXCEPT !.address = @ + 1]
    /\ UNCHANGED <<busy, outcome, box>>
    /\ LoadUnchanged

LoadPacket ==
    /\ load.on /\ Fits /\ Parsed.result = "OK" /\ Taken.seq = load.expected
    /\ parser' = Parsed.parser
    /\ box' = [box EXCEPT ![Taken.piece[1]] = Append(@, SetMsg({Taken.piece}, Taken.value))]
    /\ IF Taken.last
       THEN /\ load' = NoLoad /\ busy' = FALSE /\ outcome' = "loaded"
       ELSE /\ load' = [load EXCEPT !.address = @ + 1, !.start = load.address + 1,
                                    !.expected = @ + 1]
            /\ UNCHANGED <<busy, outcome>>
    /\ LoadUnchanged

\* Nothing resets the parser when a packet is given up because of its length.
LoadFails ==
    /\ load.on
    /\ \/ ~Fits /\ UNCHANGED parser
       \/ Fits /\ Parsed.result \notin {"Cont", "OK"} /\ parser' = Parsed.parser
       \/ Fits /\ Parsed.result = "OK" /\ Taken.seq # load.expected /\ parser' = Parsed.parser
    /\ load' = NoLoad /\ busy' = FALSE /\ outcome' = "fault"     \* Msg_FcFault_e
    /\ UNCHANGED box
    /\ LoadUnchanged

-----------------------------------------------------------------------------
(* The master, when a parameter handler answers:                           *)
(* ParamMaster_HandleHasParamMsg, ParamMaster_HandleParamFcMsg.            *)

\* The answers to the broadcast at the start come in any order, or not at all.
HandleHasParam(h) ==
    /\ ~load.on /\ h \notin ToSet(registered)
    /\ registered' = Append(registered, h)
    /\ UNCHANGED <<toMaster, box, inbox, toGs, masterVars, loadVars, memoryVars,
                   handlerVars, gsVars, boundVars, histVars>>

Answered(control) ==
    /\ ~load.on /\ Awaits(inbox, control)
    /\ inbox' = Tail(inbox)

\* Mutant: the clean-up leaves the master busy.
CleanUp_StaysBusy ==
    /\ UNCHANGED busy
    /\ saveSequence' = 0 /\ setAddress' = 0 /\ currentlySaving' = 0

\* The end of the handler, when it has no result: a get or a save under way is over.
CleanUp ==
    /\ busy' = FALSE
    /\ saveSequence' = 0 /\ setAddress' = 0 /\ currentlySaving' = 0

\* The answer to a set is for signalling only, but it has no result.
HandleFcSet ==
    /\ Answered("set")
    /\ CleanUp
    /\ cut' = (cut \/ busy)
    /\ UNCHANGED <<toMaster, box, toGs, registered, currentlyGetting, sequenceGet, loadVars,
                   memoryVars, handlerVars, gsVars, boundVars, early, refused>>

\* The last piece of handler number at, which is the last handler.
LastOfAll(m, at) == m.last /\ at + 1 >= Len(registered)

\* Mutant: after the last handler the index is not set back.
NextHandler_NoWrap(m, at) == IF m.last THEN at + 1 ELSE at

NextHandler(m, at) == IF LastOfAll(m, at) THEN 0 ELSE IF m.last THEN at + 1 ELSE at

HandleFcGet ==
    /\ Answered("get")
    /\ LET m    == Head(inbox)
           last == LastOfAll(m, currentlyGetting)
       IN  /\ toGs' = Append(toGs, [piece |-> m.piece, seq |-> sequenceGet, last |-> last])
           /\ currentlyGetting' = NextHandler(m, currentlyGetting)
           /\ sequenceGet' = IF last THEN 0 ELSE sequenceGet + 1
    /\ busy' = FALSE
    /\ UNCHANGED <<toMaster, box, registered, currentlySaving, saveSequence, setAddress,
                   loadVars, memoryVars, handlerVars, gsVars, boundVars, histVars>>

\* The packet of a save, as it is written.
Written(m) == [piece |-> m.piece, value |-> m.value, seq |-> saveSequence,
               last |-> LastOfAll(m, currentlySaving)]
\* Mutant: the boundaries of the packet are not counted.
NextAddress_OfData(m) == setAddress + Size[m.value]

\* The packet is packetSize cells, and one cell is left out after it.
NextAddress(m) == setAddress + Size[m.value] + 3

InMemory(m) == setAddress + Size[m.value] + 2 < Stop

\* The first n cells of the frame reach the memory.
Write(m, n) ==
    LET frame == Frame(Written(m), Size[m.value])
    IN  memory' = [a \in DOMAIN memory |-> IF a - setAddress \in 0 .. n - 1
                                           THEN frame[a - setAddress + 1] ELSE memory[a]]

SaveUnchanged == UNCHANGED <<toMaster, toGs, registered, currentlyGetting, sequenceGet,
                             loadVars, handlerVars, gsVars, commands, restarts, early, refused>>

HandleFcSave ==
    /\ Answered("save")
    /\ LET m    == Head(inbox)
           last == LastOfAll(m, currentlySaving)
           at   == NextHandler(m, currentlySaving)
       IN  /\ InMemory(m)
           /\ Write(m, Size[m.value] + 2)
           /\ saved' = IF setAddress = 0 THEN <<Written(m)>> ELSE Append(saved, Written(m))
           /\ whole' = last
           /\ currentlySaving' = at
           /\ IF last
              THEN busy' = FALSE /\ saveSequence' = 0 /\ setAddress' = 0 /\ UNCHANGED box
              ELSE /\ saveSequence' = saveSequence + 1
                   /\ setAddress' = NextAddress(m)
                   /\ Ask(registered[at + 1], "save")
                   /\ UNCHANGED busy
    /\ UNCHANGED <<lost, cut>>
    /\ SaveUnchanged

HandleFcSaveFull ==
    /\ Answered("save")
    /\ ~InMemory(Head(inbox))
    /\ CleanUp
    /\ cut' = TRUE
    /\ UNCHANGED <<box, memoryVars, lost>>
    /\ SaveUnchanged

\* The write fails, after n cells: the next piece is asked for all the same.
HandleFcSaveFails(n) ==
    /\ restarts + lost < MaxFaults /\ lost' = lost + 1
    /\ Answered("save")
    /\ LET m == Head(inbox)
       IN  /\ InMemory(m) /\ n < Size[m.value] + 2
           /\ Write(m, n)
           /\ IF LastOfAll(m, currentlySaving) THEN UNCHANGED box
              ELSE Ask(registered[NextHandler(m, currentlySaving) + 1], "save")
    /\ saved' = <<>> /\ whole' = FALSE
    /\ CleanUp
    /\ cut' = TRUE
    /\ SaveUnchanged

-----------------------------------------------------------------------------
(* A parameter handler: ParamHandler_HandleParamFcMsg.                     *)

HandlerUnchanged == UNCHANGED <<toMaster, toGs, registered, masterVars, loadVars, memoryVars,
                                gsVars, boundVars, histVars>>

\* Its own parameters are set, and the master is answered in any case.
PhSet(h) ==
    /\ Awaits(box[h], "set")
    /\ LET m == Head(box[h])
       IN  value' = [p \in Piece |-> IF p \in m.pieces /\ p[1] = h THEN m.value ELSE value[p]]
    /\ box' = [box EXCEPT ![h] = Tail(@)]
    /\ inbox' = Append(inbox, Request("set"))
    /\ UNCHANGED <<getAt, saveAt>>
    /\ HandlerUnchanged

\* The next piece of the tree, from where the helper of gets, or of saves, is.
PieceAt(h, at) == <<h, at[h] + 1>>

\* Mutant: the helper is not set back when the dump is finished.
Onward_NotBack(h, at) == [at EXCEPT ![h] = IF @ + 1 = Pieces[h] THEN @ ELSE @ + 1]

Onward(h, at) == [at EXCEPT ![h] = IF @ + 1 = Pieces[h] THEN 0 ELSE @ + 1]

PhDump(h, control, at) ==
    /\ Awaits(box[h], control)
    /\ box' = [box EXCEPT ![h] = Tail(@)]
    /\ inbox' = Append(inbox, Dump(control, PieceAt(h, at), value[PieceAt(h, at)],
                                   at[h] + 1 = Pieces[h]))
    /\ UNCHANGED value
    /\ HandlerUnchanged

PhGet(h)  == PhDump(h, "get", getAt) /\ getAt' = Onward(h, getAt) /\ UNCHANGED saveAt
PhSave(h) == PhDump(h, "save", saveAt) /\ saveAt' = Onward(h, saveAt) /\ UNCHANGED getAt

-----------------------------------------------------------------------------
(* The ground station: the commands of Parameters.cpp and process.         *)

GsUnchanged == UNCHANGED <<box, inbox, registered, masterVars, loadVars, memoryVars,
                           handlerVars, restarts, lost, histVars>>
GsSends(m)  == toMaster' = Append(toMaster, m) /\ GsUnchanged

GsCommand(m) ==
    /\ commands < MaxCommands /\ commands' = commands + 1
    /\ GsSends(m)
    /\ UNCHANGED <<toGs, gsVars>>

GsWrite(h, v) == GsCommand(SetMsg(TreePieces(h), v))
GsSave        == GsCommand(Request("save"))
GsLoad        == GsCommand(Request("load"))
GsRequest     == gsSeq = 0 /\ GsCommand(Request("get"))

\* Mutant: the last packet does not end the sequence.
SequenceAfter_Counts(m) == IF m.seq # gsSeq THEN 0 ELSE gsSeq + 1

\* A packet out of sequence ends it, and so does the last one.
SequenceAfter(m) == IF m.seq # gsSeq \/ m.last THEN 0 ELSE gsSeq + 1

GsProcess ==
    /\ toGs # <<>>
    /\ toGs' = Tail(toGs)
    /\ LET m == Head(toGs)
       IN  /\ gsSeq' = SequenceAfter(m)
           /\ gsTree' = IF m.seq # gsSeq THEN <<>>
                        ELSE IF gsSeq = 0 THEN <<m.piece>> ELSE Append(gsTree, m.piece)
           /\ IF m.seq = gsSeq /\ ~m.last THEN GsSends(Request("get"))
              ELSE UNCHANGED toMaster /\ GsUnchanged
    /\ UNCHANGED commands

-----------------------------------------------------------------------------
(* Faults.                                                                 *)

\* The flight controller starts again; what was on the way to it is gone.
Restart ==
    /\ restarts + lost < MaxFaults /\ restarts' = restarts + 1
    /\ toMaster' = <<Request("load")>>
    /\ box' = [h \in Handlers |-> <<>>] /\ inbox' = <<>> /\ registered' = <<>>
    /\ busy' = FALSE
    /\ currentlyGetting' = 0 /\ currentlySaving' = 0
    /\ sequenceGet' = 0 /\ saveSequence' = 0 /\ setAddress' = 0
    /\ parser' = NewParser /\ load' = NoLoad /\ outcome' = "none"
    /\ value' = [p \in Piece |-> Default]
    /\ getAt' = [h \in Handlers |-> 0] /\ saveAt' = [h \in Handlers |-> 0]
    /\ cut' = FALSE /\ early' = FALSE
    /\ UNCHANGED <<toGs, gsVars, commands, lost, refused>>

PowerLoss == Restart /\ UNCHANGED memoryVars

\* The power is lost in a write, after n cells of the frame.
PowerLossInWrite(n) ==
    /\ ~load.on /\ Awaits(inbox, "save")
    /\ LET m == Head(inbox)
       IN  InMemory(m) /\ n < Size[m.value] + 2 /\ Write(m, n)
    /\ saved' = <<>> /\ whole' = FALSE
    /\ Restart

\* The last message of a queue, as if it had found the queue full.
Lose ==
    /\ restarts + lost < MaxFaults /\ lost' = lost + 1
    /\ \/ /\ inbox # <<>> /\ inbox' = Front(inbox)
          /\ UNCHANGED <<toMaster, box, toGs>>
       \/ /\ toGs # <<>> /\ toGs' = Front(toGs)
          /\ UNCHANGED <<toMaster, box, inbox>>
       \/ /\ toMaster # <<>> /\ toMaster' = Front(toMaster)
          /\ UNCHANGED <<box, inbox, toGs>>
       \/ \E h \in Handlers :
          /\ box[h] # <<>> /\ box' = [box EXCEPT ![h] = Front(@)]
          /\ UNCHANGED <<toMaster, inbox, toGs>>
    /\ UNCHANGED <<registered, masterVars, loadVars, memoryVars, handlerVars, gsVars,
                   commands, restarts, histVars>>

-----------------------------------------------------------------------------

Master == HandleRefused \/ HandleParamSet \/ HandleLoad \/ HandleGet \/ HandleSave
Loader == LoadMore \/ LoadPacket \/ LoadFails
Answers == HandleFcSet \/ HandleFcGet \/ HandleFcSave \/ HandleFcSaveFull
Handler(h) == PhSet(h) \/ PhGet(h) \/ PhSave(h)

Tasks == Master \/ Loader \/ Answers \/ (\E h \in Handlers : Handler(h)) \/ GsProcess
Gs == \/ \E h \in Handlers, v \in Values \ {Default} : GsWrite(h, v)
      \/ GsSave \/ GsLoad \/ GsRequest
Faults == PowerLoss \/ Lose \/ \E n \in Torn : HandleFcSaveFails(n) \/ PowerLossInWrite(n)

Next == Tasks \/ (\E h \in Handlers : HandleHasParam(h)) \/ Gs \/ Faults

Spec == Init /\ [][Next]_vars

\* The processor does not idle while a task has something to do.
FairSpec == Spec /\ WF_vars(Tasks)

-----------------------------------------------------------------------------
(* What must hold.                                                         *)

Cells == {Boundary, Blank, Escape} \cup [of : Packet, nr : Nat, size : Nat]
Parsers == [startFound : BOOLEAN, payload : Seq(Cells \ {Boundary}), cBuffer : Seq(Cells)]
ToHandler == [control : {"set"}, pieces : SUBSET Piece, value : Values]
             \cup [control : {"get", "save"}]
ToMaster  == [control : {"set"}, pieces : SUBSET Piece, value : Values]
             \cup [control : {"get", "save", "load"}]
Answer    == [control : {"get", "save"}, piece : Piece, value : Values, last : BOOLEAN]
             \cup [control : {"set"}]

QueuesOK ==
    /\ toMaster \in Seq(ToMaster) /\ inbox \in Seq(Answer)
    /\ box \in [Handlers -> Seq(ToHandler)]
    /\ toGs \in Seq([piece : Piece, seq : Nat, last : BOOLEAN])
MasterOK ==
    /\ registered \in Seq(Handlers)
    /\ busy \in BOOLEAN
    /\ currentlyGetting \in Nat /\ (currentlyGetting < Len(registered) \/ currentlyGetting = 0)
    /\ currentlySaving \in Nat /\ (currentlySaving < Len(registered) \/ currentlySaving = 0)
    /\ sequenceGet \in Nat /\ saveSequence \in Nat
    /\ setAddress \in 0 .. Stop
LoadOK ==
    /\ parser \in Parsers
    /\ load \in [on : BOOLEAN, address : Nat, start : Nat, expected : Nat, stale : BOOLEAN]
    /\ outcome \in {"none", "loaded", "fault"}
MemoryOK ==
    /\ memory \in [0 .. Stop - 1 -> Cells]
    /\ saved \in Seq(Packet) /\ whole \in BOOLEAN
TreesOK ==
    /\ value \in [Piece -> Values]
    /\ getAt \in [Handlers -> Nat] /\ saveAt \in [Handlers -> Nat]
    /\ \A h \in Handlers : getAt[h] < Pieces[h] /\ saveAt[h] < Pieces[h]
GsOK     == gsSeq \in Nat /\ gsTree \in Seq(Piece)
CountsOK ==
    /\ commands \in 0 .. MaxCommands /\ restarts \in Nat /\ lost \in Nat
    /\ cut \in BOOLEAN /\ early \in BOOLEAN /\ refused \in BOOLEAN

\* The shape of the state: an index of the master stays within the handlers it
\* knows, what is saved stays below the last address, and a helper within its tree.
TypeOK == QueuesOK /\ MasterOK /\ LoadOK /\ MemoryOK /\ TreesOK /\ GsOK /\ CountsOK

\* An action that is neither a load nor followed by a message never ends: a busy
\* master has asked, or is being answered, unless a message was lost or a get or
\* save was accepted before any handler had said that it has parameters.
Holds(queue, control) == \E i \in DOMAIN queue : queue[i].control = control
UnderWay(control) == Holds(inbox, control) \/ \E h \in Handlers : Holds(box[h], control)

WedgedOnlyByLoss ==
    busy /\ ~load.on => UnderWay("get") \/ UnderWay("save") \/ lost > 0 \/ early

\* The piece after p in the trees of handlers hs, in order.
Follows(p, q, hs) ==
    \/ p[2] < Pieces[p[1]] /\ q = <<p[1], p[2] + 1>>
    \/ /\ p[2] = Pieces[p[1]]
       /\ \E i \in 1 .. Len(hs) - 1 : p[1] = hs[i] /\ q = <<hs[i + 1], 1>>

\* Sequence t begins with the first piece of handlers hs and goes on in order.
BeginsTreeOf(t, hs) ==
    /\ t # <<>> /\ hs # <<>>
    /\ t[1] = <<hs[1], 1>>
    /\ \A i \in 1 .. Len(t) - 1 : Follows(t[i], t[i + 1], hs)

\* It has all their pieces, in order: a handler registers once.
IsTreeOf(t, hs) ==
    BeginsTreeOf(t, hs) /\ t[Len(t)] = <<hs[Len(hs)], Pieces[hs[Len(hs)]]>>

PiecesOf(packets) == [i \in DOMAIN packets |-> packets[i].piece]

\* A save that no one cut short ends with the whole tree in the memory: each piece
\* of each handler known at the end, once, in order, with the value it has at the
\* end.
SavedIsTheTree ==
    [][saved' # saved /\ whole' /\ ~cut' =>
        /\ IsTreeOf(PiecesOf(saved'), registered)
        /\ \A i \in DOMAIN saved' : saved'[i].value = value[saved'[i].piece]]_vars

\* A load of a complete save gives back just the packets that were saved, each to
\* the handler it came from, in order, whatever the saves before it left in the
\* memory behind it and between its packets; unless an earlier load was given up
\* in the middle of a frame.
LoadRestoresTheSave ==
    [][load.on /\ whole /\ ~load.stale =>
        /\ outcome' = "fault" => parser.payload = <<Escape>>
        /\ load'.expected > load.expected \/ outcome' = "loaded" =>
             /\ load.expected < Len(saved)
             /\ LET p == saved[load.expected + 1]
                IN  /\ box' = [box EXCEPT ![p.piece[1]] = Append(@, SetMsg({p.piece}, p.value))]
                    /\ outcome' = "loaded" <=> load.expected + 1 = Len(saved)]_vars

\* Between two octets the parser keeps at most the boundary that ended the last
\* frame, and only when it has begun no other.  After a load that ended well it
\* waits for the start of a frame.
ParserBetweenLoads ==
    /\ parser.cBuffer \in {<<>>, <<Boundary>>}
    /\ parser.cBuffer # <<>> => parser = Parser(FALSE, <<>>, <<Boundary>>)
    /\ outcome = "loaded" => parser.cBuffer # <<>>

\* A ground station that has taken its last packet has got the trees of the first
\* handlers, all of each, in order: unless a get was cut short, a packet was lost
\* or the flight controller was started again.
GetInOrder ==
    gsSeq = 0 /\ gsTree # <<>> /\ ~cut /\ lost = 0 /\ restarts = 0 =>
        \E n \in 1 .. Len(registered) : IsTreeOf(gsTree, SubSeq(registered, 1, n))

\* The ground station waits for an answer only while its request, or the answer,
\* is under way; or else something was lost, or its request met a busy master,
\* whose answer it ignores.
OngoingIsAnswered ==
    gsSeq # 0 =>
        \/ toGs # <<>> \/ UnderWay("get") \/ Holds(toMaster, "get")
        \/ lost > 0 \/ restarts > 0 \/ refused

\* The master does not stay busy, unless a message was lost or it was asked too early.
EveryActionEnds == busy ~> ~busy \/ lost > 0 \/ early
=============================================================================
