----------------------- MODULE FlightControl_proofs -----------------------
(***************************************************************************)
(* Proofs about FlightControl: type correctness, the safety invariants and *)
(* the implementation of FlightLifecycle, for every value of the constants *)
(* that FlightControlAssumption allows.                                    *)
(***************************************************************************)
EXTENDS FlightControl, TLAPS

-----------------------------------------------------------------------------
(* The queue.                                                              *)

\* A message put in the queue leaves it a queue of messages within its bound.
LEMMA PutType ==
    ASSUME NEW q \in Seq(Message), Len(q) <= QueueLength, NEW m \in Message
    PROVE  Put(q, m) \in Seq(Message) /\ Len(Put(q, m)) <= QueueLength
  BY FlightControlAssumption DEF Put

\* So does taking the head out, which is a message.
LEMMA TailType ==
    ASSUME NEW q \in Seq(Message), Len(q) <= QueueLength, q # <<>>
    PROVE  /\ Head(q) \in Message
           /\ Tail(q) \in Seq(Message) /\ Len(Tail(q)) <= QueueLength
  BY FlightControlAssumption

\* The messages the handlers build are messages.
LEMMA MessageTypes ==
    /\ \A m \in FMode : /\ FlightModeMsg(m) \in Message
                        /\ \A s \in {"FC_Ctrl", "GS"} : FlightModeReqMsg(m, s) \in Message
    /\ \A m \in CtrlMode : CtrlModeMsg(m) \in Message /\ CtrlModeReqMsg(m) \in Message
    /\ \A s \in Stick : SpectrumDataMsg(s) \in Message
    /\ NewSetpointMsg \in Message /\ FcFaultMsg \in Message
  BY DEF Message, FlightModeMsg, FlightModeReqMsg, CtrlModeMsg, CtrlModeReqMsg,
         SpectrumDataMsg, NewSetpointMsg, FcFaultMsg

\* A message has the fields of its type.
LEMMA MessageFields ==
    ASSUME NEW m \in Message
    PROVE  /\ m.type \in {"FlightMode", "FlightModeReq", "CtrlMode", "CtrlModeReq",
                          "SpectrumData", "NewSetpoint", "FcFault"}
           /\ m.type \in {"FlightMode", "FlightModeReq"} => m.mode \in FMode
           /\ m.type = "FlightModeReq" => m.src \in {"FC_Ctrl", "GS"}
           /\ m.type \in {"CtrlMode", "CtrlModeReq"} => m.mode \in CtrlMode
           /\ m.type = "SpectrumData" => m.stick \in Stick
  BY DEF Message

\* The regulator operators keep the type of the regulator.
LEMMA OnOffType ==
    ASSUME NEW c \in Regulator
    PROVE  CtrlOn(c) \in Regulator /\ CtrlOff(c) \in Regulator
  BY DEF Regulator, CtrlMode, CtrlOn, CtrlOff

\* So does the switch, between two control modes.
LEMMA SwitchType ==
    ASSUME NEW c \in Regulator, NEW new \in CtrlMode, NEW v \in SUBSET {"rate", "attitude"}
    PROVE  CtrlSwitch(c, new, v) \in Regulator
  BY DEF Regulator, CtrlSwitch

\* The estimates marked valid are estimates.
LEMMA ValidType == \A m : ValidIn(m) \in SUBSET {"rate", "attitude"}
  BY DEF ValidIn

-----------------------------------------------------------------------------
(* Type correctness.                                                       *)

\* The initial states have their types.
LEMMA InitType == Init => TypeOK
<1> SUFFICES ASSUME Init PROVE TypeOK
  OBVIOUS
<1>1. MainType
  BY FlightControlAssumption DEF Init, MainType, FMode
<1>2. CtrlType
  BY DEF Init, CtrlType, CtrlMode, Regulator
<1>3. StickType
  BY DEF Init, StickType, FMode, CtrlMode
<1>4. QueueType
  BY FlightControlAssumption DEF Init, QueueType
<1>5. sp \in BOOLEAN /\ satQuiet \in BOOLEAN
  BY DEF Init
<1>6. stick \in Sticks /\ arrivals \in 0 .. MaxArrivals
  BY FlightControlAssumption DEF Init
<1>7. dwell \in 0 .. ArmCycles + 1 /\ bare \in 0 .. SpTimeoutCycles
  BY FlightControlAssumption DEF Init
<1>8. faulted \in BOOLEAN /\ lost \in BOOLEAN
  BY DEF Init
<1> QED
  BY <1>1, <1>2, <1>3, <1>4, <1>5, <1>6, <1>7, <1>8 DEF TypeOK, EnvType, HistType

\* Every action keeps every variable in its type: one step per action.
LEMMA NextType == TypeOK /\ [Next]_vars => TypeOK'
<1> SUFFICES ASSUME TypeOK, [Next]_vars PROVE TypeOK'
  OBVIOUS
<1> USE FlightControlAssumption
<1>t. MainType /\ CtrlType /\ StickType /\ QueueType /\ EnvType /\ HistType
  BY DEF TypeOK
<1>q. /\ QueueType /\ FlightModeMsg("fault") \in Message /\ stick \in Stick
      /\ \A m \in GsModes : FlightModeReqMsg(m, "GS") \in Message
  BY <1>t, MessageTypes DEF QueueType, EnvType, FMode
<1>h. evq # <<>> =>
        /\ Tail(evq) \in Seq(Message) /\ Len(Tail(evq)) <= QueueLength
        /\ Head(evq).type = "FlightMode" => Head(evq).mode \in FMode
        /\ Head(evq).type = "FlightModeReq" => Head(evq).mode \in FMode
        /\ Head(evq).type = "CtrlMode" => Head(evq).mode \in CtrlMode
        /\ Head(evq).type = "CtrlModeReq" => Head(evq).mode \in CtrlMode
  BY <1>t, TailType, MessageFields DEF QueueType
<1>1. CASE Startup
  <2>1. MainType'
    BY <1>t, <1>1 DEF Startup, MainType, mainVars, FMode
  <2>2. CtrlType'
    BY <1>t, <1>1 DEF Startup, CtrlType, ctrlVars, CtrlMode
  <2>3. QueueType'
    BY <1>t, <1>1, <1>q, PutType, MessageTypes DEF Startup, QueueType, FMode, CtrlMode
  <2>4. StickType' /\ EnvType' /\ HistType'
    BY <1>t, <1>1 DEF Startup, StickType, stickVars, EnvType, envVars, HistType, histVars
  <2> QED
    BY <2>1, <2>2, <2>3, <2>4 DEF TypeOK
<1>2. CASE Calibrated
  <2>1. MainType'
    BY <1>t, <1>2 DEF Calibrated, MainType, FMode
  <2>2. CtrlType'
    BY <1>t, <1>2, OnOffType DEF Calibrated, CtrlType, ctrlVars
  <2>3. EnvType'
    BY <1>t, <1>2 DEF Calibrated, EnvType, envVars
  <2>4. HistType'
    BY <1>t, <1>2 DEF Calibrated, HistType, histVars
  <2>5. QueueType'
    BY <1>t, <1>2, <1>q, PutType DEF Calibrated, QueueType
  <2>6. StickType'
    BY <1>t, <1>2 DEF Calibrated, StickType, stickVars
  <2> QED
    BY <2>1, <2>2, <2>3, <2>4, <2>5, <2>6 DEF TypeOK
<1>3. CASE LeaveCycle
  <2>1. MainType'
    BY <1>t, <1>3 DEF LeaveCycle, MainType, mainVars, ModeOrFault, FMode
  <2>2. CtrlType'
    BY <1>t, <1>3, OnOffType DEF LeaveCycle, CtrlType, ctrlVars
  <2>3. HistType'
    BY <1>t, <1>3 DEF LeaveCycle, HistType, histVars, Announce
  <2>4. QueueType'
    BY <1>t, <1>3, <1>q, <2>1, PutType, MessageTypes DEF LeaveCycle, QueueType, Announce, MainType
  <2>5. StickType' /\ EnvType'
    BY <1>t, <1>3 DEF LeaveCycle, StickType, stickVars, EnvType, envVars
  <2> QED
    BY <2>1, <2>2, <2>3, <2>4, <2>5 DEF TypeOK
<1>4. CASE IdleCycle
  <2>1. MainType'
    BY <1>t, <1>4 DEF IdleCycle, MainType, mainVars
  <2>2. CtrlType' /\ StickType' /\ EnvType' /\ HistType' /\ QueueType'
    BY <1>t, <1>4 DEF IdleCycle, CtrlType, ctrlVars, StickType, stickVars, EnvType, envVars, HistType, histVars, QueueType
  <2> QED
    BY <2>1, <2>2 DEF TypeOK
<1>5. CASE ArmingCycle
  <2>1. MainType'
    BY <1>t, <1>5 DEF ArmingCycle, MainType, mainVars, ModeOrFault, FMode
  <2>2. CtrlType'
    BY <1>t, <1>5, OnOffType DEF ArmingCycle, CtrlType, ctrlVars
  <2>3. HistType'
    BY <1>t, <1>5 DEF ArmingCycle, HistType, histVars, Announce
  <2>4. QueueType'
    BY <1>t, <1>5, <1>q, <2>1, PutType, MessageTypes DEF ArmingCycle, QueueType, Announce, MainType
  <2>5. StickType' /\ EnvType'
    BY <1>t, <1>5 DEF ArmingCycle, StickType, stickVars, EnvType, envVars
  <2> QED
    BY <2>1, <2>2, <2>3, <2>4, <2>5 DEF TypeOK
<1>6. CASE ArmedSetpoint
  <2>1. MainType'
    BY <1>t, <1>6 DEF ArmedSetpoint, MainType, mainVars, SpTimeoutNext, Capped, FMode
  <2>2. CtrlType'
    BY <1>t, <1>6, OnOffType DEF ArmedSetpoint, CtrlType, ctrlVars
  <2>3. HistType'
    <3>1. dwell' \in 0 .. ArmCycles + 1 /\ bare' \in 0 .. SpTimeoutCycles
      BY <1>t, <1>6 DEF ArmedSetpoint, HistType, Capped
    <3>2. faulted' \in BOOLEAN
      BY <1>t, <1>6 DEF ArmedSetpoint, HistType
    <3>3. lost' \in BOOLEAN
      BY <1>t, <1>6 DEF ArmedSetpoint, HistType, Announce
    <3> QED
      BY <3>1, <3>2, <3>3 DEF HistType
  <2>4. QueueType'
    BY <1>t, <1>6, <1>q, PutType DEF ArmedSetpoint, QueueType, Announce
  <2>5. StickType' /\ EnvType'
    BY <1>t, <1>6 DEF ArmedSetpoint, StickType, stickVars, EnvType, envVars
  <2> QED
    BY <2>1, <2>2, <2>3, <2>4, <2>5 DEF TypeOK
<1>7. CASE ArmedControl
  <2>1. MainType'
    BY <1>t, <1>7 DEF ArmedControl, MainType, mainVars, FMode
  <2>2. CtrlType'
    BY <1>t, <1>7, OnOffType, SwitchType, ValidType DEF ArmedControl, CtrlType, ctrlVars
  <2>3. HistType'
    BY <1>t, <1>7 DEF ArmedControl, HistType, histVars
  <2>4. QueueType'
    BY <1>t, <1>7, <1>q, PutType DEF ArmedControl, QueueType, PutIf
  <2>5. StickType' /\ EnvType'
    BY <1>t, <1>7 DEF ArmedControl, StickType, stickVars, EnvType, envVars
  <2> QED
    BY <2>1, <2>2, <2>3, <2>4, <2>5 DEF TypeOK
<1>8. CASE DisarmingCycle
  <2>1. MainType'
    BY <1>t, <1>8 DEF DisarmingCycle, MainType, mainVars, ModeOrFault, FMode
  <2>2. CtrlType'
    BY <1>t, <1>8, OnOffType DEF DisarmingCycle, CtrlType, ctrlVars
  <2>3. HistType'
    BY <1>t, <1>8 DEF DisarmingCycle, HistType, histVars, Announce
  <2>4. QueueType'
    BY <1>t, <1>8, <1>q, <2>1, PutType, MessageTypes DEF DisarmingCycle, QueueType, Announce, MainType
  <2>5. StickType' /\ EnvType'
    BY <1>t, <1>8 DEF DisarmingCycle, StickType, stickVars, EnvType, envVars
  <2> QED
    BY <2>1, <2>2, <2>3, <2>4, <2>5 DEF TypeOK
<1>9. CASE HandleFlightModeReq
  <2>1. MainType'
    BY <1>t, <1>9, <1>h DEF HandleFlightModeReq, MainType, mainVars, Received
  <2>2. HistType'
    BY <1>t, <1>9 DEF HandleFlightModeReq, HistType, histVars
  <2>3. QueueType'
    BY <1>t, <1>9, <1>q, <1>h, <2>1, PutType, MessageTypes DEF HandleFlightModeReq, QueueType, Received, PutIf, MainType
  <2>4. CtrlType' /\ StickType' /\ EnvType'
    BY <1>t, <1>9 DEF HandleFlightModeReq, CtrlType, ctrlVars, StickType, stickVars, EnvType, envVars
  <2> QED
    BY <2>1, <2>2, <2>3, <2>4 DEF TypeOK
<1>10. CASE HandleFcFault
  <2>1. MainType'
    BY <1>t, <1>10 DEF HandleFcFault, MainType, mainVars, FMode
  <2>2. HistType'
    BY <1>t, <1>10 DEF HandleFcFault, HistType, histVars
  <2>3. QueueType'
    BY <1>t, <1>10, <1>q, <1>h, PutType DEF HandleFcFault, QueueType, Received
  <2>4. CtrlType' /\ StickType' /\ EnvType'
    BY <1>t, <1>10 DEF HandleFcFault, CtrlType, ctrlVars, StickType, stickVars, EnvType, envVars
  <2> QED
    BY <2>1, <2>2, <2>3, <2>4 DEF TypeOK
<1>11. CASE HandleCtrlModeReq
  <2>1. CtrlType'
    BY <1>t, <1>11, <1>h DEF HandleCtrlModeReq, CtrlType, ctrlVars, Received
  <2>2. HistType'
    BY <1>t, <1>11 DEF HandleCtrlModeReq, HistType, histVars
  <2>3. QueueType'
    BY <1>t, <1>11, <1>q, <1>h, <2>1, PutType, MessageTypes DEF HandleCtrlModeReq, QueueType, Received, CtrlType
  <2>4. MainType' /\ StickType' /\ EnvType'
    BY <1>t, <1>11 DEF HandleCtrlModeReq, MainType, mainVars, StickType, stickVars, EnvType, envVars
  <2> QED
    BY <2>1, <2>2, <2>3, <2>4 DEF TypeOK
<1>12. CASE HandleFlightMode
  <2>1. StickType'
    BY <1>t, <1>12, <1>h DEF HandleFlightMode, StickType, stickVars, Received
  <2>2. QueueType'
    BY <1>t, <1>12, <1>h DEF HandleFlightMode, QueueType, Received
  <2>3. MainType' /\ CtrlType' /\ EnvType' /\ HistType'
    BY <1>t, <1>12 DEF HandleFlightMode, MainType, mainVars, CtrlType, ctrlVars, EnvType, envVars, HistType, histVars
  <2> QED
    BY <2>1, <2>2, <2>3 DEF TypeOK
<1>13. CASE HandleCtrlMode
  <2>1. StickType'
    BY <1>t, <1>13, <1>h DEF HandleCtrlMode, StickType, stickVars, Received
  <2>2. QueueType'
    BY <1>t, <1>13, <1>h DEF HandleCtrlMode, QueueType, Received
  <2>3. MainType' /\ CtrlType' /\ EnvType' /\ HistType'
    BY <1>t, <1>13 DEF HandleCtrlMode, MainType, mainVars, CtrlType, ctrlVars, EnvType, envVars, HistType, histVars
  <2> QED
    BY <2>1, <2>2, <2>3 DEF TypeOK
<1>14. CASE HandleSpectrumData
  <2>1. StickType'
    BY <1>t, <1>14 DEF HandleSpectrumData, StickType, stickVars, WantedMode, WantedCtrlMode, FMode, CtrlMode
  <2>2. HistType'
    BY <1>t, <1>14 DEF HandleSpectrumData, HistType, histVars
  <2>3. QueueType'
    <3> DEFINE s  == Head(evq).stick
               q1 == Put(Tail(evq), NewSetpointMsg)
               Asked(q) == Put(q, FlightModeReqMsg(WantedMode(s), "FC_Ctrl"))
               Switched(q) == Put(q, CtrlModeReqMsg(WantedCtrlMode(s)))
               OK(q) == q \in Seq(Message) /\ Len(q) <= QueueLength
    <3>1. WantedMode(s) \in FMode /\ WantedCtrlMode(s) \in CtrlMode
      BY <1>t DEF StickType, WantedMode, WantedCtrlMode, FMode, CtrlMode
    <3>2. /\ FlightModeReqMsg(WantedMode(s), "FC_Ctrl") \in Message
          /\ CtrlModeReqMsg(WantedCtrlMode(s)) \in Message /\ NewSetpointMsg \in Message
      BY <3>1, MessageTypes
    <3>3. OK(Tail(evq)) /\ OK(q1) /\ OK(Asked(q1)) /\ OK(Switched(q1)) /\ OK(Switched(Asked(q1)))
      BY <1>14, <1>h, <3>2, PutType DEF HandleSpectrumData, Received
    <3>4. evq' \in {Tail(evq), q1, Asked(q1), Switched(q1), Switched(Asked(q1))}
      BY <1>14 DEF HandleSpectrumData, PutIf
    <3> QED
      BY <3>3, <3>4 DEF QueueType
  <2>4. MainType' /\ CtrlType' /\ EnvType'
    BY <1>t, <1>14 DEF HandleSpectrumData, MainType, mainVars, CtrlType, ctrlVars, EnvType, envVars
  <2> QED
    BY <2>1, <2>2, <2>3, <2>4 DEF TypeOK
<1>15. CASE HandleNewSetpoint
  <2>1. EnvType'
    BY <1>t, <1>15 DEF HandleNewSetpoint, EnvType, envVars
  <2>2. QueueType'
    BY <1>t, <1>15, <1>h DEF HandleNewSetpoint, QueueType, Received
  <2>3. MainType' /\ CtrlType' /\ StickType' /\ HistType'
    BY <1>t, <1>15 DEF HandleNewSetpoint, MainType, mainVars, CtrlType, ctrlVars, StickType, stickVars, HistType, histVars
  <2> QED
    BY <2>1, <2>2, <2>3 DEF TypeOK
<1>16. CASE EventsDone
  <2>1. MainType'
    BY <1>t, <1>16 DEF EventsDone, MainType, mainVars
  <2>2. CtrlType' /\ StickType' /\ EnvType' /\ HistType' /\ QueueType'
    BY <1>t, <1>16 DEF EventsDone, CtrlType, ctrlVars, StickType, stickVars, EnvType, envVars, HistType, histVars, QueueType
  <2> QED
    BY <2>1, <2>2 DEF TypeOK
<1>17. CASE Wake
  <2>1. MainType'
    BY <1>t, <1>17 DEF Wake, MainType, mainVars
  <2>2. CtrlType'
    BY <1>t, <1>17 DEF Wake, CtrlType, ctrlVars
  <2>3. StickType'
    BY <1>t, <1>17 DEF Wake, StickType, stickVars, Capped
  <2>4. EnvType'
    BY <1>t, <1>17 DEF Wake, EnvType, envVars
  <2>5. HistType'
    <3>1. dwell' \in 0 .. ArmCycles + 1 /\ bare' \in 0 .. SpTimeoutCycles
      BY <1>t, <1>17 DEF Wake, HistType, Capped
    <3>2. faulted' \in BOOLEAN /\ lost' \in BOOLEAN
      BY <1>t, <1>17 DEF Wake, HistType
    <3> QED
      BY <3>1, <3>2 DEF HistType
  <2>6. QueueType'
    BY <1>t, <1>17 DEF Wake, QueueType
  <2> QED
    BY <2>1, <2>2, <2>3, <2>4, <2>5, <2>6 DEF TypeOK
<1>18. CASE SatFrame \/ GsModeReq \/ ParamFault
  <2>1. EnvType'
    BY <1>t, <1>18 DEF SatFrame, GsModeReq, ParamFault, Arrive, EnvType, envVars
  <2>2. QueueType'
    BY <1>t, <1>18, <1>q, PutType, MessageTypes DEF SatFrame, GsModeReq, ParamFault, Arrive, QueueType
  <2>3. MainType' /\ CtrlType' /\ StickType' /\ HistType'
    BY ZenonT(40), <1>t, <1>18 DEF SatFrame, GsModeReq, ParamFault, Arrive, MainType, mainVars, CtrlType, ctrlVars, StickType, stickVars, HistType, histVars
  <2> QED
    BY <2>1, <2>2, <2>3 DEF TypeOK
<1>19. CASE SatReceive \/ SetpointExpires \/ MoveSticks
  <2>1. EnvType'
    BY <1>t, <1>19 DEF SatReceive, SetpointExpires, MoveSticks, EnvType, envVars
  <2>2. MainType' /\ CtrlType' /\ StickType' /\ HistType' /\ QueueType'
    BY ZenonT(40), <1>t, <1>19 DEF SatReceive, SetpointExpires, MoveSticks, MainType, mainVars, CtrlType, ctrlVars, StickType, stickVars, HistType, histVars, QueueType
  <2> QED
    BY <2>1, <2>2 DEF TypeOK
<1>20. CASE UNCHANGED vars
  BY <1>t, <1>20 DEF vars, mainVars, ctrlVars, stickVars, envVars, histVars, TypeOK,
                     MainType, CtrlType, StickType, QueueType, EnvType, HistType
<1> QED
  BY <1>1, <1>2, <1>3, <1>4, <1>5, <1>6, <1>7, <1>8, <1>9, <1>10, <1>11, <1>12, <1>13,
     <1>14, <1>15, <1>16, <1>17, <1>18, <1>19, <1>20
     DEF Next, MainTask, Environment, Cycle, Event

\* Every variable keeps its type: no counter passes its limit and the queue of
\* FC_Ctrl never holds more than EVENT_QUEUE_LENGTH messages.
THEOREM TypeCorrect == Spec => []TypeOK
  BY InitType, NextType, PTL DEF Spec

-----------------------------------------------------------------------------
(* The regulators and the motors.  GroundedIsSafe and ThrustIsRegulated     *)
(* hold because Ctrl_Off, which reaches one regulator only, never leaves    *)
(* another one on; because armed is always entered with the regulator on;   *)
(* and because no queued request asks for a mode that only the main task    *)
(* enters.                                                                  *)

OneRegulator == ctrl.on \subseteq {ctrl.mode}

Orderable == {"init", "config", "arming", "disarming", "exitFault"}
OrdersIn(q) == \A i \in 1 .. Len(q) :
                    q[i].type = "FlightModeReq" => q[i].mode \in Orderable

ArmedInv ==
    /\ pc = "imu" => mode = "armed" \/ (mode = "fault" /\ faulted)
    /\ mode = "armed" => ctrl.mode = "not_available" \/ ctrl.on = {ctrl.mode}

StartInv == /\ pc = "start" => mode = "not_available" /\ evq = <<>>
            /\ pc \in {"start", "calibrate"} => pulse = "none"

SafetyInv == /\ TypeOK /\ OneRegulator /\ OrdersIn(evq) /\ ArmedInv /\ StartInv
             /\ GroundedIsSafe /\ ThrustIsRegulated

\* A harmless message put in the queue keeps the queue free of orders.
LEMMA OrdersPut ==
    ASSUME NEW q \in Seq(Message), OrdersIn(q),
           NEW m \in Message, m.type = "FlightModeReq" => m.mode \in Orderable
    PROVE  OrdersIn(Put(q, m))
<1>1. CASE Len(q) < QueueLength
  <2> SUFFICES ASSUME NEW i \in 1 .. Len(Append(q, m))
               PROVE  LET x == Append(q, m)[i]
                      IN  x.type = "FlightModeReq" => x.mode \in Orderable
    BY <1>1 DEF Put, OrdersIn
  <2>1. CASE i <= Len(q)
    BY <2>1 DEF OrdersIn
  <2>2. CASE i = Len(q) + 1
    BY <2>2
  <2> QED
    BY <2>1, <2>2
<1>2. CASE ~(Len(q) < QueueLength)
  BY <1>2 DEF Put
<1> QED
  BY <1>1, <1>2

\* So does taking the head out.
LEMMA OrdersTail ==
    ASSUME NEW q \in Seq(Message), q # <<>>, OrdersIn(q)
    PROVE  /\ OrdersIn(Tail(q))
           /\ Head(q).type = "FlightModeReq" => Head(q).mode \in Orderable
  BY DEF OrdersIn

\* No message of this kind is an order that only the main task may give.
LEMMA Harmless ==
    /\ \A m \in FMode : /\ FlightModeMsg(m).type # "FlightModeReq"
                        /\ FlightModeReqMsg(m, "GS").mode = m
                        /\ FlightModeReqMsg(m, "FC_Ctrl").mode = m
    /\ \A m \in CtrlMode : /\ CtrlModeMsg(m).type # "FlightModeReq"
                           /\ CtrlModeReqMsg(m).type # "FlightModeReq"
    /\ \A s \in Stick : SpectrumDataMsg(s).type # "FlightModeReq"
    /\ NewSetpointMsg.type # "FlightModeReq"
    /\ FcFaultMsg.type # "FlightModeReq"
  BY DEF FlightModeMsg, FlightModeReqMsg, CtrlModeMsg, CtrlModeReqMsg,
         SpectrumDataMsg, NewSetpointMsg, FcFaultMsg

\* The strengthened invariant holds initially.
LEMMA InitSafety == Init => SafetyInv
  BY InitType DEF Init, SafetyInv, OneRegulator, OrdersIn, ArmedInv, StartInv,
                  GroundedIsSafe, ThrustIsRegulated

\* No step puts an order in the queue that only the main task may give.
LEMMA NextOrders == SafetyInv /\ [Next]_vars => OrdersIn(evq)'
<1> SUFFICES ASSUME SafetyInv, [Next]_vars PROVE OrdersIn(evq')
  BY DEF OrdersIn
<1>q. /\ evq \in Seq(Message) /\ Len(evq) <= QueueLength /\ OrdersIn(evq)
      /\ mode \in FMode /\ "fault" \in FMode /\ stick \in Stick /\ GsModes \subseteq FMode
      /\ GsModes \subseteq Orderable
  BY FlightControlAssumption
     DEF SafetyInv, TypeOK, MainType, QueueType, EnvType, FMode, Orderable
<1>h. evq # <<>> =>
        /\ Tail(evq) \in Seq(Message) /\ Len(Tail(evq)) <= QueueLength
        /\ OrdersIn(Tail(evq))
  BY <1>q, TailType, OrdersTail
<1>a. \A m \in FMode : OrdersIn(Put(evq, FlightModeMsg(m)))
  BY <1>q, OrdersPut, Harmless, MessageTypes
<1>b. evq # <<>> =>
        /\ \A m \in FMode : OrdersIn(Put(Tail(evq), FlightModeMsg(m)))
        /\ \A m \in CtrlMode : OrdersIn(Put(Tail(evq), CtrlModeMsg(m)))
  BY <1>h, OrdersPut, Harmless, MessageTypes
<1>m. mode' \in FMode /\ ctrlMode' \in CtrlMode
  BY NextType DEF SafetyInv, TypeOK, MainType, CtrlType
<1>1. CASE Startup
  <2>1. Put(evq, FlightModeMsg("init")) \in Seq(Message)
    BY <1>q, PutType, MessageTypes DEF FMode
  <2> QED
    BY <1>1, <1>a, <2>1, OrdersPut, Harmless, MessageTypes DEF Startup, FMode, CtrlMode
<1>2. CASE Calibrated
  <2>1. Put(evq, FlightModeMsg("fault")) \in Seq(Message)
    BY <1>q, PutType, MessageTypes
  <2> QED
    BY <1>2, <1>q, <1>a, <2>1, OrdersPut, Harmless, MessageTypes DEF Calibrated
<1>3. CASE LeaveCycle \/ ArmingCycle \/ ArmedSetpoint \/ DisarmingCycle
  BY <1>3, <1>q, <1>a, <1>m
     DEF LeaveCycle, ArmingCycle, ArmedSetpoint, DisarmingCycle, Announce
<1>4. CASE ArmedControl
  <2>1. Put(evq, FlightModeMsg("fault")) \in Seq(Message)
    BY <1>q, PutType, MessageTypes
  <2>2. OrdersIn(Put(Put(evq, FlightModeMsg("fault")), FlightModeMsg("fault")))
    BY <1>q, <1>a, <2>1, OrdersPut, Harmless, MessageTypes
  <2>3. evq' \in {evq, Put(evq, FlightModeMsg("fault")),
                  Put(Put(evq, FlightModeMsg("fault")), FlightModeMsg("fault"))}
    BY <1>4 DEF ArmedControl, PutIf
  <2> QED
    BY <1>q, <1>a, <2>2, <2>3
<1>5. CASE HandleFlightModeReq \/ HandleFcFault \/ HandleCtrlModeReq
  <2>1. evq # <<>> /\ evq' \in {Tail(evq)} \cup {Put(Tail(evq), FlightModeMsg(m)) : m \in FMode}
                                \cup {Put(Tail(evq), CtrlModeMsg(m)) : m \in CtrlMode}
    BY <1>5, <1>q, <1>m
       DEF HandleFlightModeReq, HandleFcFault, HandleCtrlModeReq, Received, PutIf
  <2> QED
    BY <2>1, <1>h, <1>b
<1>6. CASE HandleFlightMode \/ HandleCtrlMode \/ HandleNewSetpoint
  BY <1>6, <1>h DEF HandleFlightMode, HandleCtrlMode, HandleNewSetpoint, Received
<1>7. CASE HandleSpectrumData
  <2> DEFINE s  == Head(evq).stick
             q1 == Put(Tail(evq), NewSetpointMsg)
             Asked(q) == Put(q, FlightModeReqMsg(WantedMode(s), "FC_Ctrl"))
             Switched(q) == Put(q, CtrlModeReqMsg(WantedCtrlMode(s)))
  <2>h. evq # <<>>
    BY <1>7 DEF HandleSpectrumData, Received
  <2>1. q1 \in Seq(Message) /\ Len(q1) <= QueueLength /\ OrdersIn(q1)
    BY <1>h, <2>h, PutType, OrdersPut, Harmless, MessageTypes
  <2>2. latch \in FMode /\ ctrlLatch \in CtrlMode
    BY DEF SafetyInv, TypeOK, StickType
  <2>3. WantedMode(s) \in FMode /\ WantedCtrlMode(s) \in CtrlMode
    BY <2>2 DEF WantedMode, WantedCtrlMode, FMode, CtrlMode
  <2>4. WantedMode(s) # latch => WantedMode(s) \in Orderable
    BY DEF WantedMode, Orderable
  <2>5. WantedMode(s) # latch => OrdersIn(Asked(q1)) /\ Asked(q1) \in Seq(Message)
    BY <2>1, <2>3, <2>4, PutType, OrdersPut, Harmless, MessageTypes
  <2>6. OrdersIn(Switched(q1))
    BY <2>1, <2>3, OrdersPut, Harmless, MessageTypes
  <2>7. WantedMode(s) # latch => OrdersIn(Switched(Asked(q1)))
    BY <2>3, <2>5, OrdersPut, Harmless, MessageTypes
  <2>8. \/ evq' \in {Tail(evq), q1, Switched(q1)}
        \/ WantedMode(s) # latch /\ evq' \in {Asked(q1), Switched(Asked(q1))}
    BY <1>7 DEF HandleSpectrumData, PutIf
  <2> QED
    BY <1>h, <2>h, <2>1, <2>5, <2>6, <2>7, <2>8
<1>8. CASE SatFrame
  BY <1>8, <1>q, OrdersPut, Harmless, MessageTypes DEF SatFrame, Arrive
<1>9. CASE GsModeReq
  <2>1. \A m \in GsModes : OrdersIn(Put(evq, FlightModeReqMsg(m, "GS")))
    BY <1>q, OrdersPut, Harmless, MessageTypes
  <2> QED
    BY <1>9, <2>1 DEF GsModeReq, Arrive
<1>10. CASE ParamFault
  BY <1>10, <1>q, OrdersPut, Harmless, MessageTypes DEF ParamFault, Arrive
<1>11. CASE IdleCycle \/ EventsDone \/ Wake \/ SatReceive \/ SetpointExpires \/ MoveSticks
            \/ UNCHANGED vars
  BY <1>11, <1>q DEF IdleCycle, EventsDone, Wake, SatReceive, SetpointExpires, MoveSticks, vars
<1> QED
  BY <1>1, <1>2, <1>3, <1>4, <1>5, <1>6, <1>7, <1>8, <1>9, <1>10, <1>11
     DEF Next, MainTask, Environment, Cycle, Event

\* The regulator operators never leave a second regulator on.
LEMMA OneOnOff ==
    ASSUME NEW c \in Regulator, c.on \subseteq {c.mode}
    PROVE  /\ CtrlOff(c).on = {} /\ CtrlOff(c).mode = c.mode
           /\ CtrlOn(c).mode = c.mode
           /\ CtrlOn(c).on = IF c.mode = "not_available" THEN {} ELSE {c.mode}
  BY DEF Regulator, CtrlMode, CtrlOn, CtrlOff

\* Nor does the switch: it leaves the new regulator on, alone, or nothing changed.
LEMMA OneSwitch ==
    ASSUME NEW c \in Regulator, c.on \subseteq {c.mode},
           NEW new \in CtrlMode, NEW v \in SUBSET {"rate", "attitude"}
    PROVE  /\ CtrlSwitch(c, new, v).on \subseteq {CtrlSwitch(c, new, v).mode}
           /\ new \in v => CtrlSwitch(c, new, v) = [mode |-> new, on |-> {new}]
           /\ new \notin v => CtrlSwitch(c, new, v) = c
  BY DEF Regulator, CtrlSwitch

\* Every action keeps the regulators and the motor outputs as the invariant says.
LEMMA NextRegulators ==
    SafetyInv /\ [Next]_vars
        => (OneRegulator /\ ArmedInv /\ StartInv /\ GroundedIsSafe /\ ThrustIsRegulated)'
<1> SUFFICES ASSUME SafetyInv, [Next]_vars
             PROVE  (OneRegulator /\ ArmedInv /\ StartInv /\ GroundedIsSafe
                        /\ ThrustIsRegulated)'
  OBVIOUS
<1> USE DEF OneRegulator, ArmedInv, StartInv, GroundedIsSafe, ThrustIsRegulated
<1>i. /\ OneRegulator /\ ArmedInv /\ StartInv /\ GroundedIsSafe /\ ThrustIsRegulated
      /\ OrdersIn(evq) /\ mode \in FMode /\ ctrl \in Regulator /\ evq \in Seq(Message)
      /\ ctrlMode \in CtrlMode /\ valid \in SUBSET {"rate", "attitude"}
  BY DEF SafetyInv, TypeOK, MainType, CtrlType, QueueType
<1>c. /\ CtrlOff(ctrl).on = {} /\ CtrlOff(ctrl).mode = ctrl.mode
      /\ CtrlOn(ctrl).mode = ctrl.mode
      /\ CtrlOn(ctrl).on = IF ctrl.mode = "not_available" THEN {} ELSE {ctrl.mode}
  BY <1>i, OneOnOff
<1>1. CASE Startup
  BY <1>i, <1>1 DEF Startup, histVars
<1>2. CASE Calibrated
  BY <1>i, <1>c, <1>2 DEF Calibrated
<1>3. CASE LeaveCycle
  BY <1>i, <1>c, <1>3 DEF LeaveCycle, ModeOrFault, ChangeAllowed, NextModes
<1>4. CASE IdleCycle
  BY <1>i, <1>4 DEF IdleCycle, ctrlVars, histVars
<1>5. CASE ArmingCycle
  BY <1>i, <1>c, <1>5 DEF ArmingCycle, ModeOrFault, ChangeAllowed, NextModes
<1>6. CASE ArmedSetpoint
  BY <1>i, <1>c, <1>6 DEF ArmedSetpoint
<1>7. CASE ArmedControl
  <2> PICK read \in BOOLEAN :
        LET got   == read /\ imuOk
            v     == IF got THEN ValidIn(ctrlMode) ELSE valid
            noEst == ~(got /\ ctrlMode # "not_available")
            c1    == IF noEst THEN CtrlOff(ctrl) ELSE ctrl
            c2    == IF c1.mode # ctrlMode THEN CtrlSwitch(c1, ctrlMode, v) ELSE c1
            noCtl == c2.mode = "not_available"
            c3    == IF noCtl THEN CtrlOff(c2) ELSE c2
        IN  /\ valid' = v
            /\ ctrl' = c3
            /\ mode' = IF noEst \/ noCtl THEN "fault" ELSE mode
            /\ faulted' = (faulted \/ noEst \/ noCtl)
    BY <1>7 DEF ArmedControl
  <2> DEFINE got   == read /\ imuOk
             v     == IF got THEN ValidIn(ctrlMode) ELSE valid
             noEst == ~(got /\ ctrlMode # "not_available")
             c1    == IF noEst THEN CtrlOff(ctrl) ELSE ctrl
             c2    == IF c1.mode # ctrlMode THEN CtrlSwitch(c1, ctrlMode, v) ELSE c1
             noCtl == c2.mode = "not_available"
             c3    == IF noCtl THEN CtrlOff(c2) ELSE c2
  <2>0. pc = "imu" /\ pc' = "events" /\ pulse' = "thrust"
    BY <1>7 DEF ArmedControl
  <2>1. /\ c1 \in Regulator /\ c1.on \subseteq {c1.mode}
        /\ v \in SUBSET {"rate", "attitude"}
    BY <1>i, <1>c, OnOffType, ValidType
  <2>2. c2 \in Regulator /\ c2.on \subseteq {c2.mode}
    BY <1>i, <2>1, OneSwitch, SwitchType
  <2>3. OneRegulator'
    BY <2>2, OneOnOff
  <2>4. ASSUME ~noEst, mode = "armed"
        PROVE  ctrlMode \in v /\ c2.mode = ctrlMode /\ c2.on = {ctrlMode} /\ ~noCtl /\ c3 = c2
    <3>1. ctrlMode \in v /\ ctrlMode # "not_available"
      BY <1>i, <2>4 DEF ValidIn, CtrlMode
    <3>2. CASE ctrl.mode # ctrlMode
      BY <1>i, <2>1, <2>4, <3>1, <3>2, OneSwitch
    <3>3. CASE ctrl.mode = ctrlMode
      BY <1>i, <2>4, <3>1, <3>3
    <3> QED
      BY <3>1, <3>2, <3>3
  <2>5. CASE noEst \/ mode # "armed"
    BY <1>i, <2>0, <2>3, <2>5
  <2>6. CASE ~noEst /\ mode = "armed"
    BY <1>i, <2>0, <2>3, <2>4, <2>6
  <2> QED
    BY <2>5, <2>6
<1>8. CASE DisarmingCycle
  BY <1>i, <1>c, <1>8 DEF DisarmingCycle, ModeOrFault, ChangeAllowed, NextModes
<1>9. CASE HandleFlightModeReq
  <2>1. Head(evq).mode \in Orderable
    BY <1>i, <1>9, OrdersTail DEF HandleFlightModeReq, Received
  <2>2. mode' # mode => mode' \in Orderable /\ mode' \in NextModes(mode)
    BY <1>9, <2>1 DEF HandleFlightModeReq, ChangeAllowed
  <2>3. /\ mode' # "armed" \/ mode' = mode
        /\ mode' \in {"disarmed", "config"} => mode \in {"disarmed", "config"}
        /\ pc = "events" /\ pc' = "events"
    BY <1>9, <2>2 DEF HandleFlightModeReq, Received, NextModes, Orderable
  <2> QED
    BY <1>i, <1>9, <2>3 DEF HandleFlightModeReq, ctrlVars
<1>10. CASE HandleFcFault
  BY <1>i, <1>10 DEF HandleFcFault, Received, ctrlVars
<1>11. CASE HandleCtrlModeReq \/ HandleFlightMode \/ HandleCtrlMode \/ HandleSpectrumData
            \/ HandleNewSetpoint \/ EventsDone
  <2>1. pc = "events" /\ pc' \in {"events", "wait"}
    BY <1>11 DEF HandleCtrlModeReq, HandleFlightMode, HandleCtrlMode, HandleSpectrumData,
                 HandleNewSetpoint, EventsDone, Received, mainVars
  <2>2. UNCHANGED <<mode, ctrl, valid, pulse, faulted>>
    BY <1>11 DEF HandleCtrlModeReq, HandleFlightMode, HandleCtrlMode, HandleSpectrumData,
                 HandleNewSetpoint, EventsDone, mainVars, ctrlVars, histVars
  <2> QED
    BY <1>i, <2>1, <2>2
<1>12. CASE Wake
  BY <1>i, <1>12 DEF Wake
<1>13. CASE SatFrame \/ GsModeReq \/ ParamFault
  BY <1>i, <1>13 DEF SatFrame, GsModeReq, ParamFault, Arrive, Blocked, mainVars, ctrlVars, histVars
<1>14. CASE SatReceive \/ SetpointExpires \/ MoveSticks \/ UNCHANGED vars
  BY <1>i, <1>14 DEF SatReceive, SetpointExpires, MoveSticks, vars, mainVars, ctrlVars, histVars
<1> QED
  BY <1>1, <1>2, <1>3, <1>4, <1>5, <1>6, <1>7, <1>8, <1>9, <1>10, <1>11, <1>12, <1>13, <1>14
     DEF Next, MainTask, Environment, Cycle, Event

\* The strengthened invariant holds in every reachable state.
LEMMA SafetyInvariant == Spec => []SafetyInv
<1>1. Init => SafetyInv
  BY InitSafety
<1>2. SafetyInv /\ [Next]_vars => SafetyInv'
  BY NextType, NextOrders, NextRegulators DEF SafetyInv
<1> QED
  BY <1>1, <1>2, PTL DEF Spec

\* On the ground no motor turns and no regulator is on.
THEOREM GroundedAlwaysSafe == Spec => []GroundedIsSafe
  BY SafetyInvariant, PTL DEF SafetyInv

\* The motors are only driven by a regulator that is on, alone, and regulates an
\* estimate that was computed.
THEOREM ThrustAlwaysRegulated == Spec => []ThrustIsRegulated
  BY SafetyInvariant, PTL DEF SafetyInv

-----------------------------------------------------------------------------
(* FlightControl implements FlightLifecycle: each step of the controller is *)
(* one of its steps or leaves mode, motors and due alone.  That nothing is  *)
(* chosen on the ground with turning motors is GroundedIsSafe.              *)

\* Every step of the controller is a step of the lifecycle, or a stutter.
LEMMA NextLifecycle == SafetyInv /\ [Next]_vars => [Lifecycle!Next]_(Lifecycle!vars)
<1> SUFFICES ASSUME SafetyInv, [Next]_vars PROVE [Lifecycle!Next]_(Lifecycle!vars)
  OBVIOUS
<1> USE DEF Lifecycle!vars, Lifecycle!Next
<1>i. /\ ArmedInv /\ StartInv /\ GroundedIsSafe /\ OrdersIn(evq)
      /\ mode \in FMode /\ evq \in Seq(Message)
  BY DEF SafetyInv, TypeOK, MainType, QueueType
<1>1. CASE Startup
  BY <1>i, <1>1 DEF Startup, StartInv, Lifecycle!Boot
<1>2. CASE Calibrated
  BY <1>i, <1>2 DEF Calibrated, Lifecycle!Fail
<1>3. CASE LeaveCycle
  BY <1>i, <1>3 DEF LeaveCycle, ModeOrFault, ChangeAllowed, NextModes, Lifecycle!Disarm
<1>4. CASE IdleCycle
  BY <1>4 DEF IdleCycle, ctrlVars
<1>5. CASE ArmingCycle
  BY <1>i, <1>5
     DEF ArmingCycle, ModeOrFault, ChangeAllowed, NextModes, Lifecycle!Arm, Lifecycle!Idle
<1>6. CASE ArmedSetpoint
  BY <1>i, <1>6 DEF ArmedSetpoint, Lifecycle!Begin
<1>7. CASE ArmedControl
  BY <1>i, <1>7 DEF ArmedControl, Lifecycle!Drive
<1>8. CASE DisarmingCycle
  BY <1>i, <1>8
     DEF DisarmingCycle, ModeOrFault, ChangeAllowed, NextModes, Lifecycle!Settle, Lifecycle!Idle
<1>9. CASE HandleFlightModeReq
  <2>1. Head(evq).mode \in Orderable
    BY <1>i, <1>9, OrdersTail DEF HandleFlightModeReq, Received
  <2>2. pc = "events" /\ pc' = "events" /\ pulse' = pulse
    BY <1>9 DEF HandleFlightModeReq, Received, ctrlVars
  <2>3. CASE mode' = mode
    BY <2>2, <2>3
  <2>4. CASE mode' # mode
    <3>1. mode' \in Orderable /\ mode' \in NextModes(mode)
      BY <1>9, <2>1, <2>4 DEF HandleFlightModeReq, ChangeAllowed
    <3>2. \/ mode \in {"init", "config", "arming", "armed", "exitFault"} /\ mode' = "disarming"
          \/ mode = "disarmed" /\ mode' \in {"config", "init", "arming"}
          \/ mode = "fault" /\ mode' = "exitFault"
      BY <1>i, <3>1 DEF FMode, NextModes, Orderable
    <3> QED
      BY <1>i, <2>2, <3>2
         DEF GroundedIsSafe, Lifecycle!Disarm, Lifecycle!Choose, Lifecycle!Clear
  <2> QED
    BY <2>3, <2>4
<1>10. CASE HandleFcFault
  BY <1>10 DEF HandleFcFault, Received, ctrlVars, Lifecycle!Fail
<1>11. CASE HandleCtrlModeReq \/ HandleFlightMode \/ HandleCtrlMode \/ HandleSpectrumData
            \/ HandleNewSetpoint \/ EventsDone
  <2>1. pc = "events" /\ pc' \in {"events", "wait"}
    BY <1>11 DEF HandleCtrlModeReq, HandleFlightMode, HandleCtrlMode, HandleSpectrumData,
                 HandleNewSetpoint, EventsDone, Received, mainVars
  <2>2. UNCHANGED <<mode, pulse>>
    BY <1>11 DEF HandleCtrlModeReq, HandleFlightMode, HandleCtrlMode, HandleSpectrumData,
                 HandleNewSetpoint, EventsDone, mainVars, ctrlVars
  <2> QED
    BY <2>1, <2>2
<1>12. CASE Wake
  BY <1>12 DEF Wake, Lifecycle!Rest
<1>13. CASE SatFrame \/ GsModeReq \/ ParamFault
  BY <1>13 DEF SatFrame, GsModeReq, ParamFault, Arrive, mainVars, ctrlVars
<1>14. CASE SatReceive \/ SetpointExpires \/ MoveSticks \/ UNCHANGED vars
  BY <1>14 DEF SatReceive, SetpointExpires, MoveSticks, vars, mainVars, ctrlVars
<1> QED
  BY <1>1, <1>2, <1>3, <1>4, <1>5, <1>6, <1>7, <1>8, <1>9, <1>10, <1>11, <1>12, <1>13, <1>14
     DEF Next, MainTask, Environment, Cycle, Event

\* The controller behaves as FlightLifecycle promises (its safety part; that
\* transitional modes are left is a liveness property and stays with TLC).
THEOREM ImplementsLifecycle == Spec => LifecycleSafety
<1>1. Init => Lifecycle!Init
  BY DEF Init, Lifecycle!Init
<1> QED
  BY <1>1, SafetyInvariant, NextLifecycle, PTL DEF Spec, LifecycleSafety, Lifecycle!Safety

-----------------------------------------------------------------------------
(* The latches.  News(q, N) are the positions of the messages of N in q;    *)
(* when the last of them announces a mode, it is the real one, and when     *)
(* there is none the latch is right.                                        *)

News(q, N) == {i \in 1 .. Len(q) : q[i] \in N}
Agrees(q, N, type, l, m) ==
    /\ News(q, N) = {} => l = m
    /\ \A i \in News(q, N) :
            (\A j \in News(q, N) : j <= i) /\ q[i].type = type => q[i].mode = m

FlightNews == {m \in Message : InformsLatch(m)}
CtrlNews == {m \in Message : InformsCtrlLatch(m)}

FlightAgrees(q, l, m) == Agrees(q, FlightNews, "FlightMode", l, m)
CtrlAgrees(q, l, m) == Agrees(q, CtrlNews, "CtrlMode", l, m)

LatchInv == ~lost => FlightAgrees(evq, latch, mode) /\ CtrlAgrees(evq, ctrlLatch, ctrlMode)

\* A message that is no news changes nothing.
LEMMA AgreesPutOther ==
    ASSUME NEW q \in Seq(Message), NEW N, NEW type, NEW l, NEW m,
           Agrees(q, N, type, l, m), NEW x \in Message, x \notin N
    PROVE  Agrees(Put(q, x), N, type, l, m)
<1>1. CASE Len(q) < QueueLength
  <2>1. Put(q, x) = Append(q, x)
    BY <1>1 DEF Put
  <2>2. News(Append(q, x), N) = News(q, N)
    BY DEF News
  <2>3. \A i \in News(q, N) : Append(q, x)[i] = q[i]
    BY DEF News
  <2> QED
    BY <2>1, <2>2, <2>3 DEF Agrees
<1>2. CASE ~(Len(q) < QueueLength)
  BY <1>2 DEF Put
<1> QED
  BY <1>1, <1>2

\* The last news is the true mode, or a request still to be answered.
LEMMA AgreesPutNews ==
    ASSUME NEW q \in Seq(Message), ~Full(q), NEW N, NEW type, NEW l, NEW m,
           NEW x \in Message, x \in N, x.type = type => x.mode = m
    PROVE  Agrees(Put(q, x), N, type, l, m)
<1>1. Put(q, x) = Append(q, x)
  BY FlightControlAssumption DEF Put, Full
<1>2. Len(q) + 1 \in News(Append(q, x), N)
  BY DEF News
<1>3. ASSUME NEW i \in News(Append(q, x), N),
             \A j \in News(Append(q, x), N) : j <= i
      PROVE  Append(q, x)[i] = x
  <2>1. i \in 1 .. Len(q) + 1 /\ Len(q) + 1 <= i
    BY <1>2, <1>3 DEF News
  <2> QED
    BY <2>1
<1> QED
  BY <1>1, <1>2, <1>3 DEF Agrees

\* Positions of a tail.
LEMMA NewsTail ==
    ASSUME NEW q \in Seq(Message), q # <<>>, NEW N
    PROVE  /\ \A i \in News(Tail(q), N) : i + 1 \in News(q, N) /\ Tail(q)[i] = q[i + 1]
           /\ \A i \in News(q, N) : i = 1 \/ i - 1 \in News(Tail(q), N)
           /\ 1 \in News(q, N) <=> Head(q) \in N
           /\ \A i \in News(q, N) : i \in Nat
           /\ \A i \in News(Tail(q), N) : i \in Nat
  BY DEF News

\* Taking out a message that is no news changes nothing either.
LEMMA AgreesTailOther ==
    ASSUME NEW q \in Seq(Message), q # <<>>, NEW N, NEW type, NEW l, NEW m,
           Agrees(q, N, type, l, m), Head(q) \notin N
    PROVE  Agrees(Tail(q), N, type, l, m)
<1>1. News(Tail(q), N) = {} => News(q, N) = {}
  BY NewsTail
<1>2. ASSUME NEW i \in News(Tail(q), N), \A j \in News(Tail(q), N) : j <= i
      PROVE  i + 1 \in News(q, N) /\ \A j \in News(q, N) : j <= i + 1
  <2>1. ASSUME NEW j \in News(q, N) PROVE j <= i + 1
    <3>1. j # 1 /\ j - 1 \in News(Tail(q), N) /\ j \in Nat /\ i \in Nat
      BY NewsTail
    <3> QED
      BY <1>2, <3>1
  <2> QED
    BY <2>1, NewsTail
<1>3. News(Tail(q), N) = {} => l = m
  BY <1>1 DEF Agrees
<1>4. ASSUME NEW i \in News(Tail(q), N), \A j \in News(Tail(q), N) : j <= i,
             Tail(q)[i].type = type
      PROVE  Tail(q)[i].mode = m
  <2>1. i + 1 \in News(q, N) /\ \A j \in News(q, N) : j <= i + 1
    BY <1>2, <1>4
  <2>2. Tail(q)[i] = q[i + 1]
    BY NewsTail
  <2> QED
    BY <1>4, <2>1, <2>2 DEF Agrees
<1> QED
  BY <1>3, <1>4 DEF Agrees

\* Taking an announcement out makes its mode the latched one.
LEMMA AgreesTailNews ==
    ASSUME NEW q \in Seq(Message), q # <<>>, NEW N, NEW type, NEW l, NEW m,
           Agrees(q, N, type, l, m), Head(q) \in N, Head(q).type = type
    PROVE  Agrees(Tail(q), N, type, Head(q).mode, m)
<1>1. CASE News(Tail(q), N) = {}
  <2>1. 1 \in News(q, N) /\ \A j \in News(q, N) : j <= 1
    BY <1>1, NewsTail
  <2>2. q[1] = Head(q)
    OBVIOUS
  <2> QED
    BY <1>1, <2>1, <2>2 DEF Agrees
<1>2. ASSUME NEW i \in News(Tail(q), N), \A j \in News(Tail(q), N) : j <= i
      PROVE  i + 1 \in News(q, N) /\ \A j \in News(q, N) : j <= i + 1
  <2>1. i \in 1 .. Len(Tail(q))
    BY DEF News
  <2>2. ASSUME NEW j \in News(q, N) PROVE j <= i + 1
    <3>1. j = 1 \/ j - 1 \in News(Tail(q), N)
      BY NewsTail
    <3>2. j \in Nat /\ i \in Nat
      BY NewsTail
    <3> QED
      BY <1>2, <2>1, <3>1, <3>2
  <2> QED
    BY <2>2, NewsTail
<1> QED
  BY ZenonT(40), <1>1, <1>2, NewsTail DEF Agrees

\* Which messages are news.
LEMMA Kinds ==
    /\ \A m \in FMode :
        /\ FlightModeMsg(m) \in FlightNews \ CtrlNews /\ FlightModeMsg(m).mode = m
        /\ FlightModeReqMsg(m, "FC_Ctrl") \in FlightNews \ CtrlNews
        /\ FlightModeReqMsg(m, "FC_Ctrl").type # "FlightMode"
        /\ FlightModeReqMsg(m, "GS") \in Message \ (FlightNews \cup CtrlNews)
    /\ \A m \in CtrlMode :
        /\ CtrlModeMsg(m) \in CtrlNews \ FlightNews /\ CtrlModeMsg(m).mode = m
        /\ CtrlModeReqMsg(m) \in CtrlNews \ FlightNews
        /\ CtrlModeReqMsg(m).type # "CtrlMode"
    /\ \A s \in Stick : SpectrumDataMsg(s) \in Message \ (FlightNews \cup CtrlNews)
    /\ NewSetpointMsg \in Message \ (FlightNews \cup CtrlNews)
    /\ FcFaultMsg \in Message \ (FlightNews \cup CtrlNews)
  BY MessageTypes
     DEF FlightNews, CtrlNews, InformsLatch, InformsCtrlLatch, FlightModeMsg, FlightModeReqMsg,
         CtrlModeMsg, CtrlModeReqMsg, SpectrumDataMsg, NewSetpointMsg, FcFaultMsg

\* Announcing a flight mode: the latch will agree with it.
LEMMA PutFlight ==
    ASSUME NEW q \in Seq(Message), ~Full(q), NEW m \in FMode, NEW l, NEW cl, NEW c,
           CtrlAgrees(q, cl, c)
    PROVE  /\ FlightAgrees(Put(q, FlightModeMsg(m)), l, m)
           /\ CtrlAgrees(Put(q, FlightModeMsg(m)), cl, c)
  BY Kinds, MessageTypes, AgreesPutNews, AgreesPutOther DEF FlightAgrees, CtrlAgrees

\* The stick handler's own request and the latch it sets at once agree.
LEMMA PutFlightReq ==
    ASSUME NEW q \in Seq(Message), ~Full(q), NEW r \in FMode, NEW l, NEW m, NEW cl, NEW c,
           CtrlAgrees(q, cl, c)
    PROVE  /\ FlightAgrees(Put(q, FlightModeReqMsg(r, "FC_Ctrl")), l, m)
           /\ CtrlAgrees(Put(q, FlightModeReqMsg(r, "FC_Ctrl")), cl, c)
<1>1. /\ FlightModeReqMsg(r, "FC_Ctrl") \in FlightNews \ CtrlNews
      /\ FlightModeReqMsg(r, "FC_Ctrl").type # "FlightMode"
      /\ FlightModeReqMsg(r, "FC_Ctrl") \in Message
  BY Kinds, MessageTypes
<1> QED
  BY <1>1, AgreesPutNews, AgreesPutOther DEF FlightAgrees, CtrlAgrees

\* Announcing a control mode.
LEMMA PutCtrl ==
    ASSUME NEW q \in Seq(Message), ~Full(q), NEW c \in CtrlMode, NEW cl, NEW l, NEW m,
           FlightAgrees(q, l, m)
    PROVE  /\ FlightAgrees(Put(q, CtrlModeMsg(c)), l, m)
           /\ CtrlAgrees(Put(q, CtrlModeMsg(c)), cl, c)
  BY Kinds, MessageTypes, AgreesPutNews, AgreesPutOther DEF FlightAgrees, CtrlAgrees

\* The stick handler's own control mode request.
LEMMA PutCtrlReq ==
    ASSUME NEW q \in Seq(Message), ~Full(q), NEW r \in CtrlMode, NEW cl, NEW c, NEW l, NEW m,
           FlightAgrees(q, l, m)
    PROVE  /\ FlightAgrees(Put(q, CtrlModeReqMsg(r)), l, m)
           /\ CtrlAgrees(Put(q, CtrlModeReqMsg(r)), cl, c)
<1>1. /\ CtrlModeReqMsg(r) \in CtrlNews \ FlightNews
      /\ CtrlModeReqMsg(r).type # "CtrlMode"
      /\ CtrlModeReqMsg(r) \in Message
  BY Kinds, MessageTypes
<1> QED
  BY <1>1, AgreesPutNews, AgreesPutOther DEF FlightAgrees, CtrlAgrees

\* Any other message leaves both latches as right as they were.
LEMMA PutOther ==
    ASSUME NEW q \in Seq(Message), NEW l, NEW m, NEW cl, NEW c,
           FlightAgrees(q, l, m), CtrlAgrees(q, cl, c),
           NEW x \in Message \ (FlightNews \cup CtrlNews)
    PROVE  FlightAgrees(Put(q, x), l, m) /\ CtrlAgrees(Put(q, x), cl, c)
  BY AgreesPutOther DEF FlightAgrees, CtrlAgrees

\* So does receiving it.
LEMMA TakeOther ==
    ASSUME NEW q \in Seq(Message), q # <<>>, NEW l, NEW m, NEW cl, NEW c,
           FlightAgrees(q, l, m), CtrlAgrees(q, cl, c)
    PROVE  /\ ~InformsLatch(Head(q)) => FlightAgrees(Tail(q), l, m)
           /\ ~InformsCtrlLatch(Head(q)) => CtrlAgrees(Tail(q), cl, c)
  BY AgreesTailOther DEF FlightAgrees, CtrlAgrees, FlightNews, CtrlNews

\* Receiving an announcement sets its latch.
LEMMA TakeNews ==
    ASSUME NEW q \in Seq(Message), q # <<>>, NEW l, NEW m, NEW cl, NEW c,
           FlightAgrees(q, l, m), CtrlAgrees(q, cl, c)
    PROVE  /\ Head(q).type = "FlightMode" => FlightAgrees(Tail(q), Head(q).mode, m)
           /\ Head(q).type = "CtrlMode" => CtrlAgrees(Tail(q), Head(q).mode, c)
<1>1. Head(q) \in Message
  OBVIOUS
<1> QED
  BY <1>1, AgreesTailNews
     DEF FlightAgrees, CtrlAgrees, FlightNews, CtrlNews, InformsLatch, InformsCtrlLatch

\* Before the first announcement latches and modes are the same.
LEMMA InitLatch == Init => LatchInv
  BY DEF Init, LatchInv, FlightAgrees, CtrlAgrees, Agrees, News

\* Every action keeps the last news of the queue the truth, unless one was lost.
LEMMA NextLatch == SafetyInv /\ LatchInv /\ [Next]_vars => LatchInv'
<1> SUFFICES ASSUME SafetyInv, LatchInv, [Next]_vars, ~lost'
             PROVE  FlightAgrees(evq', latch', mode') /\ CtrlAgrees(evq', ctrlLatch', ctrlMode')
  BY DEF LatchInv, FlightAgrees, CtrlAgrees, Agrees, News
<1>q. /\ evq \in Seq(Message) /\ mode \in FMode /\ mode' \in FMode /\ "fault" \in FMode
      /\ ctrlMode \in CtrlMode /\ ctrlMode' \in CtrlMode
      /\ latch \in FMode /\ ctrlLatch \in CtrlMode
      /\ stick \in Stick /\ GsModes \subseteq FMode
      /\ QueueLength \in Nat /\ QueueLength >= 2
  BY NextType, FlightControlAssumption
     DEF SafetyInv, TypeOK, MainType, CtrlType, StickType, QueueType, EnvType, FMode
<1>l. ~lost /\ FlightAgrees(evq, latch, mode) /\ CtrlAgrees(evq, ctrlLatch, ctrlMode)
  <2>1. lost => lost'
    BY DEF Next, MainTask, Environment, Cycle, Event, Startup, Calibrated, LeaveCycle,
           IdleCycle, ArmingCycle, ArmedSetpoint, ArmedControl, DisarmingCycle, Announce,
           HandleFlightModeReq, HandleFcFault, HandleCtrlModeReq, HandleFlightMode,
           HandleCtrlMode, HandleSpectrumData, HandleNewSetpoint, EventsDone, Wake, SatFrame,
           GsModeReq, ParamFault, Arrive, SatReceive, SetpointExpires, MoveSticks, histVars, vars
  <2> QED
    BY <2>1 DEF LatchInv
\* What taking the head out of the queue does.
<1>h. evq # <<>> =>
        /\ Head(evq) \in Message /\ Tail(evq) \in Seq(Message)
        /\ ~InformsLatch(Head(evq)) => FlightAgrees(Tail(evq), latch, mode)
        /\ ~InformsCtrlLatch(Head(evq)) => CtrlAgrees(Tail(evq), ctrlLatch, ctrlMode)
        /\ Head(evq).type = "FlightMode" => FlightAgrees(Tail(evq), Head(evq).mode, mode)
        /\ Head(evq).type = "CtrlMode" => CtrlAgrees(Tail(evq), Head(evq).mode, ctrlMode)
  BY <1>q, <1>l, TakeOther, TakeNews
<1>1. CASE Startup
  <2> DEFINE q == Put(evq, FlightModeMsg("init"))
  <2>1. /\ evq = <<>> /\ mode' = "init" /\ ctrlMode' = "rate" /\ evq' = Put(q, CtrlModeMsg("rate"))
        /\ latch' = latch /\ ctrlLatch' = ctrlLatch
    BY <1>1 DEF SafetyInv, StartInv, Startup, stickVars
  <2>2. ~Full(evq) /\ q \in Seq(Message) /\ ~Full(q)
    BY <1>q, <2>1, MessageTypes DEF Full, Put, FMode
  <2>3. FlightAgrees(q, latch, "init")
    BY <1>q, <1>l, <2>2, PutFlight DEF FMode
  <2> QED
    BY <2>1, <2>2, <2>3, PutCtrl DEF CtrlMode
<1>f. ASSUME ~(Len(evq) + 2 > QueueLength)
      PROVE  LET q == Put(evq, FlightModeMsg("fault"))
             IN  /\ FlightAgrees(Put(q, FlightModeMsg("fault")), latch, "fault")
                 /\ CtrlAgrees(Put(q, FlightModeMsg("fault")), ctrlLatch, ctrlMode)
  <2> DEFINE q == Put(evq, FlightModeMsg("fault"))
  <2>1. ~Full(evq) /\ q \in Seq(Message) /\ ~Full(q)
    BY <1>q, <1>f, MessageTypes DEF Full, Put
  <2>2. CtrlAgrees(q, ctrlLatch, ctrlMode)
    BY <1>q, <1>l, <2>1, PutFlight
  <2> QED
    BY <1>q, <2>1, <2>2, PutFlight
<1>2. CASE Calibrated
  <2>1. latch' = latch /\ ctrlLatch' = ctrlLatch /\ ctrlMode' = ctrlMode
    BY <1>2 DEF Calibrated, stickVars
  <2>2. CASE imuOk'
    BY <1>2, <1>l, <2>1, <2>2 DEF Calibrated
  <2>3. CASE ~imuOk'
    <3>1. ~(Len(evq) + 2 > QueueLength)
      BY <1>2, <2>3, Zenon DEF Calibrated
    <3> QED
      BY <1>2, <1>f, <2>1, <2>3, <3>1 DEF Calibrated
  <2> QED
    BY <2>2, <2>3
<1>3. CASE LeaveCycle \/ ArmingCycle \/ ArmedSetpoint \/ DisarmingCycle
  <2>1. latch' = latch /\ ctrlLatch' = ctrlLatch /\ ctrlMode' = ctrlMode
    BY <1>3 DEF LeaveCycle, ArmingCycle, ArmedSetpoint, DisarmingCycle, stickVars
  <2>2. \/ ~Full(evq) /\ evq' = Put(evq, FlightModeMsg(mode'))
        \/ evq' = evq /\ mode' = mode
    BY <1>3 DEF LeaveCycle, ArmingCycle, ArmedSetpoint, DisarmingCycle, Announce
  <2> QED
    BY <1>q, <1>l, <2>1, <2>2, PutFlight
<1>4. CASE ArmedControl
  <2> DEFINE q == Put(evq, FlightModeMsg("fault"))
  <2>1. latch' = latch /\ ctrlLatch' = ctrlLatch /\ ctrlMode' = ctrlMode
    BY <1>4 DEF ArmedControl, stickVars
  <2>2. \/ evq' = evq /\ mode' = mode
        \/ ~Full(evq) /\ evq' = q /\ mode' = "fault"
        \/ ~(Len(evq) + 2 > QueueLength) /\ evq' = Put(q, FlightModeMsg("fault")) /\ mode' = "fault"
    BY <1>4 DEF ArmedControl, PutIf
  <2> QED
    BY <1>q, <1>l, <1>f, <2>1, <2>2, PutFlight
<1>5. CASE HandleFlightModeReq
  <2>1. /\ evq # <<>> /\ Head(evq).type = "FlightModeReq"
        /\ latch' = latch /\ ctrlLatch' = ctrlLatch /\ ctrlMode' = ctrlMode
    BY <1>5 DEF HandleFlightModeReq, Received, ctrlVars, stickVars
  <2>2. CtrlAgrees(Tail(evq), ctrlLatch, ctrlMode)
    BY <1>h, <2>1 DEF InformsCtrlLatch
  <2>3. \/ ~Full(Tail(evq)) /\ evq' = Put(Tail(evq), FlightModeMsg(mode'))
        \/ Head(evq).src # "FC_Ctrl" /\ evq' = Tail(evq) /\ mode' = mode
    BY <1>5 DEF HandleFlightModeReq, ToldFcCtrl, PutIf
  <2> QED
    BY <1>q, <1>h, <2>1, <2>2, <2>3, PutFlight DEF InformsLatch
<1>6. CASE HandleFcFault
  <2>1. /\ evq # <<>> /\ Head(evq).type = "FcFault" /\ mode' = "fault"
        /\ latch' = latch /\ ctrlLatch' = ctrlLatch /\ ctrlMode' = ctrlMode
        /\ ~Full(Tail(evq)) /\ evq' = Put(Tail(evq), FlightModeMsg("fault"))
    BY <1>6 DEF HandleFcFault, Received, ctrlVars, stickVars
  <2>2. CtrlAgrees(Tail(evq), ctrlLatch, ctrlMode)
    BY <1>h, <2>1 DEF InformsCtrlLatch
  <2> QED
    BY <1>q, <1>h, <2>1, <2>2, PutFlight
<1>7. CASE HandleCtrlModeReq
  <2>1. /\ evq # <<>> /\ Head(evq).type = "CtrlModeReq"
        /\ latch' = latch /\ ctrlLatch' = ctrlLatch /\ mode' = mode
        /\ ~Full(Tail(evq)) /\ evq' = Put(Tail(evq), CtrlModeMsg(ctrlMode'))
    BY <1>7 DEF HandleCtrlModeReq, Received, mainVars, stickVars
  <2>2. FlightAgrees(Tail(evq), latch, mode)
    BY <1>h, <2>1 DEF InformsLatch
  <2> QED
    BY <1>q, <1>h, <2>1, <2>2, PutCtrl
<1>8. CASE HandleFlightMode
  <2>1. /\ evq # <<>> /\ Head(evq).type = "FlightMode" /\ evq' = Tail(evq)
        /\ latch' = Head(evq).mode /\ ctrlLatch' = ctrlLatch
        /\ mode' = mode /\ ctrlMode' = ctrlMode
    BY <1>8 DEF HandleFlightMode, Received, mainVars, ctrlVars
  <2> QED
    BY <1>h, <2>1 DEF InformsCtrlLatch
<1>9. CASE HandleCtrlMode
  <2>1. /\ evq # <<>> /\ Head(evq).type = "CtrlMode" /\ evq' = Tail(evq)
        /\ latch' = latch /\ ctrlLatch' = Head(evq).mode
        /\ mode' = mode /\ ctrlMode' = ctrlMode
    BY <1>9 DEF HandleCtrlMode, Received, mainVars, ctrlVars
  <2> QED
    BY <1>h, <2>1 DEF InformsLatch
<1>10. CASE HandleSpectrumData
  <2> DEFINE s  == Head(evq).stick
             q1 == Put(Tail(evq), NewSetpointMsg)
             q2 == Put(q1, FlightModeReqMsg(WantedMode(s), "FC_Ctrl"))
  <2>1. /\ evq # <<>> /\ Head(evq).type = "SpectrumData"
        /\ mode' = mode /\ ctrlMode' = ctrlMode
    BY <1>10 DEF HandleSpectrumData, Received, mainVars, ctrlVars
  <2>2. FlightAgrees(Tail(evq), latch, mode) /\ CtrlAgrees(Tail(evq), ctrlLatch, ctrlMode)
    BY <1>h, <2>1 DEF InformsLatch, InformsCtrlLatch
  <2>3. CASE sinceFrame <= 1
    BY <1>10, <2>1, <2>2, <2>3 DEF HandleSpectrumData, stickVars
  <2>4. CASE ~(sinceFrame <= 1)
    <3> DEFINE knows == latch \notin {"init", "not_available"}
               req   == knows /\ WantedMode(s) # latch
               creq  == knows /\ WantedCtrlMode(s) # ctrlLatch
               q     == IF req THEN q2 ELSE q1
    <3>0. /\ latch' = IF req THEN WantedMode(s) ELSE latch
          /\ ctrlLatch' = IF creq THEN WantedCtrlMode(s) ELSE ctrlLatch
          /\ evq' = IF creq THEN Put(q, CtrlModeReqMsg(WantedCtrlMode(s))) ELSE q
          /\ req => ~Full(q1)
          /\ creq => ~Full(q)
      BY <1>10, <2>4 DEF HandleSpectrumData, PutIf
    <3>1. q1 \in Seq(Message) /\ FlightAgrees(q1, latch, mode) /\ CtrlAgrees(q1, ctrlLatch, ctrlMode)
      <4>1. q1 \in Seq(Message)
        BY <1>h, <2>1, MessageTypes DEF Put
      <4> QED
        BY <1>h, <2>1, <2>2, <4>1, PutOther, Kinds
    <3>2. WantedMode(s) \in FMode /\ WantedCtrlMode(s) \in CtrlMode
      BY <1>q DEF WantedMode, WantedCtrlMode, FMode, CtrlMode
    <3>3. /\ q \in Seq(Message) /\ FlightAgrees(q, latch', mode)
          /\ CtrlAgrees(q, ctrlLatch, ctrlMode)
      <4>1. CASE req
        <5>1. q2 \in Seq(Message)
          BY <3>1, <3>2, MessageTypes DEF Put
        <5> QED
          BY <3>0, <3>1, <3>2, <4>1, <5>1, PutFlightReq
      <4>2. CASE ~req
        BY <3>0, <3>1, <4>2
      <4> QED
        BY <4>1, <4>2
    <3>4. CASE creq
      BY <2>1, <3>0, <3>2, <3>3, <3>4, PutCtrlReq
    <3>5. CASE ~creq
      BY <2>1, <3>0, <3>3, <3>5
    <3> QED
      BY <3>4, <3>5
  <2> QED
    BY <2>3, <2>4
<1>11. CASE HandleNewSetpoint
  <2>1. /\ evq # <<>> /\ Head(evq).type = "NewSetpoint" /\ evq' = Tail(evq)
        /\ latch' = latch /\ ctrlLatch' = ctrlLatch /\ mode' = mode /\ ctrlMode' = ctrlMode
    BY <1>11 DEF HandleNewSetpoint, Received, mainVars, ctrlVars, stickVars
  <2> QED
    BY <1>h, <2>1 DEF InformsLatch, InformsCtrlLatch
<1>12. CASE SatFrame \/ GsModeReq \/ ParamFault
  <2>1. PICK x \in Message \ (FlightNews \cup CtrlNews) : Arrive(x)
    BY <1>12, <1>q, Kinds DEF SatFrame, GsModeReq, ParamFault
  <2> QED
    BY <1>q, <1>l, <2>1, PutOther DEF Arrive, mainVars, ctrlVars, stickVars
<1>13. CASE IdleCycle \/ EventsDone \/ Wake \/ SatReceive \/ SetpointExpires \/ MoveSticks
            \/ UNCHANGED vars
  BY <1>13, <1>l DEF IdleCycle, EventsDone, Wake, SatReceive, SetpointExpires, MoveSticks,
                     vars, mainVars, ctrlVars, stickVars
<1> QED
  BY <1>1, <1>2, <1>3, <1>4, <1>5, <1>6, <1>7, <1>8, <1>9, <1>10, <1>11, <1>12, <1>13
     DEF Next, MainTask, Environment, Cycle, Event

\* The latches agree with the news in every reachable state.
LEMMA LatchInvariant == Spec => []LatchInv
<1>1. Init => SafetyInv /\ LatchInv
  BY InitSafety, InitLatch
<1>2. SafetyInv /\ LatchInv /\ [Next]_vars => (SafetyInv /\ LatchInv)'
  BY NextType, NextOrders, NextRegulators, NextLatch DEF SafetyInv
<1> QED
  BY <1>1, <1>2, PTL DEF Spec

\* A latch that differs from the mode then has news before it in the queue.
LEMMA LatchInvImplies == LatchInv => LatchesFollow
  BY DEF LatchInv, LatchesFollow, FlightAgrees, CtrlAgrees, Agrees, News, FlightNews, CtrlNews

\* As long as FC_Ctrl misses none of its own messages the stick handler's latches
\* are right, or about to be corrected.
THEOREM LatchesAlwaysFollow == Spec => []LatchesFollow
  BY LatchInvariant, LatchInvImplies, PTL
=============================================================================
