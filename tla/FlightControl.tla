--------------------------- MODULE FlightControl ---------------------------
(***************************************************************************)
(* The main control task of QuadFC and everything that runs in its thread: *)
(* the flight mode handler, the control mode handler, the stick handler    *)
(* that turns receiver frames into mode requests, the regulator switching  *)
(* and the motor outputs, together with the event queue of FC_Ctrl through *)
(* which they talk to each other.  The other tasks are the environment: at *)
(* the points where the main task blocks they put messages in the queue    *)
(* and let the active setpoint expire.  The main task has the highest      *)
(* priority of the system, so nothing else runs between those points.      *)
(*                                                                         *)
(* One cycle is one period of vTaskDelayUntil: the switch over the flight  *)
(* mode (pc = "cycle", and "imu" while the armed case waits for the I2C    *)
(* transfer), the events (pc = "events"), and the delay (pc = "wait").     *)
(***************************************************************************)
EXTENDS Naturals, Sequences

CONSTANTS ArmCycles,        \* cycles in arming, 1000 / CTRL_TIME in the code
          DisarmCycles,     \* cycles in disarming, 200 / CTRL_TIME
          SpTimeoutCycles,  \* armed cycles without setpoint, SpTimeoutMs / CTRL_TIME
          QueueLength,      \* EVENT_QUEUE_LENGTH
          MaxArrivals,      \* bound: messages of other tasks between two wake-ups
          Sticks,           \* the stick positions the pilot uses
          GsModes           \* the modes the ground station asks for

\* ch[4] is the flap switch, ch[5] the gear switch, ch[0] the throttle. "mid"
\* is the value SATELLITE_CH_CENTER, which selects neither position.
Stick == [low : BOOLEAN, flap : {"on", "off", "mid"}, gear : {"on", "off", "mid"}]

ASSUME FlightControlAssumption ==
    /\ ArmCycles \in Nat \ {0}
    /\ DisarmCycles \in Nat \ {0}
    /\ SpTimeoutCycles \in Nat \ {0}
    /\ QueueLength \in Nat /\ QueueLength >= 2
    /\ MaxArrivals \in Nat
    /\ Sticks \subseteq Stick
    /\ GsModes \subseteq {"init", "config", "arming", "disarming"}

VARIABLES
    pc,                \* where the main task is
    mode,              \* FlightModeHandler.current_mode
    armingCounter, disarmingCounter,
    spTimeout,         \* MaintaskParams.SetpointTimeoutCounter, saturated
    ctrlMode,          \* CtrlModeHandler.currentMode
    ctrl,              \* CtrlObj: its current_mode and the modes whose PIDs are on
    valid,             \* state_valid_bf: which estimates the state vector holds
    imuOk,             \* Imu.initialized
    pulse,             \* what the one-shot timer put out in this cycle
    latch,             \* spectrumSpHandler.current_flight_mode_state
    ctrlLatch,         \* spectrumSpHandler.current_control_mode
    sinceFrame,        \* ticks since the last frame used, saturated at 2
    sp,                \* is there a setpoint in the setpoint handler's queue
    evq,               \* the event queue of FC_Ctrl
    stick,             \* the pilot's sticks
    satQuiet,          \* the receiver task believes in init or config mode
    arrivals,          \* arrivals since the last wake-up (bounded by MaxArrivals)
    dwell,             \* history: consecutive cycles that began in arming, saturated
    faulted,           \* history: main_fault ran in this cycle
    bare,              \* history: armed cycles in a row, of this flight, without setpoint
    lost               \* history: a mode message or a request FC_Ctrl sent to itself found the queue full

mainVars  == <<pc, mode, armingCounter, disarmingCounter, spTimeout>>
ctrlVars  == <<ctrlMode, ctrl, valid, imuOk, pulse>>
stickVars == <<latch, ctrlLatch, sinceFrame>>
envVars   == <<stick, satQuiet, arrivals>>
histVars  == <<dwell, bare, faulted, lost>>
vars == <<mainVars, ctrlVars, stickVars, sp, evq, envVars, histVars>>

-----------------------------------------------------------------------------
(* Modes and messages.                                                     *)

FMode == {"init", "disarmed", "config", "arming", "armed", "disarming",
          "fault", "exitFault", "not_available"}
CtrlMode == {"rate", "attitude", "not_available"}

\* The requests each flight mode accepts (FMode_ChangeAllowed).
NextModes(m) ==
    CASE m = "init"      -> {"disarming"}
      [] m = "disarmed"  -> {"config", "init", "armed", "arming", "fault"}
      [] m = "config"    -> {"disarming", "fault"}
      [] m = "arming"    -> {"armed", "disarming", "fault"}
      [] m = "armed"     -> {"disarming", "fault"}
      [] m = "disarming" -> {"disarmed", "fault"}
      [] m = "fault"     -> {"exitFault"}
      [] m = "exitFault" -> {"disarming"}
      [] OTHER           -> {}

\* Mutants: armed accepts arming again; arming accepts config.
ChangeAllowed_Rearm(m, req) ==
    req \in NextModes(m) \/ (m = "armed" /\ req = "arming")
ChangeAllowed_ConfigFromArming(m, req) ==
    req \in NextModes(m) \/ (m = "arming" /\ req = "config")

ChangeAllowed(m, req) == req \in NextModes(m)

\* Ctrl_ModeChangeAllowed: the other regulator, or anything when none is set.
CtrlChangeAllowed(m, req) ==
    CASE m = "rate"     -> req = "attitude"
      [] m = "attitude" -> req = "rate"
      [] OTHER          -> TRUE

FlightModeMsg(m)       == [type |-> "FlightMode", mode |-> m]
FlightModeReqMsg(m, s) == [type |-> "FlightModeReq", mode |-> m, src |-> s]
CtrlModeMsg(m)         == [type |-> "CtrlMode", mode |-> m]
CtrlModeReqMsg(m)      == [type |-> "CtrlModeReq", mode |-> m]
SpectrumDataMsg(s)     == [type |-> "SpectrumData", stick |-> s]
NewSetpointMsg         == [type |-> "NewSetpoint"]
FcFaultMsg             == [type |-> "FcFault"]

Message ==
    [type : {"FlightMode"}, mode : FMode]
        \cup [type : {"FlightModeReq"}, mode : FMode, src : {"FC_Ctrl", "GS"}]
        \cup [type : {"CtrlMode", "CtrlModeReq"}, mode : CtrlMode]
        \cup [type : {"SpectrumData"}, stick : Stick]
        \cup [type : {"NewSetpoint", "FcFault"}]

\* Mutant: the queue is not bounded.
Put_Unbounded(q, m) == Append(q, m)

\* xQueueSendToBack with a block time of 0: a message to a full queue is gone.
Put(q, m) == IF Len(q) < QueueLength THEN Append(q, m) ELSE q
PutIf(c, q, m) == IF c THEN Put(q, m) ELSE q
Full(q) == Len(q) >= QueueLength

Capped(n, max) == IF n > max THEN max ELSE n

-----------------------------------------------------------------------------
(* The regulator object (ThreeAxixPIDControl.c): Ctrl_On and Ctrl_Off only *)
(* reach the PIDs of the object's own mode, Ctrl_Switch needs a valid      *)
(* estimate for the new mode and turns the other PIDs off.                 *)

CtrlOn(c)  == IF c.mode = "not_available" THEN c ELSE [c EXCEPT !.on = @ \cup {c.mode}]
CtrlOff(c) == [c EXCEPT !.on = @ \ {c.mode}]

\* Mutant: the PIDs of the new mode are not turned on.
CtrlSwitch_NotOn(c, new, v) ==
    IF new \in v THEN [mode |-> new, on |-> c.on \ {c.mode}] ELSE c

CtrlSwitch(c, new, v) ==
    IF new \in v THEN [mode |-> new, on |-> {new}] ELSE c

\* The estimates StateEst_getState marks valid: the rates always, the angles
\* only when the complementary filter of the attitude mode ran.
ValidIn(m) ==
    CASE m = "rate"     -> {"rate"}
      [] m = "attitude" -> {"rate", "attitude"}
      [] OTHER          -> {}

-----------------------------------------------------------------------------
(* Before the loop.                                                        *)

Init ==
    /\ pc = "start"
    /\ mode = "not_available"
    /\ armingCounter = 0 /\ disarmingCounter = 0 /\ spTimeout = 0
    /\ ctrlMode = "not_available"
    /\ ctrl = [mode |-> "not_available", on |-> {}]
    /\ valid \in SUBSET {"rate", "attitude"}      \* allocated, never written
    /\ imuOk = FALSE
    /\ pulse = "none"
    /\ latch = "not_available" /\ ctrlLatch = "not_available"
    /\ sinceFrame \in 0 .. 2                      \* timeAtLastNewSp: same
    /\ sp = FALSE
    /\ evq = <<>>
    /\ stick \in Sticks
    /\ satQuiet = FALSE
    /\ arrivals = 0
    /\ dwell = 0 /\ bare = 0 /\ faulted = FALSE /\ lost = FALSE

\* FMode_InitFModeHandler and Ctrl_InitModeHandler announce the first modes.
Startup ==
    /\ pc = "start"
    /\ pc' = "calibrate"
    /\ mode' = "init"
    /\ ctrlMode' = "rate"
    /\ evq' = Put(Put(evq, FlightModeMsg("init")), CtrlModeMsg("rate"))
    /\ UNCHANGED <<armingCounter, disarmingCounter, spTimeout, ctrl, valid, imuOk,
                   pulse, stickVars, sp, envVars, histVars>>

\* Imu_Init ends.  When it failed StateEst_init fails too: main_fault runs twice.
Calibrated ==
    /\ pc = "calibrate"
    /\ pc' = "cycle"
    /\ imuOk' \in BOOLEAN
    /\ mode' = IF imuOk' THEN mode ELSE "fault"
    /\ evq' = IF imuOk' THEN evq
              ELSE Put(Put(evq, FlightModeMsg("fault")), FlightModeMsg("fault"))
    /\ lost' = (lost \/ (~imuOk' /\ Len(evq) + 2 > QueueLength))
    /\ ctrl' = IF imuOk' THEN ctrl ELSE CtrlOff(ctrl)
    /\ pulse' = IF imuOk' THEN pulse ELSE "none"
    /\ faulted' = ~imuOk'
    /\ arrivals' = 0
    /\ UNCHANGED <<armingCounter, disarmingCounter, spTimeout, ctrlMode, valid,
                   stickVars, sp, stick, satQuiet, dwell, bare>>

-----------------------------------------------------------------------------
(* The switch over the flight mode.                                        *)

\* The mode after FMode_ChangeFMode(req) and the main_fault of its caller when
\* the change is refused.
ModeOrFault(req) == IF ChangeAllowed(mode, req) THEN req ELSE "fault"

\* FMode_SendEvent: the new mode is broadcast, to FC_Ctrl too.
Announce(m) ==
    /\ evq' = Put(evq, FlightModeMsg(m))
    /\ lost' = (lost \/ Full(evq))

\* fmode_init and fmode_exitFault go on to disarming.
LeaveCycle ==
    /\ pc = "cycle" /\ mode \in {"init", "exitFault"}
    /\ pc' = "events"
    /\ LET refused == ~ChangeAllowed(mode, "disarming") IN
        /\ mode' = ModeOrFault("disarming")
        /\ ctrl' = IF refused THEN CtrlOff(ctrl) ELSE ctrl
        /\ pulse' = IF refused THEN "none" ELSE pulse
        /\ faulted' = (faulted \/ refused)
    /\ Announce(mode')
    /\ UNCHANGED <<armingCounter, disarmingCounter, spTimeout, ctrlMode, valid,
                   imuOk, stickVars, sp, envVars, dwell, bare>>

\* Mutant: exitFault does nothing either.
IdleModes_ExitFault == {"disarmed", "config", "fault", "exitFault", "not_available"}

\* The modes in which the loop does nothing.
IdleModes == {"disarmed", "config", "fault", "not_available"}
IdleCycle ==
    /\ pc = "cycle" /\ mode \in IdleModes
    /\ pc' = "events"
    /\ UNCHANGED <<mode, armingCounter, disarmingCounter, spTimeout, ctrlVars,
                   stickVars, sp, evq, envVars, histVars>>

\* Idle pulses, regulators on, and after ArmCycles cycles on to armed.
ArmingCycle ==
    /\ pc = "cycle" /\ mode = "arming"
    /\ pc' = "events"
    /\ IF armingCounter >= ArmCycles
       THEN LET refused == ~ChangeAllowed(mode, "armed") IN
            /\ armingCounter' = 0
            /\ mode' = ModeOrFault("armed")
            /\ ctrl' = IF refused THEN CtrlOff(CtrlOn(ctrl)) ELSE CtrlOn(ctrl)
            /\ pulse' = IF refused THEN "none" ELSE "idle"
            /\ faulted' = (faulted \/ refused)
            /\ Announce(mode')
       ELSE /\ armingCounter' = armingCounter + 1
            /\ ctrl' = CtrlOn(ctrl)
            /\ pulse' = "idle"
            /\ UNCHANGED <<mode, faulted, evq, lost>>
    /\ UNCHANGED <<disarmingCounter, spTimeout, ctrlMode, valid, imuOk, stickVars,
                   sp, envVars, dwell, bare>>

\* Mutant: the counter wraps before it reaches its limit.
SpTimeoutNext_Wraps == IF sp THEN 0 ELSE (spTimeout + 1) % SpTimeoutCycles

\* SetpointTimeoutCounter after this cycle's SpHandl_GetSetpoint.
SpTimeoutNext == IF sp THEN 0 ELSE Capped(spTimeout + 1, SpTimeoutCycles)

\* The armed case up to the I2C transfer: count the cycles without setpoint.
ArmedSetpoint ==
    /\ pc = "cycle" /\ mode = "armed"
    /\ pc' = "imu"
    /\ spTimeout' = SpTimeoutNext
    /\ bare' = IF sp THEN 0 ELSE Capped(bare + 1, SpTimeoutCycles)
    /\ IF spTimeout' >= SpTimeoutCycles
       THEN /\ mode' = "fault"
            /\ ctrl' = CtrlOff(ctrl)
            /\ pulse' = "none"
            /\ faulted' = TRUE
            /\ Announce("fault")
       ELSE UNCHANGED <<mode, ctrl, pulse, faulted, evq, lost>>
    /\ UNCHANGED <<armingCounter, disarmingCounter, ctrlMode, valid, imuOk,
                   stickVars, sp, envVars, dwell>>

\* The rest of the armed case: estimate, regulate, drive the motors.  Each
\* failure runs main_fault and the case goes on: Ctrl_Execute still runs after a
\* failed estimate, and the motor outputs are written whatever failed before.
ArmedControl ==
    /\ pc = "imu"
    /\ pc' = "events"
    /\ \E read \in BOOLEAN :
        LET got   == read /\ imuOk
            v     == IF got THEN ValidIn(ctrlMode) ELSE valid
            noEst == ~(got /\ ctrlMode # "not_available")
            c1    == IF noEst THEN CtrlOff(ctrl) ELSE ctrl
            c2    == IF c1.mode # ctrlMode THEN CtrlSwitch(c1, ctrlMode, v) ELSE c1
            noCtl == c2.mode = "not_available"
            c3    == IF noCtl THEN CtrlOff(c2) ELSE c2
        IN  /\ valid' = v
            /\ ctrl' = c3
            /\ mode' = IF noEst \/ noCtl THEN "fault" ELSE mode
            /\ faulted' = (faulted \/ noEst \/ noCtl)
            /\ evq' = PutIf(noCtl, PutIf(noEst, evq, FlightModeMsg("fault")),
                            FlightModeMsg("fault"))
            /\ lost' = (lost \/ ((noEst \/ noCtl) /\ Full(evq))
                             \/ (noEst /\ noCtl /\ Len(evq) + 2 > QueueLength))
    /\ pulse' = "thrust"
    /\ UNCHANGED <<armingCounter, disarmingCounter, spTimeout, ctrlMode, imuOk,
                   stickVars, sp, envVars, dwell, bare>>

\* Idle pulses, regulators off; after DisarmCycles cycles the outputs stop.
DisarmingCycle ==
    /\ pc = "cycle" /\ mode = "disarming"
    /\ pc' = "events"
    /\ ctrl' = CtrlOff(ctrl)
    /\ IF disarmingCounter >= DisarmCycles
       THEN /\ disarmingCounter' = 0
            /\ mode' = ModeOrFault("disarmed")
            /\ pulse' = "none"
            /\ faulted' = (faulted \/ ~ChangeAllowed(mode, "disarmed"))
            /\ Announce(mode')
       ELSE /\ disarmingCounter' = disarmingCounter + 1
            /\ pulse' = "idle"
            /\ UNCHANGED <<mode, faulted, evq, lost>>
    /\ UNCHANGED <<armingCounter, spTimeout, ctrlMode, valid, imuOk, stickVars, sp,
                   envVars, dwell, bare>>

-----------------------------------------------------------------------------
(* The events of the cycle: Event_Receive until the queue is empty.        *)

Received(type) == pc = "events" /\ evq # <<>> /\ Head(evq).type = type

\* Mutant: a refused request is not answered.
ToldFcCtrl_OnChange(ok, src) == ok

\* FMode_CB.  A change is announced to all, a refusal to the sender alone.
ToldFcCtrl(ok, src) == ok \/ src = "FC_Ctrl"

HandleFlightModeReq ==
    /\ Received("FlightModeReq")
    /\ LET m == Head(evq)
           ok == ChangeAllowed(mode, m.mode)
           answer == ToldFcCtrl(ok, m.src)
       IN  /\ mode' = IF ok THEN m.mode ELSE mode
           /\ evq' = PutIf(answer, Tail(evq), FlightModeMsg(mode'))
           /\ lost' = (lost \/ (answer /\ Full(Tail(evq))))
    /\ UNCHANGED <<pc, armingCounter, disarmingCounter, spTimeout, ctrlVars,
                   stickVars, sp, envVars, dwell, bare, faulted>>

\* FMode_FaultCB: the mode only, neither the motors nor the regulators.
HandleFcFault ==
    /\ Received("FcFault")
    /\ mode' = "fault"
    /\ evq' = Put(Tail(evq), FlightModeMsg("fault"))
    /\ lost' = (lost \/ Full(Tail(evq)))
    /\ UNCHANGED <<pc, armingCounter, disarmingCounter, spTimeout, ctrlVars,
                   stickVars, sp, envVars, dwell, bare, faulted>>

\* Ctrl_ModeCB.  Only the stick handler asks for control modes.
HandleCtrlModeReq ==
    /\ Received("CtrlModeReq")
    /\ LET req == Head(evq).mode
       IN  ctrlMode' = IF CtrlChangeAllowed(ctrlMode, req) THEN req ELSE ctrlMode
    /\ evq' = Put(Tail(evq), CtrlModeMsg(ctrlMode'))
    /\ lost' = (lost \/ Full(Tail(evq)))
    /\ UNCHANGED <<mainVars, ctrl, valid, imuOk, pulse, stickVars, sp, envVars,
                   dwell, bare, faulted>>

\* SatSpHandler_FModeCB and SatSpHandler_CtrlModeCB: the latches follow.
HandleFlightMode ==
    /\ Received("FlightMode")
    /\ latch' = Head(evq).mode
    /\ evq' = Tail(evq)
    /\ UNCHANGED <<mainVars, ctrlVars, ctrlLatch, sinceFrame, sp, envVars, histVars>>

HandleCtrlMode ==
    /\ Received("CtrlMode")
    /\ ctrlLatch' = Head(evq).mode
    /\ evq' = Tail(evq)
    /\ UNCHANGED <<mainVars, ctrlVars, latch, sinceFrame, sp, envVars, histVars>>

\* Mutant: a fault is not told from the other modes.
WantedMode_NoExitFault(s) ==
    CASE s.low /\ s.flap = "on" /\ latch \notin {"disarming", "disarmed"} -> "disarming"
      [] s.low /\ s.flap = "off" /\ latch \notin {"arming", "armed"} -> "arming"
      [] OTHER -> latch

\* The mode the sticks ask for in SatSpHandler_UpdateState, or the latched mode
\* when they ask for nothing.
WantedMode(s) ==
    CASE s.low /\ s.flap = "on" /\ latch = "fault" -> "exitFault"
      [] s.low /\ s.flap = "on" /\ latch \notin {"fault", "disarming", "disarmed"}
            -> "disarming"
      [] s.low /\ s.flap = "off" /\ latch \notin {"arming", "armed"} -> "arming"
      [] OTHER -> latch

\* SatSpHandler_UpdateControlMode likewise.
WantedCtrlMode(s) ==
    CASE s.low /\ s.gear = "on"  -> "attitude"
      [] s.low /\ s.gear = "off" -> "rate"
      [] OTHER -> ctrlLatch

\* SatSpHandler_HandleSatFrame: a frame within one tick of the last one is
\* dropped; any other sends a setpoint, and the requests its sticks make, each
\* of which is latched at once.
HandleSpectrumData ==
    /\ Received("SpectrumData")
    /\ IF sinceFrame <= 1
       THEN /\ evq' = Tail(evq)
            /\ UNCHANGED <<stickVars, lost>>
       ELSE LET s     == Head(evq).stick
                knows == latch \notin {"init", "not_available"}
                req   == knows /\ WantedMode(s) # latch
                creq  == knows /\ WantedCtrlMode(s) # ctrlLatch
                q1    == Put(Tail(evq), NewSetpointMsg)
                q2    == PutIf(req, q1, FlightModeReqMsg(WantedMode(s), "FC_Ctrl"))
            IN  /\ sinceFrame' = 0
                /\ latch' = IF req THEN WantedMode(s) ELSE latch
                /\ ctrlLatch' = IF creq THEN WantedCtrlMode(s) ELSE ctrlLatch
                /\ evq' = PutIf(creq, q2, CtrlModeReqMsg(WantedCtrlMode(s)))
                /\ lost' = (lost \/ (req /\ Full(q1)) \/ (creq /\ Full(q2)))
    /\ UNCHANGED <<mainVars, ctrlVars, sp, envVars, dwell, bare, faulted>>

\* RcSpHandl_SpCB: the setpoint becomes the active one; when the timer can not
\* be set the queue is cleared instead.  SetpointHandler.tla has the detail.
HandleNewSetpoint ==
    /\ Received("NewSetpoint")
    /\ sp' \in BOOLEAN
    /\ evq' = Tail(evq)
    /\ UNCHANGED <<mainVars, ctrlVars, stickVars, envVars, histVars>>

EventsDone ==
    /\ pc = "events" /\ evq = <<>>
    /\ pc' = "wait"
    /\ UNCHANGED <<mode, armingCounter, disarmingCounter, spTimeout, ctrlVars,
                   stickVars, sp, evq, envVars, histVars>>

\* vTaskDelayUntil returns after a tick or more.  A one-shot pulse is shorter
\* than a period: none is left from the cycle before.
Wake ==
    /\ pc = "wait"
    /\ pc' = "cycle"
    /\ pulse' = "none"
    /\ \E ticks \in 1 .. 2 : sinceFrame' = Capped(sinceFrame + ticks, 2)
    /\ arrivals' = 0
    /\ faulted' = FALSE
    /\ dwell' = IF mode = "arming" THEN Capped(dwell + 1, ArmCycles + 1) ELSE 0
    /\ bare' = IF mode = "armed" THEN bare ELSE 0
    /\ UNCHANGED <<mode, armingCounter, disarmingCounter, spTimeout, ctrlMode, ctrl,
                   valid, imuOk, latch, ctrlLatch, sp, evq, stick, satQuiet, lost>>

-----------------------------------------------------------------------------
(* The other tasks, while the main task is blocked.                        *)

Blocked == pc \in {"calibrate", "imu", "wait"}

Arrive(m) ==
    /\ Blocked
    /\ arrivals < MaxArrivals
    /\ arrivals' = arrivals + 1
    /\ evq' = Put(evq, m)
    /\ UNCHANGED <<mainVars, ctrlVars, stickVars, sp, stick, satQuiet, histVars>>

\* The receiver task sends a frame, unless it believes in init or config mode.
SatFrame == ~satQuiet /\ Arrive(SpectrumDataMsg(stick))

\* The receiver task drains its own queue and knows the mode last announced.
SatReceive ==
    /\ Blocked
    /\ satQuiet # (mode \in {"init", "config"})
    /\ satQuiet' = ~satQuiet
    /\ UNCHANGED <<mainVars, ctrlVars, stickVars, sp, evq, stick, arrivals, histVars>>

\* dbgModule of the ground station asks for a flight mode.
GsModeReq == \E m \in GsModes : Arrive(FlightModeReqMsg(m, "GS"))

\* The parameter master reports a failed load.
ParamFault == Arrive(FcFaultMsg)

\* The setpoint timer runs out.
SetpointExpires ==
    /\ Blocked /\ sp
    /\ sp' = FALSE
    /\ UNCHANGED <<mainVars, ctrlVars, stickVars, evq, envVars, histVars>>

MoveSticks ==
    /\ Blocked
    /\ stick' \in Sticks \ {stick}
    /\ UNCHANGED <<mainVars, ctrlVars, stickVars, sp, evq, satQuiet, arrivals, histVars>>

-----------------------------------------------------------------------------
Cycle == LeaveCycle \/ IdleCycle \/ ArmingCycle \/ ArmedSetpoint \/ DisarmingCycle
Event == \/ HandleFlightModeReq \/ HandleFcFault \/ HandleCtrlModeReq
         \/ HandleFlightMode \/ HandleCtrlMode \/ HandleSpectrumData
         \/ HandleNewSetpoint
MainTask == Startup \/ Calibrated \/ Cycle \/ ArmedControl \/ Event \/ EventsDone \/ Wake
Environment == SatFrame \/ SatReceive \/ GsModeReq \/ ParamFault \/ SetpointExpires
                        \/ MoveSticks

Next == MainTask \/ Environment

Spec == Init /\ [][Next]_vars

(* The main task has the highest priority and always runs again after a    *)
(* delay; the receiver sends a frame every 11 or 22 ms and its task reads   *)
(* its own events between two frames.                                      *)
FairSpec == Spec /\ WF_vars(MainTask) /\ SF_vars(SatFrame) /\ SF_vars(SatReceive)

-----------------------------------------------------------------------------
(* Properties.                                                             *)

MainType ==
    /\ pc \in {"start", "calibrate", "cycle", "imu", "events", "wait"}
    /\ mode \in FMode
    /\ armingCounter \in 0 .. ArmCycles
    /\ disarmingCounter \in 0 .. DisarmCycles
    /\ spTimeout \in 0 .. SpTimeoutCycles
Regulator == [mode : CtrlMode, on : SUBSET {"rate", "attitude"}]
CtrlType ==
    /\ ctrlMode \in CtrlMode
    /\ ctrl \in Regulator
    /\ valid \in SUBSET {"rate", "attitude"}
    /\ imuOk \in BOOLEAN
    /\ pulse \in {"none", "idle", "thrust"}
StickType == latch \in FMode /\ ctrlLatch \in CtrlMode /\ sinceFrame \in 0 .. 2
QueueType == evq \in Seq(Message) /\ Len(evq) <= QueueLength
EnvType == sp \in BOOLEAN /\ stick \in Sticks /\ satQuiet \in BOOLEAN
            /\ arrivals \in 0 .. MaxArrivals
HistType == /\ dwell \in 0 .. ArmCycles + 1 /\ bare \in 0 .. SpTimeoutCycles
            /\ faulted \in BOOLEAN /\ lost \in BOOLEAN

TypeOK == MainType /\ CtrlType /\ StickType /\ QueueType /\ EnvType /\ HistType

\* Disarmed and config are reached with the outputs stopped and every regulator
\* off, although Ctrl_Off only reaches the regulator of the object's own mode
\* and a fault taken by an event leaves the regulators running.
GroundedIsSafe ==
    mode \in {"disarmed", "config"} => pulse = "none" /\ ctrl.on = {}

\* In a cycle without main_fault the motors are driven by a regulator whose PIDs
\* are on (an off PID keeps its last output), alone, and which regulates a state
\* the estimator has computed (Ctrl_Execute, Ctrl_Switch, StateEst_getState).
ThrustIsRegulated ==
    pulse = "thrust" /\ ~faulted => ctrl.mode \in valid /\ ctrl.on = {ctrl.mode}

\* As long as FC_Ctrl's own messages fit its queue, a latch of the stick handler
\* that differs from the real mode is about to be corrected: a mode message or a
\* request whose answer will be one is still queued ("Will get updated to real
\* system state in event CB", Satellite_SetpointHandler.c).
InformsLatch(m) ==
    m.type = "FlightMode" \/ (m.type = "FlightModeReq" /\ m.src = "FC_Ctrl")
InformsCtrlLatch(m) == m.type \in {"CtrlMode", "CtrlModeReq"}
LatchesFollow ==
    ~lost =>
        /\ latch # mode => \E i \in 1 .. Len(evq) : InformsLatch(evq[i])
        /\ ctrlLatch # ctrlMode => \E i \in 1 .. Len(evq) : InformsCtrlLatch(evq[i])

\* The mode and the motor outputs behave as FlightLifecycle promises: armed is
\* entered only from arming, at idle; a request or a latch never leads from fault,
\* arming or armed to the ground without the disarming cycles; whatever the events
\* of an armed cycle do, its one control pulse is never seen arming or on the
\* ground.  LifecycleSpec adds that every transitional mode is left.
Lifecycle == INSTANCE FlightLifecycle WITH motors <- pulse, due <- (pc = "imu")
LifecycleSafety == Lifecycle!Safety
LifecycleSpec == Lifecycle!Spec

\* "Be in arming state for 1s." (QuadFC_MainTask.c:272).
ArmingLasts == [][mode # "armed" /\ mode' = "armed" => dwell > ArmCycles]_vars

\* "If there is no active setpoint start a counter that will disarm the copter
\* when it expires" (QuadFC_MainTask.c:292): a flight is ended by the counter only
\* after SpTimeoutCycles of its own cycles without setpoint.
SetpointGrace == [][mode = "armed" /\ pc = "cycle" /\ mode' = "fault"
                        => bare' >= SpTimeoutCycles]_vars

\* main_fault "Puts FC into a fault state, motors are stopped and control system
\* is shut off" (QuadFC_MainTask.c:88): at the end of such a cycle they are.
MainFaultStops == pc = "events" /\ faulted => pulse # "thrust" /\ ctrl.on = {}

\* The pilot can always get down: sticks held in the disarm position end in
\* disarmed (or in config, which only the ground station leaves), from every mode,
\* once nobody else interferes and unless FC_Ctrl missed one of its own messages.
DisarmSticks == {s \in Sticks : s.low /\ s.flap = "on"}
NoInterference == [][~GsModeReq /\ ~ParamFault]_vars
DisarmWins ==
    []~lost /\ <>[](stick \in DisarmSticks) /\ <>NoInterference
        => <>[](mode \in {"disarmed", "config"})

\* "latch to avoid multiple events. Will get updated to real system state in event
\* CB." (Satellite_SetpointHandler.c:193), however full the queue was.
LatchGetsUpdated == [](latch # mode => <>(latch = mode))

\* Without setpoints there is no flight that lasts (SetpointTimeoutCounter).
NoSetpointNoFlight == <>[](~sp) => []<>(mode # "armed")
=============================================================================
