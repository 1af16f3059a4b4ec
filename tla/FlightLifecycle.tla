-------------------------- MODULE FlightLifecycle --------------------------
(***************************************************************************)
(* What the flight controller promises about its flight mode and its motor *)
(* outputs to whoever stands next to it: the pilot, the ground station and *)
(* the tasks that follow the broadcast mode.  Nothing is said of queues,   *)
(* counters, latches or regulators.  FlightControl implements it.          *)
(***************************************************************************)

VARIABLES mode,     \* the flight mode
          motors,   \* the pulse of this period: "none", "idle" or "thrust"
          due       \* an armed period has begun and its control pulse is due

vars == <<mode, motors, due>>

\* The modes the controller leaves by itself.
Transitional == {"not_available", "init", "arming", "disarming", "exitFault"}

Init == mode = "not_available" /\ motors = "none" /\ due = FALSE

\* Power up ends in init, or in fault.
Boot == /\ mode = "not_available"
        /\ mode' = "init"
        /\ UNCHANGED <<motors, due>>

\* The pulse of a period does not last into the next one.
Rest == /\ ~due
        /\ motors' = "none"
        /\ UNCHANGED <<mode, due>>

\* Idle pulses, while arming and disarming.
Idle == /\ mode \in {"arming", "disarming"} /\ ~due
        /\ motors' = "idle"
        /\ UNCHANGED <<mode, due>>

\* Arming ends armed, never otherwise, and with idle motors.
Arm == /\ mode = "arming" /\ ~due
       /\ mode' = "armed"
       /\ motors' = "idle"
       /\ UNCHANGED due

\* One control pulse for each period that begins armed.
Begin == /\ mode = "armed" /\ ~due
         /\ due' = TRUE
         /\ mode' \in {"armed", "fault"}
         /\ motors' \in {motors, "none"}
Drive == /\ due
         /\ due' = FALSE
         /\ mode' \in {mode, "fault"}
         /\ motors' = "thrust"

\* Every way back to the ground is through disarming, which ends with the
\* motors stopped.
Disarm == /\ mode \in {"init", "config", "arming", "armed", "exitFault"} /\ ~due
          /\ mode' = "disarming"
          /\ UNCHANGED <<motors, due>>
Settle == /\ mode = "disarming" /\ ~due
          /\ mode' = "disarmed"
          /\ motors' = "none"
          /\ UNCHANGED due

\* On the ground, and only with the motors stopped, other modes are entered.
Choose == /\ mode = "disarmed" /\ motors = "none" /\ ~due
          /\ mode' \in {"config", "init", "arming"}
          /\ UNCHANGED <<motors, due>>

\* A fault can come at any time; it is left on request, towards disarming.
Fail == /\ ~due
        /\ mode' = "fault"
        /\ motors' \in {motors, "none"}
        /\ UNCHANGED due
Clear == /\ mode = "fault" /\ ~due
         /\ mode' = "exitFault"
         /\ UNCHANGED <<motors, due>>

Next == \/ Boot \/ Rest \/ Idle \/ Arm \/ Begin \/ Drive \/ Disarm \/ Settle
        \/ Choose \/ Fail \/ Clear

Safety == Init /\ [][Next]_vars

\* The controller never stays in the modes it should leave by itself.
Progress == []<>(mode \notin Transitional)

Spec == Safety /\ Progress
=============================================================================
