-------------------------- MODULE SetpointHandler --------------------------
(***************************************************************************)
(* The setpoint handler of QuadFC (setpoint_handler.c): a queue of one     *)
(* setpoint, written by the main task for every frame of the receiver, and *)
(* a one-shot timer whose callback empties it.  The timer belongs to the   *)
(* timer daemon of FreeRTOS, a task of lower priority that is told what to *)
(* do through a command queue; the main task can preempt it anywhere in    *)
(* the callback, it can only run while the main task is blocked.           *)
(*                                                                         *)
(* FlightControl sees of all this whether there is a setpoint, sp.         *)
(***************************************************************************)
EXTENDS Naturals, Sequences

CONSTANTS ValidFor,    \* MESSAGE_VALID_FOR_MS, in ticks
          CmdLength    \* configTIMER_QUEUE_LENGTH

ASSUME SetpointAssumption == /\ ValidFor \in Nat \ {0}
                             /\ CmdLength \in Nat /\ CmdLength >= 2

VARIABLES
    sp,        \* is there a setpoint in xQueue_Sp_Handl
    age,       \* history: ticks since its timer was reset, saturated at ValidFor
    validSp,   \* SpObj.validSp
    told,      \* the Msg_ValidSp last sent: is the setpoint LED on
    m,         \* where the main task is in RcSpHandl_SpCB
    d,         \* where the daemon is in RcSpHandl_TimerCallback
    note,      \* the value in the message the callback is about to send
    active,    \* is the timer in the daemon's list of active timers
    left,      \* ticks until it expires
    cmds       \* the daemon's command queue

mainVars  == <<m, cmds>>
timerVars == <<active, left>>
vars == <<sp, age, validSp, told, mainVars, d, note, timerVars>>

Command == [op : {"changePeriod", "reset"}, age : 0 .. ValidFor]

Older(n) == IF n < ValidFor THEN n + 1 ELSE n
CmdsFull == Len(cmds) >= CmdLength

Init == /\ sp = FALSE /\ age = 0 /\ validSp = FALSE /\ told = FALSE
        /\ m = "idle"
        /\ d = "idle" /\ note = FALSE
        /\ active = FALSE /\ left = 0
        /\ cmds = <<>>

-----------------------------------------------------------------------------
(* The main task: RcSpHandl_SpCB and RcSpHandl_SetSetpoint.  Every sender   *)
(* uses the same priority, so the setpoint in the queue never refuses one.  *)

\* A Msg_NewSetpoint_e is received.
NewSetpoint ==
    /\ m = "idle"
    /\ m' = "changePeriod"
    /\ UNCHANGED <<sp, age, validSp, told, d, note, timerVars, cmds>>

\* Mutant: a command is sent to a full queue too.
SendCommand_Unbounded(op, next) ==
    /\ m = op
    /\ m' = next
    /\ cmds' = Append(cmds, [op |-> op, age |-> 0])
    /\ UNCHANGED <<sp, age, validSp, told, d, note, timerVars>>

\* xTimerChangePeriod, then xTimerReset: both block while the queue is full.
SendCommand(op, next) ==
    /\ m = op /\ ~CmdsFull
    /\ m' = next
    /\ cmds' = Append(cmds, [op |-> op, age |-> 0])
    /\ UNCHANGED <<sp, age, validSp, told, d, note, timerVars>>
SendChangePeriod == SendCommand("changePeriod", "reset")
SendReset == SendCommand("reset", "write")

\* They give up at the next tick, and the queue is emptied.
GiveUp ==
    /\ m \in {"changePeriod", "reset"} /\ CmdsFull
    /\ m' = "announce"
    /\ sp' = FALSE
    /\ validSp' = FALSE
    /\ UNCHANGED <<age, told, d, note, timerVars, cmds>>

Write ==
    /\ m = "write"
    /\ m' = "announce"
    /\ sp' = TRUE
    /\ age' = cmds[Len(cmds)].age
    /\ UNCHANGED <<validSp, told, d, note, timerVars, cmds>>

\* RcSpHandl_SpCB does not look at the result of RcSpHandl_SetSetpoint.
Announce ==
    /\ m = "announce"
    /\ m' = "idle"
    /\ validSp' = TRUE
    /\ told' = (told \/ ~validSp)
    /\ UNCHANGED <<sp, age, d, note, timerVars, cmds>>

-----------------------------------------------------------------------------
(* The daemon, when the main task is blocked: outside the callback of the   *)
(* setpoint, or because the command queue is full.                          *)

MainBlocked == m = "idle" \/ (m \in {"changePeriod", "reset"} /\ CmdsFull)

\* The timer leaves the list before its callback is called.
Expire ==
    /\ MainBlocked /\ d = "idle"
    /\ active /\ left = 0
    /\ active' = FALSE
    /\ d' = "expired"
    /\ UNCHANGED <<sp, age, validSp, told, mainVars, note, left>>

\* A command starts the timer: from now, or for a reset from when it was sent,
\* which can be so long ago that the callback is called at once.
ProcessCommand ==
    /\ MainBlocked /\ d = "idle" /\ cmds # <<>>
    /\ cmds' = Tail(cmds)
    /\ LET since == IF Head(cmds).op = "reset" THEN Head(cmds).age ELSE 0 IN
        /\ active' = (since < ValidFor)
        /\ left' = ValidFor - since
        /\ d' = IF since < ValidFor THEN "idle" ELSE "expired"
    /\ UNCHANGED <<sp, age, validSp, told, m, note>>

\* Mutant: the callback leaves the setpoint in the queue.
ClearQueue_Not ==
    /\ MainBlocked /\ d = "expired"
    /\ d' = "cleared"
    /\ UNCHANGED <<sp, age, validSp, told, mainVars, note, timerVars>>

\* RcSpHandl_TimerCallback, statement by statement.
ClearQueue ==
    /\ MainBlocked /\ d = "expired"
    /\ d' = "cleared"
    /\ sp' = FALSE
    /\ UNCHANGED <<age, validSp, told, mainVars, note, timerVars>>

Invalidate ==
    /\ MainBlocked /\ d = "cleared"
    /\ d' = "invalid"
    /\ validSp' = FALSE
    /\ UNCHANGED <<sp, age, told, mainVars, note, timerVars>>

\* Mutant: the message is made from the value before the timer expired.
CreateMsg_Stale ==
    /\ MainBlocked /\ d = "invalid"
    /\ d' = "send"
    /\ note' = TRUE
    /\ UNCHANGED <<sp, age, validSp, told, mainVars, timerVars>>

\* validSp is read again, or the compiler uses the 0 just written.
CreateMsg ==
    /\ MainBlocked /\ d = "invalid"
    /\ d' = "send"
    /\ note' \in {FALSE, validSp}
    /\ UNCHANGED <<sp, age, validSp, told, mainVars, timerVars>>

SendMsg ==
    /\ MainBlocked /\ d = "send"
    /\ d' = "idle"
    /\ told' = note
    /\ UNCHANGED <<sp, age, validSp, mainVars, note, timerVars>>

-----------------------------------------------------------------------------
\* The tick.  Nothing says how long the daemon waits for the processor.
Tick ==
    /\ left' = IF left > 0 THEN left - 1 ELSE left
    /\ age' = Older(age)
    /\ cmds' = [i \in 1 .. Len(cmds) |-> [cmds[i] EXCEPT !.age = Older(@)]]
    /\ UNCHANGED <<sp, validSp, told, m, d, note, active>>

SpCB   == SendChangePeriod \/ SendReset \/ GiveUp \/ Write \/ Announce
Daemon == Expire \/ ProcessCommand \/ ClearQueue \/ Invalidate \/ CreateMsg \/ SendMsg

Next == NewSetpoint \/ SpCB \/ Daemon \/ Tick

Spec == Init /\ [][Next]_vars

\* Both tasks run when they can (the main task blocks in every cycle), and time
\* passes.
FairSpec == Spec /\ WF_vars(SpCB) /\ WF_vars(Daemon) /\ WF_vars(Tick)

\* Both tasks even finish their work within the tick it came up in.
Prompt == m = "idle" /\ d = "idle" /\ cmds = <<>> /\ ~(active /\ left = 0)
PromptSpec == Init /\ [][NewSetpoint \/ SpCB \/ Daemon \/ (Prompt /\ Tick)]_vars

-----------------------------------------------------------------------------
(* Properties.                                                             *)

TypeOK ==
    /\ sp \in BOOLEAN /\ validSp \in BOOLEAN /\ told \in BOOLEAN
    /\ note \in BOOLEAN /\ active \in BOOLEAN
    /\ age \in 0 .. ValidFor /\ left \in 0 .. ValidFor
    /\ m \in {"idle", "changePeriod", "reset", "write", "announce"}
    /\ d \in {"idle", "expired", "cleared", "invalid", "send"}
    /\ cmds \in Seq(Command) /\ Len(cmds) <= CmdLength

\* The callback will run: the timer runs, will be started, or has just expired.
CallbackDue == active \/ cmds # <<>> \/ d = "expired"

\* There is never a setpoint that nothing will remove, wherever the two tasks
\* interrupt each other and whichever call to the timer fails: the copter can not
\* fly on forever on the last frame it received.
SetpointExpires == sp => CallbackDue

\* Once nothing is going on any more the setpoint is gone and so it was announced,
\* although both tasks write validSp, RcSpHandl_SpCB announces a setpoint it did
\* not get, and the announcements of the two tasks can overtake each other.
QuietIsTold == ~CallbackDue /\ d = "idle" /\ m = "idle" => ~sp /\ ~validSp /\ ~told

\* Without frames the setpoint goes, and everybody is told.
NoFramesNoSetpoint == <>[][~NewSetpoint]_vars => <>[](~sp /\ ~told)

\* "the timer callback will remove the item from the queue when it expires"
\* (setpoint_handler.c:143): an item that is removed by the callback had expired.
\* PromptSpec shows that this does not depend on a daemon that is late.
RemovedWhenExpired == [][d = "expired" /\ d' = "cleared" /\ sp => age >= ValidFor]_vars
=============================================================================
