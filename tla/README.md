# QuadSys in TLA+

QuadSys is a quadrocopter (`src/QuadFC`, C on FreeRTOS) and its ground station
(`src/QuadGS`, C++ modules). This directory holds TLA+ models of its parts, the
TLC configurations that check them on small instances, and proofs that TLAPS
checks for every value of the constants.

Run `tlc -config X.cfg M` for the runs of the table below and `tlapm
M_proofs.tla` for the proofs.

## The system

### Parts, state and operations

| part | code | state it keeps | operations | what makes it correct |
|---|---|---|---|---|
| main control task | `QuadFC_MainTask.c` | arming, disarming and setpoint counters, the IMU flag, the regulators and outputs it drives | one cycle per period: by mode, then the events, then the delay; `main_fault` | motors only turn when armed, driven by one regulator that has its estimate; every mode that should pass, passes |
| flight mode handler | `flight_mode_handler.c` | the flight mode | change (a table of allowed changes), fault, request callback, fault callback, announcement | the mode goes through arming to armed and through disarming to the ground |
| control mode handler | `control_mode_handler.c` | the control mode | request callback, announcement | the regulator follows it |
| regulators | `ThreeAxixPIDControl.c`, `pid.c` | the mode and the PIDs that are on | on, off, switch, execute | never two at once, none on the ground |
| state estimator, IMU | `state_estimator.c`, `mpu6050.c` | which estimates are valid | init, read, estimate | no regulator on a missing estimate |
| motor outputs | `PwmMotorControl.c`, `Titan_Pwm.c` | one-shot timer outputs | disable, idle, update | no pulse on the ground |
| stick handler | `Satellite_SetpointHandler.c` | latches of flight and control mode, time of the last frame | frame, latch callbacks | what the pilot wants is asked for until it happens, and once |
| setpoint handler | `setpoint_handler.c` | one-place queue, timer, `validSp` | set, get, timer callback | a setpoint expires; the end is announced |
| event mesh | `event_handler.c`, `event_circular_buffer.c` | queues, subscription tables, callbacks, wait buffer | send, receive, wait, (un)subscribe | a message reaches its receivers once, is freed once |
| messages, pool | `message_base.c`, `MessagePool.c` | blocks, reference to the pool | create, clone, delete | no leak, no double free |
| communication tasks | `communication_tasks.c` | transmission number, retries, waiting flag | send and wait for the acknowledgement, receive and acknowledge, route | at most one outstanding, in order |
| serial manager (GS) | `SerialManager.cpp` | FIFO of messages, message number, retry counter, deadlines | the same at the other end | the same |
| SLIP, CRC | `slip_packet.c`, `crc.c`, `SlipPacket.cpp` | parser state, bytes kept for the next call | parse, pack | every frame of a stream is delivered |
| parameter master and handlers | `paramMasterHandler.c`, `paramHandler.c`, `parameters.c` | registered handlers, busy flag, address in memory, a handler's tree | set, get, save, load | one action at a time; a load restores a save |
| log master and handlers | `logMaster.c`, `logHandler.c`, `log.c` | entries, sampling flags | mapping, set, samples | as the parameters |
| satellite receiver | `satellite_receiver_task.c` | frame types and confidence, merged channels | decode, lock, bind | only complete frames of a known layout become setpoints |
| HMI, service, application log, debug, RC conversion and rover | `led_control_task.c`, `ServiceTask.c`, ... | blink patterns, text | handlers of messages | none that another part depends on |
| GS base, router, FIFO, CLI, viewer, tracker | `QGS_Module.cpp`, `ThreadSafeFifo.hpp`, ... | queues and command trees | delivery between modules | bounded, nothing lost silently |
| drivers, FreeRTOS, generated messages | `QuadFC/Drivers`, `QuadFC/OS`, `BaseComponents/Messages` | vendored or generated | | modelled from their use only |

### How they interact

Every task of the flight controller owns one *event handler*: a queue and a
table of callbacks per message type. The handlers subscribe with each other; a
broadcast is put, without waiting, in the queue of every handler that
subscribed to its type, the sender's own included, and is dropped where the
queue is full. The main control task, flight mode handler, control mode handler,
stick handler and setpoint handler all share the handler `FC_Ctrl`: their
callbacks run in the main task, at the end of its cycle. A handler with a *port*
passes broadcasts on to the serial link, over which the ground station and the
flight controller exchange one message at a time, each with a number that its
acknowledgement repeats.

### What is hard

* FreeRTOS preempts by priority. The main task has the highest one, yet it blocks
  in the I2C transfer of the IMU in the middle of an armed cycle, and there, as
  in the delay at its end, other tasks send messages, the receiver sends frames
  and the timer daemon lets the setpoint expire.
* Nothing confirms a message on the mesh. The stick handler judges the sticks by
  a latch that it sets when it *asks* for a mode and that a broadcast corrects
  later. Full queues drop that broadcast like every other message.
* Counters live in the task, modes come and go by events, so that a counter can
  carry over into the next arming or the next flight.
* The timer callback of the setpoint runs in a task of low priority that can be
  interrupted between each two of its statements.
* The serial link loses and repeats; both ends time out and retry.

* Nothing waits for room in a queue of the mesh, and everything that can go wrong in
  it is logged by a message of the mesh.
* A save, a load or a get of the parameters is a long chain of messages, reads and
  writes, which a loss, another command or the power supply can cut anywhere.

The hazards are listed with their lines in `PROJECT.json`, with the properties that
cover them or the reason why none does.

## Modules

| module | models | constants |
|---|---|---|
| `FlightLifecycle` | abstract: flight mode and motor pulses as seen from outside | |
| `FlightControl` | `FC_Ctrl`: main task, mode handlers, regulators, sticks, its queue; receiver, ground station, pilot and sensors as environment | `ArmCycles`, `DisarmCycles`, `SpTimeoutCycles`, `QueueLength`, `MaxArrivals`, `Sticks`, `GsModes` |
| `MCFlightControl` | stick positions for TLC | |
| `FlightControl_proofs` | theorems about `FlightControl` | |
| `SetpointHandler` | the setpoint queue, its timer, the timer daemon and its command queue | `ValidFor`, `CmdLength` |
| `SetpointHandler_proofs` | theorems about `SetpointHandler` | |
| `SerialLink` | both ends of the serial link: ComRx and ComTx of the flight controller, the writer, io and module threads of the serial manager; the wires | `NrRetransmitt`, `NrRetries`, `FcNrs`, `GsNrs`, `EventLength`, `FifoLength`, `WireLength`, `FcKinds`, `GsKinds`, `Messages`, `Mishaps` |
| `MCSerialLink` | kinds of messages for TLC | |
| `SerialLink_proofs` | theorems about `SerialLink` | |
| `EventMesh` | the mesh: sending, broadcasting, receiving, the port queue, the log entries about what is lost, the memory of messages | `Order`, `Types`, `Subs`, `AppLog`, `Text`, `Tx`, `Occasions`, `Replies`, `QueueLength`, `StackDepth`, `MaxSends` |
| `MCEventMesh` | five tasks with their subscriptions and sends for TLC | |
| `EventMesh_proofs`, `EventMeshOrder_proofs` | theorems about `EventMesh`: ownership and depth, order | |
| `SlipParser` | pure: the SLIP frame and the receiver's state machine | `Boundary`, `Blank`, `Escape`, `Escaped`, `MinFrame`, `FrameMax` |
| `ParamMaster` | the parameter master, the handlers it asks, the memory, the ground station's end; power losses, failed writes, lost messages | `Handlers`, `Pieces`, `Values`, `Default`, `Size`, `Stop`, `OldSaves`, `Torn`, `MaxCommands`, `MaxFaults` |
| `MCParamMaster` | trees, sizes and an older save for TLC | |
| `ParamMaster_proofs`, `ParamDumps_proofs`, `ParamLoads_proofs` | theorems about the parser and `ParamMaster`; about gets and saves; about loads | |

### FlightControl

One action is what the main task does between two points where other tasks can
run or its behaviour branches: `Startup` and `Calibrated` (initialisation, around
the gyro calibration), `Cycle` with one disjunct per kind of case of the switch over
the flight mode (`LeaveCycle` for the modes that are left at once, `IdleCycle`,
`ArmingCycle`, `ArmedSetpoint`, `DisarmingCycle`), `ArmedControl` (the rest of an armed cycle
after the I2C transfer), one action for each type of event (`Handle...`),
`EventsDone`, and `Wake` after the delay. An event action takes the message from the
queue and runs every callback `FC_Ctrl` registered for it, in the order of the code,
with all the messages they send in turn: a change of mode is announced to the
mesh, so also to the queue of `FC_Ctrl` itself. The environment acts only where the
main task is `Blocked`.

* The mode is the value in the flight mode handler. `ChangeAllowed` is the table of
  `FMode_ChangeFMode`; a fault needs no permission.
* `ctrl` has the mode the regulator object is in and the set of modes whose PIDs
  are on. `Ctrl_Off` only reaches the PIDs of the object's own mode, as in the
  code. `valid` holds the estimates of the state vector. It is what the last
  successful `StateEst_getState` left, which matters when the next one fails.
* `pulse` is what the one-shot timer puts out in this period: each write of the
  outputs sets it, the next period begins with none. Duty cycles are abstracted
  to *idle* and *thrust*.
* Sticks are a record of throttle low or not, flap and gear position: all that
  the stick handler's decisions read. Any position of `Sticks` can follow any
  other. `sinceFrame` is what is left of the tick counts it compares.
* `sp` says whether the setpoint queue holds one. `SetpointHandler` is the
  detail.
* `satQuiet` is the receiver's own copy of the mode, which follows late: frames
  are sent unless it is init or config.
* The ground station's requests are those `dbgModule` lets through; the
  parameter master's fault can come at any time.
* `dwell`, `bare`, `faulted` and `lost` are history variables. No guard reads them.

The queue holds `QueueLength` messages. All messages for which `FC_Ctrl` has a
callback that changes one of these variables are in the model; parameter, log and
other messages, whose callbacks change nothing here, are not. They would only
fill the queue, and the model lets the queue overflow without them.

### SetpointHandler

The main task's steps (`SpCB`) and the daemon's (`Daemon`) are split where one of
them can interrupt the other: between the two timer commands, before the
write of the setpoint, before the announcement; in the callback, before the
queue is emptied, `validSp` is cleared, the message is made and is sent. The main
task preempts the daemon anywhere. The daemon runs only when the main task is
blocked (`MainBlocked`): waiting for the next event or, for at most one tick, for
room in the command queue. Commands carry their age, because FreeRTOS counts a
timer from the tick at which the command was *sent*.

All senders of setpoints use the same priority, so the test that keeps a setpoint
of higher priority never refuses one and is not in the model. The one tick with
which the timer is created never shows, because a reset follows the change of
period. The daemon may be late by any time in `Spec`; `PromptSpec` makes it as
prompt as its priority allows, to show that the race of `setpoint_race` needs no
late daemon.

### SerialLink

Both ends stop and wait, but in different ways. The ComTx task of the flight
controller blocks in `Com_TxSend` until the acknowledgement comes, a second has
passed, or the attempts are used up; the acknowledgements *it* owes go through the
port queue it would empty meanwhile. The serial manager never blocks: its
writer thread serves one thing per wake-up of the semaphore `mDoSend`,
acknowledgements first, then a message to be sent again, then a new one if no
answer is due.

* `TxIdle`, `TxSend`, `TxAck`, `TxWrongAck`, `TxTimeout` are ComTx between two
  waits; any event that does not acknowledge, a wrong number too, makes the next
  attempt (`Retransmitt`). `FcReceive` and `FcReceiveBad` are ComRx for one frame:
  it acknowledges, gives a broadcast the ground station's address (`Retarget`) and
  sends the frame on, which takes what is not for itself back to the port queue.
* `GsReceive` is `messageHandler`, `Process` and `Route` the module thread with
  an acknowledgement and with any other message, `GsTimeout` the timer.
  `Writer...` are the branches of `doWrite` up to the return of the write, and
  `Save` is the assignment to `mLastMsg` after it: in between the module thread
  may already process the acknowledgement.
* `sending`, `lastMsg` and `hand` are empty or hold one message.
* The sequence number before the modulo (`seq`), the crossings of a message
  (`hops`), `fcGot` and `gsGot` are history. No guard reads them.
* The wait for `mPortReady` is the room on the wire. Bytes are not modelled: a
  frame arrives, is lost or is damaged; the ground station drops a damaged frame
  without a word (`SerialPort::readCallback`), the flight controller asks for
  another one.
* `Mishaps` bounds lost and damaged frames, and the waits of the flight controller
  that end while the answer is still under way: a second is long for the other
  side. Without that bound and with few numbers, `AckMeansReceived` would be false
  for a reason the code is safe from in practice: acknowledgements older than all
  255 numbers.
* Not modelled: a second operation of the same thread in flight, such as a
  timer whose handler was already queued when it was cancelled; opening, closing and
  changing the port; `transmission` of the link test.

What the model makes visible beside the properties, for whoever changes this code:
`mRetries` is not reset by success, so a message can get fewer retries than the one
before left over (`SerialManager.cpp:358`); an acknowledgement processed before `Save`
is lost and leaves `mLastMsg` without a timer (`SerialManager.cpp:395`); a message in
`mOutgoingFifo` whose wake-up came while an answer was due waits for the next event
(`SerialManager.cpp:370`); one acknowledgement too many makes each later message
of the flight controller be sent twice.

### EventMesh

Each task has the stack of its calls into the mesh (`calls`), the innermost first. One
action is one call up to the next access to a queue, which is where another task can
come in between: `SendInternal`, `SendExternal` and `EndBroadcast` end a send,
`SendClone` is one round of the loop of `Event_SendBCInternal`, `Receive` and
`ReceiveExternal` take a message and call a callback, `CallbackSends` is what the
callback sends in turn, `CallbackEnds` the `Msg_Delete` of the loop that called it.
`TaskSends` is a send outside of callbacks.

* A message is the task that created it and a number; `heap` holds those in memory.
  `Fields` are type and destination, and for a clone the message it is a clone of.
* `Report` is `LOG_ENTRY` about a lost message: an entry is itself a message, created
  and sent, in a call on top, before the lost one is deleted (`Delete`). When the
  queue of the log is full too, the loss of the entry is reported in the same way.
  `StackDepth` calls fit on the stack; one more, and the stack overflow hook
  stops everything (`halted`).
* ComTx handles its own queue while it waits for an acknowledgement in the port
  function, so a callback can run inside `transmit` (`Listens`). `SerialLink` says what
  it waits for; here the wait ends at any time.
* What tasks and callbacks send is a parameter: the announcements of modes are the
  broadcasts to everyone, requests the broadcasts in the flight controller, a received
  message goes to one handler or back to the port, a log entry to the log.
* `arrived` and `abandoned` are history. No guard reads them.

The code has three operations that the model leaves out because nothing of this
program uses them: subscribing after the scheduler started (all callbacks are
registered before, so the tables copied by `Event_InitHandler` are final), the
buffer of `Event_WaitForEvent` (its only caller asks for no buffering), and an event without
a callback (a handler subscribes by registering one). A message pool exists, but
messages come from the heap: `Msg_CreateFromPool` does not mark those of a pool
(`message_base.c:41`), and only the log master creates one. Running out of heap stops
the program (`vApplicationMallocFailedHook`); the heap has no size in the model.

What the model makes visible: a broadcast to everyone of which one clone met a full
queue is neither sent to the ground station nor freed (`event_handler.c:329`); these
are the only lost memory (`OneOwner`, `EndsClean`). And the loss of a log entry is
logged, one call deeper each time, until the log task takes an entry from its queue
or the stack is full: the main task has a higher priority than the log task, so for
its own sends it is the stack (`OverflowOnlyByLogs` says that nothing else can
do this).

### ParamMaster

The parameter master runs in the service task. `Accept` is the check of `actionOngoing` that
every command meets; `HandleParamSet`, `HandleGet`, `HandleSave` and `HandleLoad` are the branches of
`ParamMaster_HandleParamMsg`. A load is a loop over octets of the memory: `LoadMore` is one
octet, `LoadPacket` one that completes a packet, `LoadFails` any of the errors, all with the
parser of `SlipParser`. `HandleFcSet`, `HandleFcGet`, `HandleFcSave`, `HandleFcSaveFull` and
`HandleFcSaveFails` are `ParamMaster_HandleParamFcMsg` with the answer of a handler, and
`PhSet`, `PhGet` and `PhSave` are the handler. `GsWrite`, `GsSave`, `GsLoad`, `GsRequest` and
`GsProcess` are the ground station's module. `PowerLoss` and `PowerLossInWrite` restart all but the
memory, whose last write may be torn; `Lose` drops a message that meets a full queue.

* A tree is an ordered list of pieces, each as much as one message holds, with one
  value for all of it. Paths, types and the conversion of values are left out.
* The memory is real: cells that hold octets of a packet, frame boundaries or
  what was never written; packets have the size of their value, so that a new save
  leaves the end of an older one behind and in between. An octet knows its packet and
  its place in it; the CRC accepts the octets of one packet, complete and in order.
  An escape octet is a cell like the boundary, the same in all packets, and the octet behind it
  must be a replacement. Two things are simpler than in the code: which octets are escaped depends on the size
  of the data and not on the packet (`Escaped`), and an escape octet counts as a cell of the payload.
* `SlipParser` is the parser called with one octet at a time, as the load does. The serial
  link calls it with more; those calls also push the rest of the input back to its buffer and are
  not modelled.
* The queue of the service task is two queues here, of commands (`toMaster`) and of
  answers (`inbox`), from which it takes in any order: that has every order of the one
  FIFO, and more.
* A write by the ground station is one message with the values of one handler.
* `saved`, `whole`, `cut`, `early`, `refused`, `restarts`, `lost` and `load.stale` are
  history. Guards read only those that are bounds.

What the model makes visible: the answer to a *set* takes the way out of a failed save,
so one that comes in the middle of a get or save of another request ends it and
frees the master (`paramMasterHandler.c:467`); a get or save before any handler is known
leaves the master busy for good (`:317`, `:329`); a load that is given up because
the packet is too long leaves the parser in the middle of a frame, where the next load starts
(`:259`); a packet that does not fit in the memory is not deleted (`:443`); a save
that was cut can leave a mix of new and older packets that a load accepts, if their numbers
fit; a ground station whose request was refused by a busy master refuses every new
one itself (`Parameters.cpp:305`). And a save leaves out one octet behind each packet
(`paramMasterHandler.c:438`): what an older save left there is read by the load, and if it is an escape
octet, the boundary of the next packet is an error and the complete save cannot be
loaded. `LoadRestoresTheSave` excepts this octet, and `LoadRestores` proves that nothing else
in the memory fails a load. The properties name these cases as exceptions, and
hold in all others.


## Runs

| run | shows | bounds |
|---|---|---|
| `flight_safety` | `TypeOK`, `GroundedIsSafe`, `ThrustIsRegulated`, `LatchesFollow`, and that `FlightControl` implements the safety of `FlightLifecycle` | counters of 1 and 2 cycles, a queue of 3, one arrival between two wake-ups, all modes the ground station can ask for, two stick positions that differ in everything |
| `flight_liveness` | `DisarmWins`, `NoSetpointNoFlight`, and `FlightLifecycle!Spec` with its progress | the same, two positions of the flap, two requests of the ground station |
| `flight_arming` | **violated**: an arming that follows an interrupted one is shorter than the second of the comment (`QuadFC_MainTask.c:272`) | `ArmCycles` 2 |
| `flight_grace` | **violated**: the setpoint counter survives a flight, the next flight ends at its first cycle without setpoint (`QuadFC_MainTask.c:292`) | |
| `flight_fault_stops` | **violated**: a cycle that ran `main_fault` while armed ends with a control pulse (`QuadFC_MainTask.c:88` says motors are stopped) | |
| `flight_latch` | **violated**: when the queue is full the announcement of a mode is lost, and the latch stays wrong (`Satellite_SetpointHandler.c:193`) | a queue of 3 |
| `setpoint` | `TypeOK`, `SetpointExpires`, `QuietIsTold`, `NoFramesNoSetpoint` | a setpoint valid for 3 ticks, 3 commands |
| `setpoint_race` | **violated**: the callback of an expired setpoint removes a new one (`setpoint_handler.c:143`) | as `setpoint`, 5 commands as in FreeRTOSConfig.h |
| `link` | `TypeOK`, `AcksHaveWakeups`, `EchoEnds`, `AckMeansReceived`, `LinkQuiets` | one message of either side, among them the broadcast that crosses three times and so makes both sides send; two mishaps; two attempts, one retry, two numbers, queues of 2, FIFOs of 1 |
| `link_ack` | **violated**: a late acknowledgement of an earlier message releases the one now sent, which is lost (`SerialManager.cpp:394` promises it is sent again) | two messages, one mishap |
| `params` | `TypeOK`, `WedgedOnlyByLoss`, `ParserBetweenLoads`, `GetInOrder`, `OngoingIsAnswered`, `SavedIsTheTree`, `LoadRestoresTheSave`, `EveryActionEnds` | two handlers with trees of two messages and one, values of two lengths, sizes 2 and 5, the longer with an escape octet, a memory of 18 cells, in which the longest save does not fit, empty or with an older save; the load of the start, two commands of any kind, one fault (328 864 states) |
| `mesh` | `TypeOK`, `OneOwner`, `GsAfterAll`, `OverflowOnlyByLogs`, `OnceInOrder`, `EndsClean` | five tasks: the main task, which subscribes to what it broadcasts, another subscriber, both ends of the link, the log; three messages beside the log entries, queues of 1, stacks of 5 (287 609 states) |

The bounds are small because the properties turn on the order of things. A counter
of 1 distinguishes first, last and only cycle when compared with 0 and the limit;
the setpoint counter gets 2, so that there is a cycle of grace between the first
cycle without setpoint and the fault. A queue of 3 is filled by one arrival of each
kind plus the announcements, so full queues, lost announcements and every
interleaving of two requests in the queue occur; the theorems cover the queue of
the code (`FlightControl.tla` names it `QueueLength`). Of other
tasks of `FlightControl`, `MaxArrivals` messages reach the queue between two wake-ups: the main task
drains its queue each cycle, and frames come every 11 or 22 ms.

`DisarmWins` was also run once with all requests of the ground station, three stick
positions and a queue of 5 (796 000 states). It needs its premise that
`FC_Ctrl` missed none of its own messages: with a queue of 3 and without the premise
a lost announcement leaves the latch at, for example, *init* while the controller is
in fault, and the sticks have no effect ever after. `flight_latch` shows the cause.

The memory of `params` is as small as a memory can be in which a save of short values fits
with room to spare and one of long values does not; the older save has its escape octet just where a new save of short values leaves a cell out; with two commands and the load
at the start every pair of actions meets in every order, and one fault falls anywhere in them. In `mesh` a
queue of 1 is full after one message, so that every send can fail in every place; a
stack of 5 is the deepest that calls other than reports of lost log entries reach (`MeshAssumption`
asks for at least that), so that one more overflows; three messages are enough for a
broadcast, a reply from inside its delivery and a third that fills a queue.

### Fairness

`FlightControl!FairSpec`: the main task has the highest priority and always runs
again after its delay, so `WF(MainTask)`, as one action: its cycle goes round,
whatever branch it takes; no outcome of a sensor read or of a request is assumed.
`SF(SatFrame)`: the receiver sends frames again and again, as it does every 11 or
22 ms while it may; strong, because the main task is not always blocked when a frame comes.
`SF(SatReceive)`: its task reads its own events between two frames. The pilot, the
ground station, faults and the expiry of setpoints are never fair: they may act or not.

`SetpointHandler!FairSpec`: time passes, the main task's started callback goes on,
and the daemon gets to run when the main task is blocked for good (weak fairness
each).

`SerialLink!FairSpec`: `WF(Threads)`, the tasks of the flight controller and the threads of the ground
station as one action: while one of them has something to do, some one goes on. That a particular one does is
not needed, because `LinkQuiets` says that all they do together ends. Sends, losses and damage
are not fair.

`ParamMaster!FairSpec`: `WF(Tasks)`, all tasks as one action: the processor does not idle
while one of them has something to do. Which task runs is left to the scheduler, so a
load of the service task may make everyone else wait. Commands, faults and the
announcement of handlers are not fair.

`EventMesh!FairSpec`: `WF(Work(h))` for each task: calls go on, and a message in a queue is received
in the end. Every task of the program blocks again and again, the ones of high
priority at the end of each cycle, and so lets the others run. That a task sends of its
own, or that a callback answers, is not assumed.

Deadlock is checked in all runs of `FlightControl` and `SetpointHandler`: nothing in
them may stop. `SerialLink`, `ParamMaster` and `EventMesh` have `CHECK_DEADLOCK FALSE`, because
what their environment sends is bounded: when all of it is used up and answered they are
quiet, and the mesh may have halted.

## Proofs

TLAPS checks, for all values of the constants that satisfy the named
assumptions (`FlightControlAssumption`, `SetpointAssumption`, `SerialLinkAssumption`, `ParamAssumption`,
`CellAssumption`, `FrameAssumption`, `MeshAssumption`, `OrderAssumption`: positive bounds, sets of sticks, modes, pieces and
sends of the right kind, frames that fit in the parser's buffer, data that starts with no control octet and has a replacement behind
each escape octet, octets of the data that are no control octets, older saves numbered and in the memory, a stack of five calls, a handler that
registers once and a log that subscribes to no broadcast, as `main.c` and `AppLogHandler.c` have it):

| theorem | says |
|---|---|
| `FlightControl_proofs!TypeCorrect` | `Spec => []TypeOK` |
| `FlightControl_proofs!GroundedAlwaysSafe` | `Spec => []GroundedIsSafe` |
| `FlightControl_proofs!ThrustAlwaysRegulated` | `Spec => []ThrustIsRegulated` |
| `FlightControl_proofs!ImplementsLifecycle` | `Spec => LifecycleSafety` |
| `FlightControl_proofs!LatchesAlwaysFollow` | `Spec => []LatchesFollow` |
| `SetpointHandler_proofs!TypeCorrect` | `Spec => []TypeOK` |
| `SetpointHandler_proofs!SetpointAlwaysExpires` | `Spec => []SetpointExpires` |
| `SetpointHandler_proofs!QuietIsAlwaysTold` | `Spec => []QuietIsTold` |
| `SerialLink_proofs!TypeCorrect` | `Spec => []TypeOK` |
| `SerialLink_proofs!AcksAlwaysHaveWakeups` | `Spec => []AcksHaveWakeups` |
| `SerialLink_proofs!EchoAlwaysEnds` | `Spec => []EchoEnds` |
| `SerialLink_proofs!AckAlwaysMeansReceived` | `Spec /\ []Unwrapped => AckMeansReceived` |
| `ParamMaster_proofs!TypeCorrect` | `Spec => []TypeOK` |
| `ParamMaster_proofs!OnlyLossWedges` | `Spec => []WedgedOnlyByLoss` |
| `ParamMaster_proofs!ParserKeepsABoundary` | `Spec => []ParserBetweenLoads` |
| `ParamMaster_proofs!WaitsForAnAnswer` | `Spec => []OngoingIsAnswered` |
| `ParamDumps_proofs!SavedTree` | `Spec => SavedIsTheTree` |
| `ParamDumps_proofs!GetsInOrder` | `Spec => []GetInOrder` |
| `ParamLoads_proofs!LoadRestores` | `Spec => LoadRestoresTheSave` |
| `EventMesh_proofs!TypeCorrect` | `Spec => []TypeOK` |
| `EventMesh_proofs!OneOwnerHolds` | `Spec => []OneOwner` |
| `EventMesh_proofs!GsAfterAllHolds` | `Spec => []GsAfterAll` |
| `EventMesh_proofs!OverflowOnlyByLogsHolds` | `Spec => []OverflowOnlyByLogs` |
| `EventMeshOrder_proofs!EachOnceInOrder` | `Spec => OnceInOrder` |

*Flight, safety.* `GroundedIsSafe` is not inductive. `Ctrl_Off` turns off the PIDs
of the object's mode only, so one has to know that no other is on
(`OneRegulator`). On the way to the ground the regulators are turned off while
disarming, but an armed cycle must not find itself there: `ArmedInv` says that
between the two halves of an armed cycle the mode is armed, or fault by
`main_fault`. `OrdersIn` says that no request in the queue asks for armed, fault or
disarmed, so that these modes are only entered by the task itself. `SafetyInv`
is the conjunction; each action preserves each part. The refinement of
`FlightLifecycle` maps the motors to `pulse` and the obligation of an armed period to
the second half of the armed cycle, and maps each action to one abstract action or
a stutter with the help of the same invariant.

*Flight, latches.* `LatchesFollow` is not inductive either: the message that is
about to correct the latch may be a request, which is then refused, or not be the
last word. `LatchInv` follows the *last* message in the queue that informs the latch:
either it is a request, whose handling sends the mode as it then is, or an
announcement of the present mode; with none, the latch is right. It is preserved by
every handler, since each that changes the mode also announces it behind
everything in the queue.

*Setpoint.* `SetpointExpires` says that a setpoint in the queue has a callback due:
the timer is active, or a reset is among the commands, or the callback is about to
empty the queue. That the main task has a command queued from its first command to its
announcement (`MainInv`) is what keeps it inductive: the daemon cannot empty the command
queue while the main task is in the middle. `ToldInv` extends it along the callback to
`validSp` and to the announcement.

*Serial link.* `TypeOK` needs that ComTx waits only with attempts left (`TriesInv`).
`AcksHaveWakeups` is inductive given the types. `EchoEnds` follows from `HopInv`, which
bounds the crossings of a frame by the place it is in and by whether it is still a
broadcast: none in the port queue, one at the ground station, two on the way back,
where it stops being one. `AckMeansReceived` is proved as long as the flight
controller has not used all of its numbers (`Unwrapped`: `fcSeq < FcNrs`, as the last one is
followed by the first). `AckInv` says that whatever bears an acknowledgement's number, on
the line, in a fifo or in the semaphore, bears one the ground station received, and that
what is sent has no higher number than `fcSeq`. The hypothesis is needed: with one number,
two messages and two mishaps TLC finds an old acknowledgement taken for a new frame. The
code counts to 255, so an acknowledgement has to be 255 messages late; the run `link_ack`
with two numbers and one message stays below it.

*Parameters.* One lemma says what a call of the parser leaves (`Returned`): nothing in the buffer, or
the boundary that ended a frame and nothing else; from it comes `ParserBetweenLoads`, with
`Loading` (a load that is going on has no outcome yet). `WedgedOnlyByLoss` needs that a
question or answer under way means that a handler is known (`Known`): otherwise the
master would ask no one next. `OngoingIsAnswered` needs the same of what the ground
station has under way (`GsKnown`). `IInv` is the conjunction.

*Dumps.* `DumpInv` says what a dump amounts to at every point of it. `registered` has each handler
once. Unless a request was cut short, one action is under way at a time (`OneAtATime`), and
the place of the master among its handlers and of the helper in its tree (`PlacedGet`,
`PlacedSave`) fixes what has been dumped: all trees before it and the tree of the handler up to the
piece (`Saving` for the memory, `OnTheWay` and `Got` for what is on the link and what the
ground station holds). So no induction over the tree is needed: each step adds one piece, and the
end of one tree is the start of the next. From it follow `SavedIsTheTree`, with the values of
a set that comes in the middle of a save (which cuts it short), and `GetInOrder`.

*Loads.* `Restorable` says that there is a start `st[i]` for the frame of each packet of `saved`, such that
the frames lie in the memory with one cell between them (`Laid`), that a save which goes on will write
behind the last one (`Goes`), and that a load which reads a complete save is somewhere in the
next packet it expects, the parser with exactly as much of it as was read (`Reads`): at the start,
before or behind the cell left out (`Between`), or behind octet `k` of the frame (`Inside`).
The starts are a witness and no variable: a packet appends one, everything else keeps them. What is in the
cells left out, and behind the last packet, is arbitrary. In `Between` it is where a load can fail: the
parser has that cell in its payload, and one that is not an escape octet is dropped with the
boundary that follows. A packet written over an older save keeps `Laid` because a write of
a packet changes its own cells only (`Kept`), and a torn write empties `saved`. TLC
checked `Restorable`, with the starts given, before it was proved.

*Mesh.* Ownership is inductive only together with what each call may be doing at its depth
(`Stacks`): a callback at most second, a broadcast or a send to the port at most third,
a send, report or deletion at most fourth, or about a log entry. That gives
`OverflowOnlyByLogs` at once, and that a message in `abandoned` is a broadcast to
everyone. For `GsAfterAll` it also says that a broadcast with `result` has
come to all subscribers up to `served`, and that a send to the port of one to everyone has come
to all. `Known` says that every message held was created, so that a new one is new. The
steps are proved from lemmas about the places of messages: a step moves one message
from one place to another, adds a new one, or frees one.

*Order.* `OnceInOrder` needs to know, for each message that a task is about to deliver, where it has still to
come to, and that nothing newer of that task is there already (`Ready`): for a send its
destination, for a broadcast the subscribers beyond `served`. A task puts only messages of its own in
queues, and whatever it creates is newer than all that arrived (`Arrived`). What could break it is a call
in the middle of another one: only the innermost call of a stack is a send, and above a broadcast there
are only reports, deletions and sends to the log (`Nested`), which subscribes to nothing that is
broadcast. If a callback ran inside of a broadcast, or a log entry were broadcast, the copies
that remain would come late.

Only model-checked: the liveness properties (`DisarmWins`, `NoSetpointNoFlight`,
`NoFramesNoSetpoint`, `LinkQuiets`, `EveryActionEnds`, `EndsClean` and the progress of `FlightLifecycle`; TLAPS does not
do fairness and ENABLED) and the violated properties.

## Not modelled

Of the modelled parts: the arithmetic of filters, PIDs and motor allocation, duty
cycles, scaling of the sticks, log and parameter callbacks of `FC_Ctrl`, running
out of memory (the hook stops the program), the LED's own queue. Of the rest: see
`PROJECT.json`, component by component. Most of the repository's lines are vendored: the
drivers and the headers of the processors and two copies of FreeRTOS. They are not modelled, but
taken by what the code uses of them.

## What remains

All modules above are complete with respect to their tables. Not yet written, in the order of
what they would add:

1. What the ground station may keep for ever in `mLastMsg` and `mOutgoingFifo`, beside the two
   cases named above; stop and wait as an abstract specification of `SerialLink`.
2. `SlipParser` for calls of several octets, and the parser of the ground station.
3. The satellite receiver: decoding, confidence in the type of a frame, merging of
   channels.
4. Logs and the rover's main task, as far as they hold more than the above.
