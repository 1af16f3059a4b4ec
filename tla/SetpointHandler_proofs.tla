----------------------- MODULE SetpointHandler_proofs -----------------------
(***************************************************************************)
(* Proofs about SetpointHandler, for every validity time and every length  *)
(* of the timer command queue of at least two.                             *)
(***************************************************************************)
EXTENDS SetpointHandler, TLAPS

-----------------------------------------------------------------------------
(* Type correctness.                                                       *)

\* A command appended where there is room keeps the queue in its type.
LEMMA AppendCommand ==
    ASSUME NEW q \in Seq(Command), NEW c \in Command, Len(q) < CmdLength
    PROVE  /\ Append(q, c) \in Seq(Command) /\ Len(Append(q, c)) <= CmdLength
           /\ Append(q, c) # <<>>
  BY SetpointAssumption

\* So does taking one out.
LEMMA TailCommand ==
    ASSUME NEW q \in Seq(Command), q # <<>>
    PROVE  Tail(q) \in Seq(Command) /\ Len(Tail(q)) = Len(q) - 1 /\ Head(q) \in Command
  OBVIOUS

\* The tick ages every command and removes none.
LEMMA AgeCommands ==
    ASSUME NEW q \in Seq(Command)
    PROVE  LET r == [i \in 1 .. Len(q) |-> [q[i] EXCEPT !.age = Older(@)]]
           IN  r \in Seq(Command) /\ Len(r) = Len(q)
  <1> DEFINE r == [i \in 1 .. Len(q) |-> [q[i] EXCEPT !.age = Older(@)]]
  <1>1. ASSUME NEW i \in 1 .. Len(q)
        PROVE  [q[i] EXCEPT !.age = Older(@)] \in Command
    <2>0. q[i] \in Command
      OBVIOUS
    <2>1. q[i] \in Command /\ q[i].age \in 0 .. ValidFor
      BY <2>0 DEF Command
    <2>2. Older(q[i].age) \in 0 .. ValidFor
      BY <2>1, SetpointAssumption DEF Older
    <2> QED
      BY <2>1, <2>2 DEF Command
  <1>2. Len(q) \in Nat
    OBVIOUS
  <1>3. r \in [1 .. Len(q) -> Command]
    BY <1>1
  <1> QED
    BY <1>2, <1>3

\* While the main task sets the timer and the setpoint, a command of its own or of
\* an earlier setpoint is in the queue: the daemon only takes one from a full queue.
MainInv == m \in {"reset", "write", "announce"} => cmds # <<>>

\* Every variable keeps its type; in particular the command queue its length.
LEMMA TypeAndMain == Spec => [](TypeOK /\ MainInv)
<1>1. Init => TypeOK /\ MainInv
  <2> SUFFICES ASSUME Init
               PROVE  TypeOK /\ MainInv
    OBVIOUS
  <2>1. cmds \in Seq(Command) /\ Len(cmds) = 0
    BY DEF Init
  <2>2. 0 \in 0 .. ValidFor /\ 0 <= CmdLength
    BY SetpointAssumption
  <2> QED
    BY <2>1, <2>2 DEF Init, TypeOK, MainInv
<1>2. TypeOK /\ MainInv /\ [Next]_vars => TypeOK'
  <2> SUFFICES ASSUME TypeOK, MainInv, [Next]_vars
               PROVE  TypeOK'
    OBVIOUS
  <2> USE SetpointAssumption
  <2>1. CASE NewSetpoint
    BY <2>1 DEF NewSetpoint, TypeOK, timerVars
  <2>2. ASSUME NEW op \in {"changePeriod", "reset"}, NEW next \in {"reset", "write"},
               SendCommand(op, next)
        PROVE  TypeOK'
    <3>1. [op |-> op, age |-> 0] \in Command
      BY DEF Command
    <3>2. cmds' \in Seq(Command) /\ Len(cmds') <= CmdLength
      BY <2>2, <3>1, AppendCommand DEF SendCommand, CmdsFull, TypeOK
    <3> QED
      BY <2>2, <3>2 DEF SendCommand, TypeOK, timerVars
  <2>3. CASE SendChangePeriod
    BY <2>2, <2>3 DEF SendChangePeriod
  <2>4. CASE SendReset
    BY <2>2, <2>4 DEF SendReset
  <2>5. CASE GiveUp
    BY <2>5 DEF GiveUp, TypeOK, timerVars
  <2>6. CASE Write
    <3>1. cmds # <<>> /\ Len(cmds) \in 1 .. Len(cmds)
      BY <2>6 DEF Write, MainInv, TypeOK
    <3>2. cmds[Len(cmds)] \in Command
      BY <3>1 DEF TypeOK
    <3>3. age' \in 0 .. ValidFor
      BY <2>6, <3>2 DEF Write, Command
    <3> QED
      BY <2>6, <3>3 DEF Write, TypeOK, timerVars
  <2>7. CASE Announce
    BY <2>7 DEF Announce, TypeOK, timerVars
  <2>8. CASE Expire
    BY <2>8 DEF Expire, TypeOK, mainVars
  <2>9. CASE ProcessCommand
    <3>1. Head(cmds).age \in 0 .. ValidFor
      BY <2>9, TailCommand DEF ProcessCommand, TypeOK, Command
    <3>2. cmds' \in Seq(Command) /\ Len(cmds') <= CmdLength
      BY <2>9, TailCommand DEF ProcessCommand, TypeOK
    <3> QED
      BY <2>9, <3>1, <3>2 DEF ProcessCommand, TypeOK
  <2>10. CASE ClearQueue
    BY <2>10 DEF ClearQueue, TypeOK, mainVars, timerVars
  <2>11. CASE Invalidate
    BY <2>11 DEF Invalidate, TypeOK, mainVars, timerVars
  <2>12. CASE CreateMsg
    BY <2>12 DEF CreateMsg, TypeOK, mainVars, timerVars
  <2>13. CASE SendMsg
    BY <2>13 DEF SendMsg, TypeOK, mainVars, timerVars
  <2>14. CASE Tick
    <3>1. cmds' \in Seq(Command) /\ Len(cmds') <= CmdLength
      BY <2>14, AgeCommands DEF Tick, TypeOK
    <3>2. age' \in 0 .. ValidFor /\ left' \in 0 .. ValidFor
      BY <2>14 DEF Tick, Older, TypeOK
    <3> QED
      BY <2>14, <3>1, <3>2 DEF Tick, TypeOK
  <2>15. CASE UNCHANGED vars
    BY <2>15 DEF vars, mainVars, timerVars, TypeOK
  <2> QED
    BY <2>1, <2>3, <2>4, <2>5, <2>6, <2>7, <2>8, <2>9, <2>10, <2>11, <2>12, <2>13,
       <2>14, <2>15 DEF Next, SpCB, Daemon
<1>3. TypeOK /\ MainInv /\ [Next]_vars => MainInv'
  <2> SUFFICES ASSUME TypeOK, MainInv, [Next]_vars
               PROVE  MainInv'
    OBVIOUS
  <2> USE DEF MainInv
  <2>1. CASE UNCHANGED cmds /\ m' \in {m, "idle", "changePeriod"}
    BY <2>1
  <2>2. CASE NewSetpoint \/ Expire \/ ClearQueue \/ Invalidate \/ CreateMsg \/ SendMsg
                \/ UNCHANGED vars
    BY <2>1, <2>2 DEF NewSetpoint, Expire, ClearQueue, Invalidate, CreateMsg, SendMsg,
                      vars, mainVars
  <2>3. ASSUME NEW op \in {"changePeriod", "reset"}, NEW next, SendCommand(op, next)
        PROVE  cmds' # <<>>
    <3>1. [op |-> op, age |-> 0] \in Command
      BY SetpointAssumption DEF Command
    <3> QED
      BY <2>3, <3>1, AppendCommand DEF SendCommand, CmdsFull, TypeOK
  <2>4. CASE SendChangePeriod \/ SendReset
    BY <2>3, <2>4 DEF SendChangePeriod, SendReset
  <2>5. CASE GiveUp
    BY <2>5, SetpointAssumption DEF GiveUp, CmdsFull, TypeOK
  <2>6. CASE Write \/ Announce
    BY <2>6 DEF Write, Announce
  <2>7. CASE ProcessCommand
    <3>1. CASE m = "idle"
      BY <2>7, <3>1 DEF ProcessCommand
    <3>2. CASE CmdsFull /\ m \in {"changePeriod", "reset"}
      <4>1. Len(Tail(cmds)) = Len(cmds) - 1 /\ Len(cmds) >= 2
        BY <2>7, <3>2, SetpointAssumption, TailCommand DEF ProcessCommand, CmdsFull, TypeOK
      <4>2. Tail(cmds) # <<>>
        BY <4>1
      <4> QED
        BY <2>7, <4>2 DEF ProcessCommand
    <3> QED
      BY <2>7, <3>1, <3>2 DEF ProcessCommand, MainBlocked
  <2>8. CASE Tick
    BY <2>8, AgeCommands DEF Tick, TypeOK
  <2> QED
    BY <2>2, <2>4, <2>5, <2>6, <2>7, <2>8 DEF Next, SpCB, Daemon
<1> QED
  BY <1>1, <1>2, <1>3, PTL DEF Spec

\* The same without what the proof needs beside it.
THEOREM TypeCorrect == Spec => []TypeOK
  BY TypeAndMain, PTL

-----------------------------------------------------------------------------
(* The callback always comes.  The main task holds on to it by the commands *)
(* it has sent or found in the queue, which the daemon can not take while   *)
(* the main task runs; what is announced holds on to it unless the callback *)
(* is already past the point where it will take the announcement back.      *)

ToldInv == /\ validSp => CallbackDue \/ d = "cleared"
           /\ told => CallbackDue \/ d \in {"cleared", "invalid"} \/ (d = "send" /\ ~note)
           /\ d = "send" /\ note => CallbackDue
DueInv == SetpointExpires /\ ToldInv

\* Every action keeps a callback due for what it would take back.
LEMMA NextDue == TypeOK /\ MainInv /\ DueInv /\ [Next]_vars => DueInv'
  <1> SUFFICES ASSUME TypeOK, MainInv, DueInv, [Next]_vars
               PROVE  DueInv'
    OBVIOUS
  <1> USE DEF DueInv, MainInv, SetpointExpires, ToldInv, CallbackDue
  <1>1. CASE NewSetpoint
    BY <1>1 DEF NewSetpoint, TypeOK, timerVars
  <1>2. ASSUME NEW op \in {"changePeriod", "reset"}, NEW next, SendCommand(op, next)
        PROVE  DueInv'
    <2>1. [op |-> op, age |-> 0] \in Command
      BY SetpointAssumption DEF Command
    <2>2. cmds' # <<>>
      BY <1>2, <2>1, AppendCommand DEF SendCommand, CmdsFull, TypeOK
    <2> QED
      BY <1>2, <2>2 DEF SendCommand, timerVars
  <1>3. CASE SendChangePeriod
    BY <1>2, <1>3 DEF SendChangePeriod
  <1>4. CASE SendReset
    BY <1>2, <1>4 DEF SendReset
  <1>5. CASE GiveUp
    <2>1. cmds' # <<>>
      BY <1>5, SetpointAssumption DEF GiveUp, CmdsFull, TypeOK
    <2> QED
      BY <1>5, <2>1 DEF GiveUp, timerVars
  <1>6. CASE Write
    BY <1>6 DEF Write, timerVars
  <1>7. CASE Announce
    BY <1>7 DEF Announce, timerVars
  <1>8. CASE Expire
    BY <1>8 DEF Expire, mainVars
  <1>9. CASE ProcessCommand
    <2>1. active' \/ d' = "expired"
      BY <1>9 DEF ProcessCommand
    <2>2. d = "idle" /\ d' \in {"idle", "expired"}
      BY <1>9 DEF ProcessCommand
    <2> QED
      BY <1>9, <2>1, <2>2 DEF ProcessCommand
  <1>10. CASE ClearQueue
    BY <1>10 DEF ClearQueue, mainVars, timerVars
  <1>11. CASE Invalidate
    BY <1>11 DEF Invalidate, mainVars, timerVars
  <1>12. CASE CreateMsg
    <2>1. note' => validSp
      BY <1>12 DEF CreateMsg, TypeOK
    <2> QED
      BY <1>12, <2>1 DEF CreateMsg, mainVars, timerVars
  <1>13. CASE SendMsg
    BY <1>13 DEF SendMsg, mainVars, timerVars
  <1>14. CASE Tick
    <2>1. cmds # <<>> => cmds' # <<>>
      BY <1>14, AgeCommands DEF Tick, TypeOK
    <2> QED
      BY <1>14, <2>1 DEF Tick
  <1>15. CASE UNCHANGED vars
    BY <1>15 DEF vars, mainVars, timerVars
  <1> QED
    BY <1>1, <1>3, <1>4, <1>5, <1>6, <1>7, <1>8, <1>9, <1>10, <1>11, <1>12, <1>13,
       <1>14, <1>15 DEF Next, SpCB, Daemon

\* The callback is due for everything it takes back, in every reachable state.
LEMMA DueInvariant == Spec => []DueInv
<1>1. Init => DueInv
  BY DEF Init, DueInv, SetpointExpires, ToldInv
<1> QED
  BY <1>1, NextDue, TypeAndMain, PTL DEF Spec

\* No setpoint outlives its timer: a callback that removes it is always due.
THEOREM SetpointAlwaysExpires == Spec => []SetpointExpires
  BY DueInvariant, PTL DEF DueInv

\* When all is quiet there is no setpoint and everybody was told.
THEOREM QuietIsAlwaysTold == Spec => []QuietIsTold
<1>1. DueInv => QuietIsTold
  BY DEF DueInv, SetpointExpires, ToldInv, QuietIsTold
<1> QED
  BY <1>1, DueInvariant, PTL
=============================================================================
