----------------------------- MODULE EventMesh -----------------------------
(***************************************************************************)
(* The event mesh of QuadFC (event_handler.c): who owns a message, and who *)
(* gets it.  A message is memory from the heap; the mesh passes pointers   *)
(* to it through the queues of the handlers and through the port queue,    *)
(* and whoever holds the pointer last frees it.  The tasks interrupt each  *)
(* other between any two accesses to a queue; none of them ever waits for  *)
(* room in one.                                                            *)
(***************************************************************************)
EXTENDS Naturals, Sequences

CONSTANTS
    Order,         \* the tasks, in the order in which their handlers registered
    Types, Subs,   \* what the handler of a task has a callback for, and so subscribes to
    AppLog, Text,  \* FC_AppLog_e, the task that writes the log, and what it gets
    Tx,            \* FC_SerialIOtx_e, which has the port function
    Occasions,     \* what the tasks send of their own: by, type, to
    Replies,       \* what callbacks send: by, type, to
    QueueLength,   \* EVENT_QUEUE_LENGTH
    StackDepth,    \* calls that fit on the stack of a task
    MaxSends       \* bound: messages sent, log entries about lost messages aside

Tasks    == {Order[i] : i \in DOMAIN Order}
Everyone == "everyone"  \* Broadcast_e
FC       == "FC"        \* FC_Broadcast_e
GS       == "GS"        \* any address of the ground station
Address  == Tasks \cup {Everyone, FC, GS}

ASSUME MeshAssumption ==
    /\ Order \in Seq(Tasks)
    /\ AppLog \in Tasks /\ Tx \in Tasks
    /\ {Everyone, FC, GS} \cap Tasks = {}
    /\ Text \in Types
    /\ Subs \in [Tasks -> SUBSET Types]
    /\ Occasions \cup Replies \subseteq [by : Tasks, type : Types, to : Address]
    /\ QueueLength \in Nat
    /\ StackDepth \in Nat /\ StackDepth >= 5
    /\ MaxSends \in Nat

\* main.c gives every handler to Event_InitHandler once, and the only thing FC_AppLog_e
\* has a callback for is the text of a log entry, which no one broadcasts.
ASSUME OrderAssumption ==
    /\ \A i, j \in DOMAIN Order : Order[i] = Order[j] => i = j
    /\ \A s \in Occasions \cup Replies :
            s.to \in {Everyone, FC} => s.type \notin Subs[AppLog]

VARIABLES
    created,     \* what each task ever created; a message is its task and number
    heap,        \* the messages in memory
    queue,       \* eventQueue of each handler
    port,        \* portQueue
    calls,       \* the calls a task is in the middle of, the innermost first
    halted,      \* the stack of a task overflowed
    sends,       \* what the bound counts
    arrived,     \* history: of what messages each handler ever got a copy
    abandoned    \* history: messages in memory that no one will free
vars == <<created, heap, queue, port, calls, halted, sends, arrived, abandoned>>

-----------------------------------------------------------------------------
(* Messages and calls.                                                     *)

\* A clone is of the message it is a clone of, an original of itself.
Message(type, to, of) == [type |-> type, to |-> to, of |-> of]
Fields(m) == created[m[1]][m[2]]
New(h)    == <<h, Len(created[h]) + 1>>

Make(h, fields) ==
    /\ created' = [created EXCEPT ![h] = Append(@, fields)]
    /\ heap' = heap \cup {New(h)}
Free(m) == heap' = heap \ {m}

\* A call: what it does with a message and, for a broadcast, the place of the last
\* handler it came to and whether all up to it got a clone (result).
Call(op, m) == [op |-> op, msg |-> m, served |-> 0, result |-> TRUE]

Push(c, stack) == <<c>> \o stack

Does(h, op) == ~halted /\ calls[h] # <<>> /\ Head(calls[h]).op = op
Handled(h)  == Head(calls[h]).msg
Enter(h, c) == calls' = [calls EXCEPT ![h] = Push(c, @)]
Return(h)   == calls' = [calls EXCEPT ![h] = Tail(@)]
Become(h, c) == calls' = [calls EXCEPT ![h] = Push(c, Tail(@))]

Init ==
    /\ created = [h \in Tasks |-> <<>>] /\ heap = {}
    /\ queue = [h \in Tasks |-> <<>>] /\ port = <<>>
    /\ calls = [h \in Tasks |-> <<>>]
    /\ halted = FALSE
    /\ sends = 0
    /\ arrived = [h \in Tasks |-> {}] /\ abandoned = {}

-----------------------------------------------------------------------------
(* Event_Send, of a new message.                                           *)

\* Event_SendGeneric, by the destination of the message.
Sending(to) == IF to \in {Everyone, FC} THEN "broadcast"
               ELSE IF to = GS THEN "external" ELSE "send"

Send(h, s) ==
    /\ ~halted /\ sends < MaxSends /\ sends' = sends + 1
    /\ s.by = h
    /\ Make(h, Message(s.type, s.to, New(h)))
    /\ Enter(h, Call(Sending(s.to), New(h)))
    /\ UNCHANGED <<queue, port, halted, arrived, abandoned>>

TaskSends(h) == calls[h] = <<>> /\ \E s \in Occasions : Send(h, s)

-----------------------------------------------------------------------------
(* Event_SendInternal, Event_SendExternal.                                 *)

\* Mutant: one more than there is room for.
Room_OneMore(q) == Len(q) <= QueueLength

Room(q) == Len(q) < QueueLength

\* The queue of g gets m, a copy of the message "of".
Put(g, m, of) ==
    /\ queue' = [queue EXCEPT ![g] = Append(@, m)]
    /\ arrived' = [arrived EXCEPT ![g] = @ \cup {of}]

SendInternal(h) ==
    /\ Does(h, "send")
    /\ LET m == Handled(h)
           g == Fields(m).to
           subscribed == Fields(m).type \in Subs[g]
       IN  \/ /\ subscribed /\ Room(queue[g])
              /\ Put(g, m, Fields(m).of)
              /\ Return(h)
              /\ UNCHANGED heap
           \/ /\ subscribed /\ ~Room(queue[g]) /\ g # Tx
              /\ Become(h, Call("report", m))
              /\ UNCHANGED <<heap, queue, arrived>>
           \/ /\ ~subscribed \/ (~Room(queue[g]) /\ g = Tx)
              /\ Free(m)
              /\ Return(h)
              /\ UNCHANGED <<queue, arrived>>
    /\ UNCHANGED <<created, port, halted, sends, abandoned>>

SendExternal(h) ==
    /\ Does(h, "external")
    /\ \/ /\ Room(port)
          /\ port' = Append(port, Handled(h))
          /\ Return(h)
       \/ /\ ~Room(port)
          /\ Become(h, Call("report", Handled(h)))
          /\ UNCHANGED port
    /\ UNCHANGED <<created, heap, queue, halted, sends, arrived, abandoned>>

\* Mutant: the message is sent once more, one call deeper, instead of a log entry.
Report_Retries(h) ==
    /\ Does(h, "report")
    /\ \/ /\ Len(calls[h]) < StackDepth
          /\ Enter(h, Call(Sending(Fields(Handled(h)).to), Handled(h)))
          /\ UNCHANGED halted
       \/ /\ Len(calls[h]) = StackDepth
          /\ halted' = TRUE
          /\ UNCHANGED calls
    /\ UNCHANGED <<created, heap, queue, port, sends, arrived, abandoned>>

\* LOG_ENTRY about a message that is lost: an entry of the log is a message like any
\* other, sent before the lost one is deleted and in a call on top of that.
Report(h) ==
    /\ Does(h, "report")
    /\ \/ /\ Len(calls[h]) < StackDepth
          /\ Make(h, Message(Text, AppLog, New(h)))
          /\ calls' = [calls EXCEPT ![h] =
                 Push(Call("send", New(h)), Push(Call("delete", Handled(h)), Tail(@)))]
          /\ UNCHANGED halted
       \/ /\ Len(calls[h]) = StackDepth
          /\ halted' = TRUE
          /\ UNCHANGED <<created, heap, calls>>
    /\ UNCHANGED <<queue, port, sends, arrived, abandoned>>

\* Msg_Delete, after the log entry.
Delete(h) ==
    /\ Does(h, "delete")
    /\ Free(Handled(h))
    /\ Return(h)
    /\ UNCHANGED <<created, queue, port, halted, sends, arrived, abandoned>>

-----------------------------------------------------------------------------
(* Event_SendBCInternal: a clone for each subscriber, the sender included. *)

\* Mutant: the last handler it came to is one of them.
Rest_Again(h) == {i \in DOMAIN Order : /\ Head(calls[h]).served <= i
                                       /\ Fields(Handled(h)).type \in Subs[Order[i]]}

\* The subscribers the broadcast did not come to yet, by their place in the order.
Rest(h) == {i \in DOMAIN Order : /\ Head(calls[h]).served < i
                                 /\ Fields(Handled(h)).type \in Subs[Order[i]]}

\* Mutant: the last subscriber decides.
Further_LastDecides(c, i, ok) == [op |-> c.op, msg |-> c.msg, served |-> i, result |-> ok]

\* The broadcast one subscriber further.
Further(c, i, ok) == [op |-> c.op, msg |-> c.msg, served |-> i, result |-> c.result /\ ok]

SendClone(h) ==
    /\ Does(h, "broadcast")
    /\ Make(h, Fields(Handled(h)))
    /\ \E i \in Rest(h) :
        /\ \A j \in Rest(h) : i <= j
        /\ LET g == Order[i]
               c == Head(calls[h])
           IN  \/ /\ Room(queue[g])
                  /\ Put(g, New(h), Fields(Handled(h)).of)
                  /\ Become(h, Further(c, i, TRUE))
               \/ /\ ~Room(queue[g])
                  /\ calls' = [calls EXCEPT ![h] =
                         Push(Call("report", New(h)), Push(Further(c, i, FALSE), Tail(@)))]
                  /\ UNCHANGED <<queue, arrived>>
    /\ UNCHANGED <<port, halted, sends, abandoned>>

\* Mutant: the original is always deleted.
EndBroadcast_Deletes(h) ==
    /\ Does(h, "broadcast") /\ Rest(h) = {}
    /\ Free(Handled(h))
    /\ \/ Fields(Handled(h)).to = FC /\ Return(h)
       \/ Fields(Handled(h)).to = Everyone /\ Become(h, Call("external", Handled(h)))
    /\ UNCHANGED <<created, queue, port, halted, sends, arrived, abandoned>>

\* The original goes on to the other segment if it has to, and if all subscribers
\* of this one got theirs.  If not all of them did, no one has it and it is not freed.
EndBroadcast(h) ==
    /\ Does(h, "broadcast") /\ Rest(h) = {}
    /\ LET m  == Handled(h)
           to == Fields(m).to
       IN  \/ /\ to = FC
              /\ Free(m)
              /\ Return(h)
              /\ UNCHANGED abandoned
           \/ /\ to = Everyone /\ Head(calls[h]).result
              /\ Become(h, Call("external", m))
              /\ UNCHANGED <<heap, abandoned>>
           \/ /\ to = Everyone /\ ~Head(calls[h]).result
              /\ abandoned' = abandoned \cup {m}
              /\ Return(h)
              /\ UNCHANGED heap
    /\ UNCHANGED <<created, queue, port, halted, sends, arrived>>

-----------------------------------------------------------------------------
(* Event_Receive, Event_ReceiveExternal, and the callbacks.                *)

\* A task that transmits waits for the acknowledgement in the port function, and
\* handles whatever comes meanwhile: Event_WaitForEvent.
Listens(h) == ~halted /\ (calls[h] = <<>> \/ Does(h, "transmit"))

Receive(h) ==
    /\ Listens(h) /\ queue[h] # <<>>
    /\ queue' = [queue EXCEPT ![h] = Tail(@)]
    /\ Enter(h, Call("handle", Head(queue[h])))
    /\ UNCHANGED <<created, heap, port, halted, sends, arrived, abandoned>>

ReceiveExternal(h) ==
    /\ h = Tx /\ ~halted /\ calls[h] = <<>> /\ port # <<>>
    /\ port' = Tail(port)
    /\ Enter(h, Call("transmit", Head(port)))
    /\ UNCHANGED <<created, heap, queue, halted, sends, arrived, abandoned>>

CallbackSends(h) ==
    /\ Does(h, "handle") \/ Does(h, "transmit")
    /\ \E s \in Replies : Send(h, s)

\* Mutant: no one deletes the message after a callback.
CallbackEnds_Keeps(h) ==
    /\ Does(h, "handle") \/ Does(h, "transmit")
    /\ Return(h)
    /\ UNCHANGED <<created, heap, queue, port, halted, sends, arrived, abandoned>>

\* The loop that called the callback deletes the message.
CallbackEnds(h) ==
    /\ Does(h, "handle") \/ Does(h, "transmit")
    /\ Free(Handled(h))
    /\ Return(h)
    /\ UNCHANGED <<created, queue, port, halted, sends, arrived, abandoned>>

-----------------------------------------------------------------------------

Work(h) == \/ SendInternal(h) \/ SendExternal(h) \/ Report(h) \/ Delete(h)
           \/ SendClone(h) \/ EndBroadcast(h)
           \/ Receive(h) \/ ReceiveExternal(h) \/ CallbackSends(h) \/ CallbackEnds(h)

Next == \E h \in Tasks : Work(h) \/ TaskSends(h)

Spec == Init /\ [][Next]_vars

\* Every task gets to run.
FairSpec == Spec /\ \A h \in Tasks : WF_vars(Work(h))

-----------------------------------------------------------------------------
(* What must hold.                                                         *)

MessageType == [type : Types, to : Address, of : Tasks \X Nat]
CallType == [op : {"send", "external", "report", "delete", "broadcast", "handle", "transmit"},
             msg : Tasks \X Nat, served : Nat, result : BOOLEAN]

\* Messages, queues and stacks keep their shape, the queues their length and the
\* stacks their depth.
TypeOK ==
    /\ created \in [Tasks -> Seq(MessageType)]
    /\ heap \subseteq Tasks \X Nat
    /\ queue \in [Tasks -> Seq(Tasks \X Nat)] /\ port \in Seq(Tasks \X Nat)
    /\ \A h \in Tasks : Len(queue[h]) <= QueueLength
    /\ Len(port) <= QueueLength
    /\ calls \in [Tasks -> Seq(CallType)]
    /\ \A h \in Tasks : Len(calls[h]) <= StackDepth
    /\ halted \in BOOLEAN /\ sends \in 0 .. MaxSends
    /\ arrived \in [Tasks -> SUBSET (Tasks \X Nat)]
    /\ abandoned \subseteq Tasks \X Nat

\* Where messages are, as sequences of them.
Places == ({"queue", "calls"} \X Tasks) \cup {<<"port", Tx>>}
Held(p) == IF p[1] = "queue" THEN queue[p[2]]
           ELSE IF p[1] = "port" THEN port
           ELSE [i \in DOMAIN calls[p[2]] |-> calls[p[2]][i].msg]
HeldIn(p) == {Held(p)[i] : i \in DOMAIN Held(p)}

\* Every message in memory is in one place, whose holder will free it, and no freed
\* message is anywhere: only a broadcast to everyone that met a full queue is in
\* memory and nowhere.
OneOwner ==
    /\ \A p \in Places : \A i, j \in DOMAIN Held(p) : Held(p)[i] = Held(p)[j] => i = j
    /\ \A p, q \in Places : p # q => HeldIn(p) \cap HeldIn(q) = {}
    /\ UNION {HeldIn(p) : p \in Places} = heap \ abandoned
    /\ \A m \in abandoned : Fields(m).to = Everyone

\* No handler gets a message twice, and it gets those of one sender in the order in
\* which they were sent.
OnceInOrder ==
    [][\A g \in Tasks : Len(queue'[g]) > Len(queue[g]) =>
          LET last == queue'[g][Len(queue'[g])]
              m == created'[last[1]][last[2]]
          IN  /\ m.type \in Subs[g]
              /\ \A n \in arrived[g] : n[1] = m.of[1] => n[2] < m.of[2]]_vars

\* What is broadcast to everyone goes to the ground station only when every
\* subscriber of the flight controller got it.
GsAfterAll ==
    \A i \in DOMAIN port : Fields(port[i]).to = Everyone =>
        \A g \in Tasks : Fields(port[i]).type \in Subs[g] => port[i] \in arrived[g]

\* Calls nest deeper than the stack only when the loss of a log entry is logged.
OverflowOnlyByLogs ==
    halted => \E h \in Tasks : /\ Len(calls[h]) = StackDepth
                               /\ Fields(Handled(h)).to = AppLog

\* When nothing is sent any more, all memory is free, except for what was abandoned.
EndsClean == <>[](halted \/ heap = abandoned)
=============================================================================
