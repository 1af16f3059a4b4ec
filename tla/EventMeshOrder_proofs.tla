----------------------- MODULE EventMeshOrder_proofs -----------------------
(***************************************************************************)
(* Proof that no handler of EventMesh gets a message twice or out of order. *)
(***************************************************************************)
EXTENDS EventMesh_proofs

-----------------------------------------------------------------------------
(* What a task is in the middle of, and what of its own has arrived.       *)

\* All that has come to g from the sender of x is older than x.
Before(x, g, ar) == \A n \in ar[g] : n[1] = x[1] => n[2] < x[2]

\* A call c of the task h: what it is to deliver is not late anywhere it still has to
\* come to.
Ready(c, h, cr, ar) ==
    /\ c.op = "send" =>
          /\ c.msg[1] = h /\ Of(cr, c.msg).of = c.msg
          /\ Before(c.msg, Of(cr, c.msg).to, ar)
    /\ c.op = "broadcast" =>
          /\ c.msg[1] = h /\ Of(cr, c.msg).type \notin Subs[AppLog]
          /\ \A j \in DOMAIN Order :
                c.served < j /\ Of(cr, c.msg).type \in Subs[Order[j]]
                    => Before(c.msg, Order[j], ar)

\* A call that delivers nothing, except to the log.
Light(c, cr) ==
    /\ c.op \in {"send", "report", "delete"}
    /\ c.op = "send" => Of(cr, c.msg).to = AppLog

\* Only the innermost call is a send, and above a broadcast all calls are light.
Nested(s, cr) ==
    /\ \A i \in 1 .. Len(s) : s[i].op = "send" => i = 1
    /\ \A i, j \in 1 .. Len(s) : s[i].op = "broadcast" /\ j < i => Light(s[j], cr)

InOrder(s, h, cr, ar) ==
    /\ Nested(s, cr)
    /\ \A i \in 1 .. Len(s) : Ready(s[i], h, cr, ar)

Arrived == \A g \in Tasks : \A n \in arrived[g] : Exists(created, n)
Orderly == \A h \in Tasks : InOrder(calls[h], h, created, arrived)

\* The inductive invariant.
OrderInv == IInv /\ Arrived /\ Orderly

-----------------------------------------------------------------------------
(* Stacks.                                                                 *)

\* What c is to deliver is not changed by what is created later, nor by what arrives
\* from other tasks.
LEMMA ReadyLater ==
    ASSUME NEW cr, NEW ar, NEW cr2, NEW ar2, Later(cr, ar, cr2, ar2),
           NEW h \in Tasks, NEW c \in CallType, Exists(cr, c.msg), Ready(c, h, cr, ar),
           c.op = "send" => Of(cr, c.msg).to \in Tasks,
           \A g \in Tasks : \A n \in ar2[g] : n \in ar[g] \/ n[1] # h
    PROVE  Ready(c, h, cr2, ar2)
<1>1. c.msg \in Id
  BY DEF CallType, Id
<1>2. Of(cr2, c.msg) = Of(cr, c.msg)
  BY <1>1 DEF Later
<1>3. ASSUME NEW g \in Tasks, c.msg[1] = h, Before(c.msg, g, ar)
      PROVE  Before(c.msg, g, ar2)
  BY <1>3 DEF Before
<1>4. \A j \in DOMAIN Order : Order[j] \in Tasks
  BY Constants
<1> QED BY <1>2, <1>3, <1>4 DEF Ready

LEMMA LightLater ==
    ASSUME NEW cr, NEW ar, NEW cr2, NEW ar2, Later(cr, ar, cr2, ar2),
           NEW c \in CallType, Exists(cr, c.msg), Light(c, cr)
    PROVE  Light(c, cr2)
<1>1. Of(cr2, c.msg) = Of(cr, c.msg)
  BY DEF Later, CallType, Id
<1> QED BY <1>1 DEF Light

LEMMA FineCalls ==
    ASSUME NEW cr, NEW ar, NEW s, AllFine(s, cr, ar)
    PROVE  /\ s \in Seq(CallType) /\ Len(s) \in Nat
           /\ \A i \in 1 .. Len(s) : /\ s[i] \in CallType /\ s[i].msg \in Id /\ Exists(cr, s[i].msg)
                                     /\ s[i].op = "send" => Of(cr, s[i].msg).to \in Tasks
<1>1. s \in Seq(CallType) /\ Len(s) \in Nat
  BY DEF AllFine
<1>2. ASSUME NEW i \in 1 .. Len(s)
      PROVE  /\ s[i] \in CallType /\ s[i].msg \in Id /\ Exists(cr, s[i].msg)
             /\ s[i].op = "send" => Of(cr, s[i].msg).to \in Tasks
  <2>1. s[i] \in CallType
    BY <1>1
  <2>2. Fine(s[i], Len(s) - i + 1, cr, ar)
    BY DEF AllFine
  <2> QED BY <2>1, <2>2 DEF Fine, CallType, Id
<1> QED BY <1>1, <1>2

LEMMA InOrderLater ==
    ASSUME NEW cr, NEW ar, NEW cr2, NEW ar2, Later(cr, ar, cr2, ar2),
           NEW h \in Tasks, NEW s, AllFine(s, cr, ar), InOrder(s, h, cr, ar),
           \A g \in Tasks : \A n \in ar2[g] : n \in ar[g] \/ n[1] # h
    PROVE  InOrder(s, h, cr2, ar2)
<1>1. /\ s \in Seq(CallType) /\ Len(s) \in Nat
      /\ \A i \in 1 .. Len(s) : /\ s[i] \in CallType /\ Exists(cr, s[i].msg)
                                /\ s[i].op = "send" => Of(cr, s[i].msg).to \in Tasks
  BY FineCalls
<1>2. \A i \in 1 .. Len(s) : Ready(s[i], h, cr2, ar2)
  BY <1>1, ReadyLater DEF InOrder
<1>3. \A j \in 1 .. Len(s) : Light(s[j], cr) => Light(s[j], cr2)
  BY <1>1, LightLater
<1> QED BY <1>2, <1>3 DEF InOrder, Nested

\* No broadcast is below a call that is not light.
Plain(s) == \A i \in 1 .. Len(s) : s[i].op # "broadcast"
NoSend(s) == \A i \in 1 .. Len(s) : s[i].op # "send"

LEMMA InOrderTail ==
    ASSUME NEW cr, NEW ar, NEW h, NEW s \in Seq(CallType), s # <<>>, InOrder(s, h, cr, ar)
    PROVE  /\ InOrder(Tail(s), h, cr, ar) /\ NoSend(Tail(s)) /\ Ready(Head(s), h, cr, ar)
           /\ ~Light(Head(s), cr) => Plain(Tail(s))
<1> DEFINE n == Len(s)  t == Tail(s)
<1>1. /\ Len(t) = n - 1 /\ n \in Nat \ {0} /\ Head(s) = s[1]
      /\ \A i \in 1 .. n - 1 : t[i] = s[i + 1]
  BY TailIndex
<1>2. /\ \A i \in 1 .. n : s[i].op = "send" => i = 1
      /\ \A i, j \in 1 .. n : s[i].op = "broadcast" /\ j < i => Light(s[j], cr)
      /\ \A i \in 1 .. n : Ready(s[i], h, cr, ar)
  BY DEF InOrder, Nested
<1> HIDE DEF n, t
<1>3. \A i \in 1 .. n - 1 : i + 1 \in 1 .. n /\ i + 1 # 1 /\ 1 < i + 1
  BY <1>1
<1>4. 1 \in 1 .. n
  BY <1>1
<1>5. NoSend(t)
  BY <1>1, <1>2, <1>3 DEF NoSend
<1>6. ASSUME NEW i \in 1 .. n - 1, NEW j \in 1 .. n - 1, t[i].op = "broadcast", j < i
      PROVE  Light(t[j], cr)
  <2>1. j + 1 < i + 1
    BY <1>6
  <2>2. t[i] = s[i + 1] /\ t[j] = s[j + 1]
    BY <1>1
  <2> QED BY <2>1, <2>2, <1>2, <1>3, <1>6
<1>7. Nested(t, cr)
  BY <1>1, <1>5, <1>6 DEF Nested, NoSend
<1>8. \A i \in 1 .. n - 1 : Ready(t[i], h, cr, ar)
  BY <1>1, <1>2, <1>3
<1>9. ~Light(s[1], cr) => Plain(t)
  BY <1>1, <1>2, <1>3, <1>4 DEF Plain
<1> QED BY <1>1, <1>2, <1>4, <1>5, <1>7, <1>8, <1>9 DEF InOrder, t

LEMMA InOrderPush ==
    ASSUME NEW cr, NEW ar, NEW h, NEW s \in Seq(CallType), InOrder(s, h, cr, ar), NoSend(s),
           NEW c \in CallType, Ready(c, h, cr, ar), Plain(s) \/ Light(c, cr)
    PROVE  /\ InOrder(Push(c, s), h, cr, ar)
           /\ c.op # "send" => NoSend(Push(c, s))
           /\ Plain(s) /\ c.op # "broadcast" => Plain(Push(c, s))
<1> DEFINE n == Len(s)  p == Push(c, s)
<1>1. /\ n \in Nat /\ Len(p) = n + 1 /\ p[1] = c
      /\ \A i \in 1 .. n : p[i + 1] = s[i]
  BY PushIndex
<1>2. /\ \A i, j \in 1 .. n : s[i].op = "broadcast" /\ j < i => Light(s[j], cr)
      /\ \A i \in 1 .. n : Ready(s[i], h, cr, ar)
  BY DEF InOrder, Nested
<1>3. \A i \in 1 .. n : s[i].op # "send"
  BY DEF NoSend
<1>4. Plain(s) => \A i \in 1 .. n : s[i].op # "broadcast"
  BY DEF Plain
<1> HIDE DEF n, p
<1>5. \A i \in 1 .. n + 1 : i = 1 \/ (i - 1 \in 1 .. n /\ p[i] = s[i - 1])
  <2>1. SUFFICES ASSUME NEW i \in 1 .. n + 1, i # 1
                 PROVE  i - 1 \in 1 .. n /\ p[i] = s[i - 1]
    OBVIOUS
  <2>2. i - 1 \in 1 .. n /\ (i - 1) + 1 = i
    BY <1>1, <2>1
  <2> QED BY <2>2, <1>1
<1>6. \A i \in 1 .. n + 1 : p[i].op = "send" => i = 1
  BY <1>3, <1>5
<1>7. ASSUME NEW i \in 1 .. n + 1, NEW j \in 1 .. n + 1, p[i].op = "broadcast", j < i
      PROVE  Light(p[j], cr)
  <2>1. i # 1 /\ i - 1 \in 1 .. n /\ p[i] = s[i - 1]
    BY <1>1, <1>5, <1>7
  <2>2. CASE j = 1
    <3>1. ~Plain(s)
      BY <1>4, <1>7, <2>1
    <3> QED BY <3>1, <2>2, <1>1
  <2>3. CASE j # 1
    <3>1. j - 1 \in 1 .. n /\ p[j] = s[j - 1] /\ j - 1 < i - 1
      BY <2>1, <2>3, <1>1, <1>5, <1>7
    <3> QED BY <3>1, <2>1, <1>2, <1>7
  <2> QED BY <2>2, <2>3
<1>8. \A i \in 1 .. n + 1 : Ready(p[i], h, cr, ar)
  BY <1>1, <1>2, <1>5
<1>9. InOrder(p, h, cr, ar)
  BY <1>1, <1>6, <1>7, <1>8 DEF InOrder, Nested
<1>10. c.op # "send" => NoSend(p)
  BY <1>1, <1>3, <1>5 DEF NoSend
<1>11. Plain(s) /\ c.op # "broadcast" => Plain(p)
  BY <1>1, <1>4, <1>5 DEF Plain
<1> QED BY <1>9, <1>10, <1>11 DEF p

\* No callback runs in a broadcast or in a send.
LEMMA NotLight ==
    ASSUME NEW cr, NEW ar, NEW h, NEW s \in Seq(CallType), s # <<>>, InOrder(s, h, cr, ar),
           Head(s).op \in {"handle", "transmit"}
    PROVE  Plain(s) /\ NoSend(s)
<1> DEFINE n == Len(s)  t == Tail(s)
<1>1. /\ Len(t) = n - 1 /\ n \in Nat \ {0} /\ Head(s) = s[1]
      /\ \A i \in 1 .. n - 1 : t[i] = s[i + 1]
  BY TailIndex
<1>2. Plain(t) /\ NoSend(t)
  BY InOrderTail DEF Light
<1> HIDE DEF n, t
<1>3. \A i \in 1 .. n : i = 1 \/ (i - 1 \in 1 .. n - 1 /\ t[i - 1] = s[i])
  BY <1>1
<1>4. ASSUME NEW i \in 1 .. n
      PROVE  s[i].op # "broadcast" /\ s[i].op # "send"
  BY <1>1, <1>2, <1>3 DEF Plain, NoSend
<1> QED BY <1>4 DEF Plain, NoSend, n

\* A call that delivers nothing, the sends to the log aside, in place of the innermost.
LEMMA InOrderBecome ==
    ASSUME NEW cr, NEW ar, NEW h, NEW s \in Seq(CallType), s # <<>>, InOrder(s, h, cr, ar),
           NEW c \in CallType, Ready(c, h, cr, ar), ~Light(Head(s), cr) \/ Light(c, cr)
    PROVE  /\ InOrder(Push(c, Tail(s)), h, cr, ar)
           /\ c.op # "send" => NoSend(Push(c, Tail(s)))
<1>1. Tail(s) \in Seq(CallType)
  BY TailIndex
<1>2. /\ InOrder(Tail(s), h, cr, ar) /\ NoSend(Tail(s))
      /\ ~Light(Head(s), cr) => Plain(Tail(s))
  BY InOrderTail
<1> QED BY <1>1, <1>2, InOrderPush

-----------------------------------------------------------------------------
(* Every step keeps the order.                                             *)

\* What a step of h delivers is of h.
Own(h) == \A g \in Tasks : \A n \in arrived'[g] : n \in arrived[g] \/ n[1] = h

LEMMA StacksCalls ==
    ASSUME IInv, NEW h \in Tasks
    PROVE  /\ TypeOK /\ Stacks /\ AllFine(calls[h], created, arrived)
           /\ calls[h] \in Seq(CallType) /\ created \in Messages
BY FineCalls DEF IInv, Shape, Stacks, TypeOK, Messages

\* A step of h that leaves its stack in order.
LEMMA OrderStep ==
    ASSUME OrderInv, IInv', Later(created, arrived, created', arrived'),
           NEW h \in Tasks, NEW X, InOrder(X, h, created', arrived'),
           calls' = [calls EXCEPT ![h] = X], Own(h),
           \A g \in Tasks : \A n \in arrived'[g] : n \in arrived[g] \/ Exists(created', n)
    PROVE  OrderInv'
<1>1. calls \in [Tasks -> Seq(CallType)]
  BY DEF OrderInv, IInv, Shape, TypeOK
<1>2. ASSUME NEW k \in Tasks
      PROVE  InOrder(calls'[k], k, created', arrived')
  <2>1. CASE k = h
    BY <2>1, <1>1
  <2>2. CASE k # h
    <3>1. calls'[k] = calls[k]
      BY <2>2, <1>1
    <3>2. AllFine(calls[k], created, arrived) /\ InOrder(calls[k], k, created, arrived)
      BY StacksCalls DEF OrderInv, Orderly
    <3>3. \A g \in Tasks : \A n \in arrived'[g] : n \in arrived[g] \/ n[1] # k
      BY <2>2 DEF Own
    <3> QED BY <3>1, <3>2, <3>3, InOrderLater
  <2> QED BY <2>1, <2>2
<1>3. Arrived'
  <2>1. SUFFICES ASSUME NEW g \in Tasks, NEW n \in arrived'[g], n \in arrived[g]
                 PROVE  Exists(created', n)
    BY DEF Arrived
  <2>2. Exists(created, n)
    BY <2>1 DEF OrderInv, Arrived
  <2> QED BY <2>2 DEF Later, Exists
<1> QED BY <1>2, <1>3 DEF OrderInv, Orderly

\* A step of h that delivers nothing and leaves its stack in order.
LEMMA QuietStep ==
    ASSUME OrderInv, IInv', Later(created, arrived, created', arrived'), arrived' = arrived,
           NEW h \in Tasks, NEW X, InOrder(X, h, created', arrived'),
           calls' = [calls EXCEPT ![h] = X]
    PROVE  OrderInv'
<1>1. Own(h) /\ \A g \in Tasks : \A n \in arrived'[g] : n \in arrived[g] \/ Exists(created', n)
  BY DEF Own
<1> QED BY <1>1, OrderStep

\* The stack of h before a step of its own that delivers nothing.
LEMMA StackBefore ==
    ASSUME OrderInv, Later(created, arrived, created', arrived'), arrived' = arrived,
           NEW h \in Tasks
    PROVE  /\ calls[h] \in Seq(CallType)
           /\ InOrder(calls[h], h, created', arrived') /\ InOrder(calls[h], h, created, arrived)
<1>1. AllFine(calls[h], created, arrived) /\ InOrder(calls[h], h, created, arrived)
      /\ calls[h] \in Seq(CallType)
  BY StacksCalls DEF OrderInv, Orderly
<1> QED BY <1>1, InOrderLater

\* The innermost call ends.
LEMMA ReturnOrder ==
    ASSUME OrderInv, IInv', created' = created, arrived' = arrived,
           NEW h \in Tasks, calls[h] # <<>>, Return(h)
    PROVE  OrderInv'
<1>1. Later(created, arrived, created', arrived')
  BY StacksCalls, SameLater DEF OrderInv
<1>2. InOrder(Tail(calls[h]), h, created', arrived')
  BY <1>1, StackBefore, InOrderTail
<1> QED BY <1>1, <1>2, QuietStep DEF Return

\* The innermost call becomes one that delivers nothing.
LEMMA BecomeOrder ==
    ASSUME OrderInv, IInv', created' = created, arrived' = arrived,
           NEW h \in Tasks, calls[h] # <<>>,
           NEW op \in {"report", "external"}, Become(h, Call(op, Handled(h))),
           op = "report" \/ Head(calls[h]).op = "broadcast"
    PROVE  OrderInv'
<1> DEFINE c == Call(op, Handled(h))
<1>1. Later(created, arrived, created', arrived')
  BY StacksCalls, SameLater DEF OrderInv
<1>2. Handled(h) \in Id
  BY TopCall, StacksCalls DEF OrderInv
<1>3. c \in CallType /\ c.op = op
  BY <1>2 DEF Call, CallType, Id
<1> HIDE DEF c
<1>4. Ready(c, h, created', arrived')
  BY <1>3 DEF Ready
<1>5. ~Light(Head(calls[h]), created') \/ Light(c, created')
  BY <1>3 DEF Light
<1>6. calls[h] \in Seq(CallType) /\ InOrder(calls[h], h, created', arrived')
  BY <1>1, StackBefore
<1>7. InOrder(Push(c, Tail(calls[h])), h, created', arrived')
  BY <1>3, <1>4, <1>5, <1>6, InOrderBecome
<1> QED BY <1>1, <1>7, QuietStep DEF Become, c

\* Nothing that ever arrived is as new as a message created now.
LEMMA NewIsLast ==
    ASSUME OrderInv, NEW h \in Tasks, NEW g \in Tasks
    PROVE  Before(New(h), g, arrived)
<1>1. SUFFICES ASSUME NEW n \in arrived[g], n[1] = h
               PROVE  n[2] < Len(created[h]) + 1
  BY DEF Before, New
<1>2. n[2] \in DOMAIN created[h]
  BY <1>1 DEF OrderInv, Arrived, Exists
<1>3. created[h] \in Seq(MessageType)
  BY StacksCalls DEF OrderInv, Messages
<1> QED BY <1>2, <1>3

\* A task sends from outside of all calls, or from a callback.
LEMMA SendOrder ==
    ASSUME OrderInv, IInv', NEW h \in Tasks, NEW s \in Occasions \cup Replies, Send(h, s),
           calls[h] = <<>> \/ (calls[h] # <<>> /\ Head(calls[h]).op \in {"handle", "transmit"})
    PROVE  OrderInv'
<1> DEFINE m == New(h)  op == Sending(s.to)  f == Message(s.type, s.to, New(h))
           c == Call(op, m)
<1>1. s.type \in Types /\ s.to \in Address
  BY MeshAssumption
<1>2. TypeOK
  BY StacksCalls DEF OrderInv
<1>3. Make(h, f) /\ arrived' = arrived /\ Enter(h, c)
  BY DEF Send
<1>4. m \in Id
  BY <1>2 DEF TypeOK, New, Id
<1>5. f \in MessageType /\ f.to = s.to /\ f.of = m /\ f.type = s.type
  BY <1>1, <1>4 DEF Message, MessageType, Id
<1>6. arrived \in Arrivals
  BY <1>2 DEF TypeOK, Arrivals, Id
<1>7. m[1] = h /\ \A g \in Tasks : Before(m, g, arrived)
  BY NewIsLast DEF New
<1> HIDE DEF f
<1>8. Later(created, arrived, created', arrived') /\ Of(created', m) = f
  BY <1>2, <1>3, <1>5, <1>6, MakeLater
<1>9. /\ op \in {"broadcast", "external", "send"}
      /\ op = "send" => s.to \in Tasks
      /\ op = "broadcast" => s.to \in {Everyone, FC}
  BY <1>1, Constants DEF Sending, Address
<1>10. op = "broadcast" => s.type \notin Subs[AppLog]
  BY <1>9, OrderAssumption
<1> HIDE DEF m, op
<1>11. c \in CallType /\ c.op = op /\ c.msg = m
  BY <1>4, <1>9 DEF Call, CallType, Id
<1> HIDE DEF c
<1>12. Ready(c, h, created', arrived')
  BY <1>3, <1>5, <1>7, <1>8, <1>9, <1>10, <1>11, Constants DEF Ready
<1>13. calls[h] \in Seq(CallType) /\ InOrder(calls[h], h, created', arrived')
  BY <1>3, <1>8, StackBefore
<1>14. Plain(calls[h]) /\ NoSend(calls[h])
  <2>1. CASE calls[h] = <<>>
    BY <2>1 DEF Plain, NoSend
  <2>2. CASE calls[h] # <<>> /\ Head(calls[h]).op \in {"handle", "transmit"}
    BY <2>2, <1>13, NotLight
  <2> QED BY <2>1, <2>2
<1>15. InOrder(Push(c, calls[h]), h, created', arrived')
  BY <1>11, <1>12, <1>13, <1>14, InOrderPush
<1> QED BY <1>3, <1>8, <1>15, QuietStep DEF Enter

LEMMA SendExternalOrder ==
    ASSUME OrderInv, IInv', NEW h \in Tasks, SendExternal(h)
    PROVE  OrderInv'
<1>1. calls[h] # <<>> /\ created' = created /\ arrived' = arrived
  BY DEF SendExternal, Does
<1>2. Return(h) \/ Become(h, Call("report", Handled(h)))
  BY DEF SendExternal
<1> QED BY <1>1, <1>2, ReturnOrder, BecomeOrder

LEMMA EndBroadcastOrder ==
    ASSUME OrderInv, IInv', NEW h \in Tasks, EndBroadcast(h)
    PROVE  OrderInv'
<1>1. /\ calls[h] # <<>> /\ Head(calls[h]).op = "broadcast"
      /\ created' = created /\ arrived' = arrived
  BY DEF EndBroadcast, Does
<1>2. Return(h) \/ Become(h, Call("external", Handled(h)))
  BY DEF EndBroadcast
<1> QED BY <1>1, <1>2, ReturnOrder, BecomeOrder

\* A message taken from a queue or from the port queue gets a call that handles it.
LEMMA EnterOrder ==
    ASSUME OrderInv, IInv', created' = created, arrived' = arrived, NEW h \in Tasks,
           NEW m \in Id, NEW op \in {"handle", "transmit"}, Enter(h, Call(op, m)),
           calls[h] = <<>> \/ (calls[h] # <<>> /\ Head(calls[h]).op \in {"handle", "transmit"})
    PROVE  OrderInv'
<1> DEFINE c == Call(op, m)
<1>1. Later(created, arrived, created', arrived')
  BY StacksCalls, SameLater DEF OrderInv
<1>2. c \in CallType /\ c.op = op
  BY DEF Call, CallType, Id
<1> HIDE DEF c
<1>3. Ready(c, h, created', arrived')
  BY <1>2 DEF Ready
<1>4. calls[h] \in Seq(CallType) /\ InOrder(calls[h], h, created', arrived')
  BY <1>1, StackBefore
<1>5. Plain(calls[h]) /\ NoSend(calls[h])
  <2>1. CASE calls[h] = <<>>
    BY <2>1 DEF Plain, NoSend
  <2>2. CASE calls[h] # <<>> /\ Head(calls[h]).op \in {"handle", "transmit"}
    BY <2>2, <1>4, NotLight
  <2> QED BY <2>1, <2>2
<1>6. InOrder(Push(c, calls[h]), h, created', arrived')
  BY <1>2, <1>3, <1>4, <1>5, InOrderPush
<1> QED BY <1>1, <1>6, QuietStep DEF Enter, c

LEMMA ReceiveOrder ==
    ASSUME OrderInv, IInv', NEW h \in Tasks, Receive(h)
    PROVE  OrderInv'
<1>1. /\ queue[h] # <<>> /\ Enter(h, Call("handle", Head(queue[h])))
      /\ created' = created /\ arrived' = arrived
      /\ calls[h] = <<>> \/ (calls[h] # <<>> /\ Head(calls[h]).op \in {"handle", "transmit"})
  BY DEF Receive, Listens, Does
<1>2. queue[h] \in Seq(Id)
  BY StacksCalls DEF OrderInv, TypeOK, Id
<1>3. Head(queue[h]) \in Id
  BY <1>1, <1>2
<1> QED BY <1>1, <1>3, EnterOrder

LEMMA ReceiveExternalOrder ==
    ASSUME OrderInv, IInv', NEW h \in Tasks, ReceiveExternal(h)
    PROVE  OrderInv'
<1>1. /\ port # <<>> /\ Enter(h, Call("transmit", Head(port)))
      /\ created' = created /\ arrived' = arrived /\ calls[h] = <<>>
  BY DEF ReceiveExternal
<1>2. port \in Seq(Id)
  BY StacksCalls DEF OrderInv, TypeOK, Id
<1>3. Head(port) \in Id
  BY <1>1, <1>2
<1> QED BY <1>1, <1>3, EnterOrder

LEMMA ReportOrder ==
    ASSUME OrderInv, IInv', NEW h \in Tasks, Report(h)
    PROVE  OrderInv'
<1> DEFINE m == Handled(h)  k == New(h)  f == Message(Text, AppLog, New(h))
           d == Call("delete", m)  c == Call("send", k)
<1>1. calls[h] # <<>> /\ Head(calls[h]).op = "report" /\ arrived' = arrived
  BY DEF Report, Does
<1>2. TypeOK /\ calls[h] \in Seq(CallType)
  BY StacksCalls DEF OrderInv
<1>3. CASE Make(h, f) /\ calls' = [calls EXCEPT ![h] = Push(c, Push(d, Tail(@)))]
  <2>1. k \in Id /\ m \in Id
    BY SMTT(30), <1>1, <1>2, TopCall, StacksCalls DEF OrderInv, TypeOK, New, Id
  <2>2. f \in MessageType /\ f.to = AppLog /\ f.of = k
    BY <2>1, Constants DEF Message, MessageType, Id, Address
  <2>3. arrived \in Arrivals
    BY <1>2 DEF TypeOK, Arrivals, Id
  <2>4. k[1] = h /\ \A g \in Tasks : Before(k, g, arrived)
    BY NewIsLast DEF OrderInv, New
  <2> HIDE DEF f
  <2>5. Later(created, arrived, created', arrived') /\ Of(created', k) = f
    BY <1>1, <1>2, <1>3, <2>2, <2>3, MakeLater
  <2>6. d \in CallType /\ d.op = "delete" /\ c \in CallType /\ c.op = "send" /\ c.msg = k
    BY <2>1 DEF Call, CallType, Id
  <2> DEFINE t == Tail(calls[h])
  <2>7. t \in Seq(CallType)
    BY <1>1, <1>2, TailIndex
  <2>8. InOrder(t, h, created', arrived') /\ NoSend(t)
    BY <1>1, <2>5, StackBefore, InOrderTail
  <2> HIDE DEF c, d, k, m, t
  <2>9. Ready(d, h, created', arrived') /\ Light(d, created')
    BY <2>6 DEF Ready, Light
  <2>10. Ready(c, h, created', arrived') /\ Light(c, created')
    BY <1>1, <2>2, <2>4, <2>5, <2>6, Constants DEF Ready, Light
  <2>11. InOrder(Push(d, t), h, created', arrived') /\ NoSend(Push(d, t))
    BY <2>6, <2>7, <2>8, <2>9, InOrderPush
  <2>12. Push(d, t) \in Seq(CallType)
    BY <2>6, <2>7, PushIndex
  <2>13. InOrder(Push(c, Push(d, t)), h, created', arrived')
    BY <2>6, <2>10, <2>11, <2>12, InOrderPush
  <2>14. calls' = [calls EXCEPT ![h] = Push(c, Push(d, t))]
    BY <1>3 DEF t
  <2> QED BY <1>1, <2>5, <2>13, <2>14, QuietStep
<1>4. CASE UNCHANGED <<created, heap, calls>>
  <2>1. Arrived' /\ Orderly'
    BY <1>1, <1>4 DEF OrderInv, Arrived, Orderly
  <2> QED BY <2>1 DEF OrderInv
<1> QED BY <1>3, <1>4 DEF Report

\* Nothing arrives but at g.
OnlyAt(g, ar, ar2) == \A k \in Tasks : k # g => ar2[k] = ar[k]

\* A copy of the message x of h arrives at g.
LEMMA PutArrives ==
    ASSUME OrderInv, created' \in Messages, NEW h \in Tasks, NEW g \in Tasks, NEW m,
           NEW x \in Id, Exists(created', x), x[1] = h, Put(g, m, x),
           Later(created, arrived, created', arrived')
    PROVE  /\ Own(h)
           /\ \A k \in Tasks : \A n \in arrived'[k] : n \in arrived[k] \/ Exists(created', n)
           /\ OnlyAt(g, arrived, arrived')
<1>1. arrived \in [Tasks -> SUBSET (Tasks \X Nat)]
  BY DEF OrderInv, IInv, Shape, TypeOK
<1>2. arrived' = [arrived EXCEPT ![g] = @ \cup {x}]
  BY DEF Put
<1>3. /\ \A k \in Tasks : k # g => arrived'[k] = arrived[k]
      /\ arrived'[g] = arrived[g] \cup {x}
  BY <1>1, <1>2
<1>4. \A k \in Tasks : \A n \in arrived'[k] : n \in arrived[k] \/ n = x
  BY <1>3
<1> QED BY <1>3, <1>4 DEF Own, OnlyAt

\* What is below the innermost call of h stays in order when a copy of x arrives at g, for
\* that is a copy in the log, or no broadcast is below.
LEMMA BelowStays ==
    ASSUME NEW cr, NEW ar, NEW cr2, NEW ar2, Later(cr, ar, cr2, ar2), NEW h \in Tasks,
           NEW t, AllFine(t, cr, ar), InOrder(t, h, cr, ar), NoSend(t),
           NEW g \in Tasks, OnlyAt(g, ar, ar2),
           Plain(t) \/ g = AppLog
    PROVE  InOrder(t, h, cr2, ar2)
<1>1. /\ t \in Seq(CallType) /\ Len(t) \in Nat
      /\ \A i \in 1 .. Len(t) : t[i] \in CallType /\ t[i].msg \in Id /\ Exists(cr, t[i].msg)
  BY FineCalls
<1>2. ASSUME NEW i \in 1 .. Len(t)
      PROVE  Ready(t[i], h, cr2, ar2)
  <2> DEFINE c == t[i]
  <2>1. c.msg \in Id /\ Exists(cr, c.msg) /\ c.op # "send" /\ Ready(c, h, cr, ar)
    BY <1>1 DEF InOrder, NoSend
  <2>2. Of(cr2, c.msg) = Of(cr, c.msg)
    BY <2>1 DEF Later
  <2>3. c.op = "broadcast" => g = AppLog
    BY DEF Plain
  <2> HIDE DEF c
  <2>4. ASSUME c.op = "broadcast", NEW j \in DOMAIN Order, Of(cr, c.msg).type \in Subs[Order[j]],
               Before(c.msg, Order[j], ar)
        PROVE  Before(c.msg, Order[j], ar2)
    <3>1. Order[j] \in Tasks /\ Order[j] # g
      BY <2>1, <2>3, <2>4, Constants DEF Ready
    <3> QED BY <3>1, <2>4 DEF Before, OnlyAt
  <2>5. Ready(c, h, cr2, ar2)
    BY <2>1, <2>2, <2>4 DEF Ready
  <2> QED BY <2>5 DEF c
<1>3. \A j \in 1 .. Len(t) : Light(t[j], cr) => Light(t[j], cr2)
  BY <1>1, LightLater
<1> QED BY <1>2, <1>3 DEF InOrder, Nested

\* The message a send is about, and where it goes.
LEMMA SendHandles ==
    ASSUME OrderInv, NEW h \in Tasks, SendInternal(h)
    PROVE  /\ calls[h] # <<>> /\ Head(calls[h]).op = "send"
           /\ Handled(h) \in Id /\ Exists(created, Handled(h)) /\ Handled(h)[1] = h
           /\ Fields(Handled(h)) = Of(created, Handled(h))
           /\ Fields(Handled(h)).to \in Tasks /\ Fields(Handled(h)).of = Handled(h)
           /\ Before(Handled(h), Fields(Handled(h)).to, arrived)
<1> DEFINE c == Head(calls[h])
<1>1. calls[h] # <<>> /\ c.op = "send"
  BY DEF SendInternal, Does
<1>2. TypeOK /\ Stacks /\ calls[h] \in Seq(CallType) /\ InOrder(calls[h], h, created, arrived)
  BY StacksCalls DEF OrderInv, Orderly
<1>3. /\ Handled(h) \in Id /\ Exists(created, Handled(h)) /\ c.msg = Handled(h)
      /\ Fine(c, Len(calls[h]), created, arrived)
      /\ Fields(Handled(h)) = Of(created, Handled(h))
  BY <1>1, <1>2, TopCall DEF Handled
<1>4. Ready(c, h, created, arrived)
  BY <1>1, <1>2, InOrderTail
<1>5. Of(created, c.msg).to \in Tasks
  BY <1>1, <1>3 DEF Fine
<1> QED BY <1>1, <1>3, <1>4, <1>5 DEF Ready

LEMMA SendInternalOrder ==
    ASSUME OrderInv, IInv', NEW h \in Tasks, SendInternal(h)
    PROVE  OrderInv'
<1> DEFINE m == Handled(h)  g == Fields(m).to  t == Tail(calls[h])  c == Head(calls[h])
<1>1. /\ calls[h] # <<>> /\ c.op = "send" /\ c.msg = m
      /\ m \in Id /\ Exists(created, m) /\ m[1] = h
      /\ Fields(m) = Of(created, m) /\ g \in Tasks /\ Fields(m).of = m
  BY SendHandles DEF Handled
<1>2. created' = created
  BY DEF SendInternal
<1>3. CASE Room(queue[g]) /\ Put(g, m, Fields(m).of) /\ Return(h)
  <2>1. TypeOK /\ AllFine(calls[h], created, arrived) /\ calls[h] \in Seq(CallType)
        /\ created \in Messages /\ InOrder(calls[h], h, created, arrived)
    BY StacksCalls DEF OrderInv, Orderly
  <2>2. arrived' \in Arrivals /\ \A k \in Tasks : arrived[k] \subseteq arrived'[k]
    BY <1>1, <1>3, <2>1, PutType
  <2>3. Later(created, arrived, created', arrived')
    BY <1>2, <2>1, <2>2 DEF Later
  <2>4. /\ AllFine(t, created, arrived) /\ InOrder(t, h, created, arrived) /\ NoSend(t)
        /\ ~Light(c, created) => Plain(t)
    BY <1>1, <2>1, AllFineTail, InOrderTail
  <2>5. Plain(t) \/ g = AppLog
    BY <1>1, <2>4 DEF Light
  <2>6. Put(g, m, m) /\ calls' = [calls EXCEPT ![h] = t] /\ created' \in Messages
        /\ Exists(created', m)
    BY <1>1, <1>2, <1>3, <2>1 DEF Return
  <2> HIDE DEF m, g, t, c
  <2>7. /\ Own(h) /\ OnlyAt(g, arrived, arrived')
        /\ \A k \in Tasks : \A n \in arrived'[k] : n \in arrived[k] \/ Exists(created', n)
    BY <1>1, <2>3, <2>6, PutArrives
  <2>8. InOrder(t, h, created', arrived')
    BY <1>1, <2>3, <2>4, <2>5, <2>7, BelowStays
  <2> QED BY <2>3, <2>6, <2>7, <2>8, OrderStep
<1>4. CASE Become(h, Call("report", m)) /\ UNCHANGED <<heap, queue, arrived>>
  BY <1>1, <1>2, <1>4, BecomeOrder
<1>5. CASE Return(h) /\ UNCHANGED <<queue, arrived>>
  BY <1>1, <1>2, <1>5, ReturnOrder
<1> QED BY <1>3, <1>4, <1>5 DEF SendInternal

\* The message a broadcast is about, and which subscribers it has still to come to.
LEMMA BroadcastHandles ==
    ASSUME OrderInv, NEW h \in Tasks, SendClone(h)
    PROVE  /\ calls[h] # <<>> /\ Head(calls[h]).op = "broadcast" /\ Head(calls[h]) \in CallType
           /\ Head(calls[h]).msg = Handled(h)
           /\ Handled(h) \in Id /\ Exists(created, Handled(h)) /\ Handled(h)[1] = h
           /\ Fields(Handled(h)) = Of(created, Handled(h))
           /\ Fields(Handled(h)) \in MessageType /\ Fields(Handled(h)).of = Handled(h)
           /\ Ready(Head(calls[h]), h, created, arrived)
           /\ \A i \in Rest(h) : Before(Handled(h), Order[i], arrived)
<1> DEFINE c == Head(calls[h])
<1>1. calls[h] # <<>> /\ c.op = "broadcast"
  BY DEF SendClone, Does
<1>2. TypeOK /\ Stacks /\ calls[h] \in Seq(CallType) /\ InOrder(calls[h], h, created, arrived)
  BY StacksCalls DEF OrderInv, Orderly
<1>3. /\ Handled(h) \in Id /\ Exists(created, Handled(h)) /\ c.msg = Handled(h) /\ c \in CallType
      /\ Fine(c, Len(calls[h]), created, arrived)
      /\ Fields(Handled(h)) = Of(created, Handled(h)) /\ Fields(Handled(h)) \in MessageType
  BY <1>1, <1>2, TopCall DEF Handled
<1>4. Ready(c, h, created, arrived)
  BY <1>1, <1>2, InOrderTail
<1>5. Of(created, c.msg).of = c.msg
  BY <1>1, <1>3 DEF Fine
<1>6. \A i \in Rest(h) : Before(Handled(h), Order[i], arrived)
  BY <1>1, <1>3, <1>4, RestIndex DEF Ready
<1> QED BY <1>1, <1>3, <1>4, <1>5, <1>6 DEF Ready

\* One subscriber further, a broadcast is not late at those that remain.
LEMMA FurtherReady ==
    ASSUME NEW cr, NEW ar, NEW cr2, NEW ar2, NEW h, NEW c \in CallType, c.op = "broadcast",
           c.msg \in Id, Of(cr2, c.msg) = Of(cr, c.msg), Ready(c, h, cr, ar),
           NEW i \in DOMAIN Order, c.served < i,
           NEW d, d.op = "broadcast", d.msg = c.msg, d.served = i,
           OnlyAt(Order[i], ar, ar2)
    PROVE  Ready(d, h, cr2, ar2)
<1>1. i \in Nat /\ c.served \in Nat
  BY OrderIndex DEF CallType
<1>2. ASSUME NEW j \in DOMAIN Order, i < j, Of(cr, c.msg).type \in Subs[Order[j]]
      PROVE  Before(c.msg, Order[j], ar2)
  <2>1. j \in Nat /\ j # i
    BY <1>1, <1>2, OrderIndex
  <2>2. c.served < j
    BY <1>1, <1>2, <2>1
  <2>3. Order[j] \in Tasks /\ Order[j] # Order[i]
    BY <2>1, Constants, OrderAssumption
  <2> QED BY <2>2, <2>3, <1>2 DEF Ready, Before, OnlyAt
<1> QED BY <1>2 DEF Ready

LEMMA FurtherCall ==
    ASSUME NEW c \in CallType, c.op = "broadcast", NEW i \in DOMAIN Order
    PROVE  /\ Further(c, i, TRUE) \in CallType /\ Further(c, i, TRUE).op = "broadcast"
           /\ Further(c, i, TRUE).msg = c.msg /\ Further(c, i, TRUE).served = i
           /\ Further(c, i, FALSE) \in CallType /\ Further(c, i, FALSE).op = "broadcast"
           /\ Further(c, i, FALSE).msg = c.msg /\ Further(c, i, FALSE).served = i
BY OrderIndex DEF Further, CallType

LEMMA SendCloneOrder ==
    ASSUME OrderInv, IInv', NEW h \in Tasks, SendClone(h)
    PROVE  OrderInv'
<1> DEFINE m == Handled(h)  c == Head(calls[h])  k == New(h)  t == Tail(calls[h])
<1>1. /\ calls[h] # <<>> /\ c.op = "broadcast" /\ c \in CallType /\ c.msg = m
      /\ m \in Id /\ Exists(created, m) /\ m[1] = h /\ Fields(m) = Of(created, m)
      /\ Fields(m) \in MessageType /\ Fields(m).of = m /\ Ready(c, h, created, arrived)
  BY BroadcastHandles
<1>2. Make(h, Fields(m))
  BY DEF SendClone
<1>3. PICK i \in Rest(h) :
        \/ /\ Room(queue[Order[i]])
           /\ Put(Order[i], k, Fields(m).of)
           /\ Become(h, Further(c, i, TRUE))
        \/ /\ ~Room(queue[Order[i]])
           /\ calls' = [calls EXCEPT ![h] =
                  Push(Call("report", k), Push(Further(c, i, FALSE), Tail(@)))]
           /\ UNCHANGED <<queue, arrived>>
  BY DEF SendClone
<1>4. i \in DOMAIN Order /\ Order[i] \in Tasks /\ c.served < i
  BY <1>3, RestIndex
<1>5. TypeOK /\ AllFine(calls[h], created, arrived) /\ calls[h] \in Seq(CallType)
      /\ InOrder(calls[h], h, created, arrived)
  BY StacksCalls DEF OrderInv, Orderly
<1>6. k \in Id
  BY <1>5 DEF TypeOK, New, Id
<1>7. /\ AllFine(t, created, arrived) /\ InOrder(t, h, created, arrived) /\ NoSend(t)
      /\ Plain(t) /\ t \in Seq(CallType)
  BY <1>1, <1>5, AllFineTail, InOrderTail, TailIndex DEF Light
<1> HIDE DEF k
<1>8. /\ created' \in Messages
      /\ arrived' \in Arrivals /\ (\A g \in Tasks : arrived[g] \subseteq arrived'[g])
            => Later(created, arrived, created', arrived')
  BY <1>1, <1>2, <1>5, MakeLater
<1>9. ASSUME Later(created, arrived, created', arrived')
      PROVE  Exists(created', m) /\ Of(created', m) = Of(created, m)
  BY <1>1, <1>9 DEF Later
<1>10. CASE /\ Room(queue[Order[i]]) /\ Put(Order[i], k, Fields(m).of)
            /\ Become(h, Further(c, i, TRUE))
  <2>1. arrived' \in Arrivals /\ \A g \in Tasks : arrived[g] \subseteq arrived'[g]
    BY <1>1, <1>4, <1>5, <1>6, <1>10, PutType
  <2>2. Later(created, arrived, created', arrived')
    BY <1>8, <2>1
  <2>3. /\ Put(Order[i], k, m) /\ Exists(created', m) /\ Of(created', m) = Of(created, m)
        /\ calls' = [calls EXCEPT ![h] = Push(Further(c, i, TRUE), t)]
    BY <1>1, <1>9, <1>10, <2>2 DEF Become
  <2> HIDE DEF m, c, t
  <2>4. /\ Own(h) /\ OnlyAt(Order[i], arrived, arrived')
        /\ \A g \in Tasks : \A n \in arrived'[g] : n \in arrived[g] \/ Exists(created', n)
    BY <1>1, <1>4, <1>8, <2>2, <2>3, PutArrives
  <2>5. InOrder(t, h, created', arrived')
    BY <1>4, <1>7, <2>2, <2>4, BelowStays
  <2> DEFINE d == Further(c, i, TRUE)
  <2>6. d \in CallType /\ d.op = "broadcast" /\ d.msg = c.msg /\ d.served = i
    BY <1>1, <1>4, FurtherCall
  <2> HIDE DEF d
  <2>7. Ready(d, h, created', arrived')
    BY <1>1, <1>4, <2>3, <2>4, <2>6, FurtherReady
  <2>8. InOrder(Push(d, t), h, created', arrived')
    BY <1>7, <2>5, <2>6, <2>7, InOrderPush
  <2> QED BY <2>2, <2>3, <2>4, <2>8, OrderStep DEF d
<1>11. CASE /\ calls' = [calls EXCEPT ![h] =
                     Push(Call("report", k), Push(Further(c, i, FALSE), Tail(@)))]
            /\ UNCHANGED <<queue, arrived>>
  <2> DEFINE r == Call("report", k)  d == Further(c, i, FALSE)
  <2>1. arrived' = arrived /\ arrived' \in Arrivals
    BY <1>5, <1>11 DEF TypeOK, Arrivals, Id
  <2>2. Later(created, arrived, created', arrived')
    BY <1>8, <2>1
  <2>3. InOrder(t, h, created', arrived')
    BY <1>1, <2>1, <2>2, StackBefore, InOrderTail
  <2>4. r \in CallType /\ r.op = "report"
    BY <1>6 DEF Call, CallType, Id
  <2>5. calls' = [calls EXCEPT ![h] = Push(r, Push(d, t))]
    BY <1>11
  <2> HIDE DEF r
  <2>6. Ready(r, h, created', arrived') /\ Light(r, created')
    BY <2>4 DEF Ready, Light
  <2>7. Of(created', m) = Of(created, m)
    BY <1>9, <2>2
  <2> HIDE DEF m, c, t
  <2>8. d \in CallType /\ d.op = "broadcast" /\ d.msg = c.msg /\ d.served = i
    BY <1>1, <1>4, FurtherCall
  <2> HIDE DEF d
  <2>9. Ready(d, h, created', arrived')
    BY <1>1, <1>4, <2>1, <2>7, <2>8, FurtherReady DEF OnlyAt
  <2>10. InOrder(Push(d, t), h, created', arrived') /\ NoSend(Push(d, t))
    BY <1>7, <2>3, <2>8, <2>9, InOrderPush
  <2>11. Push(d, t) \in Seq(CallType)
    BY <1>7, <2>8, PushIndex
  <2>12. InOrder(Push(r, Push(d, t)), h, created', arrived')
    BY <2>4, <2>6, <2>10, <2>11, InOrderPush
  <2> QED BY <2>1, <2>2, <2>5, <2>12, QuietStep
<1> QED BY <1>3, <1>10, <1>11

-----------------------------------------------------------------------------
(* The invariant, and what a queue gets.                                   *)

LEMMA InitOrder == Init => OrderInv
<1> SUFFICES ASSUME Init PROVE OrderInv
  OBVIOUS
<1>1. IInv
  BY InitInv
<1>2. Arrived
  BY DEF Init, Arrived
<1>3. Orderly
  BY DEF Init, Orderly, InOrder, Nested
<1> QED BY <1>1, <1>2, <1>3 DEF OrderInv

LEMMA NextOrder == OrderInv /\ [Next]_vars => OrderInv'
<1> SUFFICES ASSUME OrderInv, [Next]_vars PROVE OrderInv'
  OBVIOUS
<1>1. IInv'
  BY NextInv DEF OrderInv
<1>2. CASE UNCHANGED vars
  <2>1. Arrived' /\ Orderly'
    BY <1>2 DEF vars, OrderInv, Arrived, Orderly
  <2> QED BY <1>1, <2>1 DEF OrderInv
<1>3. ASSUME NEW h \in Tasks, Work(h) \/ TaskSends(h)
      PROVE  OrderInv'
  <2>1. CASE TaskSends(h)
    BY <1>1, <2>1, SendOrder DEF TaskSends
  <2>2. CASE CallbackSends(h)
    BY <1>1, <2>2, SendOrder DEF CallbackSends, Does
  <2>3. CASE SendInternal(h)
    BY <1>1, <2>3, SendInternalOrder
  <2>4. CASE SendExternal(h)
    BY <1>1, <2>4, SendExternalOrder
  <2>5. CASE Report(h)
    BY <1>1, <2>5, ReportOrder
  <2>6. CASE Delete(h)
    BY <1>1, <2>6, ReturnOrder DEF Delete, Does
  <2>7. CASE SendClone(h)
    BY <1>1, <2>7, SendCloneOrder
  <2>8. CASE EndBroadcast(h)
    BY <1>1, <2>8, EndBroadcastOrder
  <2>9. CASE Receive(h)
    BY <1>1, <2>9, ReceiveOrder
  <2>10. CASE ReceiveExternal(h)
    BY <1>1, <2>10, ReceiveExternalOrder
  <2>11. CASE CallbackEnds(h)
    BY <1>1, <2>11, ReturnOrder DEF CallbackEnds, Does
  <2> QED BY <1>3, <2>1, <2>2, <2>3, <2>4, <2>5, <2>6, <2>7, <2>8, <2>9, <2>10, <2>11 DEF Work
<1> QED BY <1>2, <1>3 DEF Next

\* What a handler gets at the end of its queue.
Gets(g) ==
    LET last == queue'[g][Len(queue'[g])]
        m == created'[last[1]][last[2]]
    IN  /\ m.type \in Subs[g]
        /\ \A n \in arrived[g] : n[1] = m.of[1] => n[2] < m.of[2]

\* A copy k of the message x comes to g.
LEMMA PutGets ==
    ASSUME OrderInv, NEW g \in Tasks, NEW k \in Id, NEW x, Put(g, k, x),
           Of(created', k).type \in Subs[g], Of(created', k).of = x, Before(x, g, arrived)
    PROVE  \A f \in Tasks : Len(queue'[f]) > Len(queue[f]) => Gets(f)
<1>1. queue \in [Tasks -> Seq(Id)]
  BY DEF OrderInv, IInv, Shape, TypeOK, Id
<1>2. queue' = [queue EXCEPT ![g] = Append(queue[g], k)]
  BY DEF Put
<1>3. /\ queue'[g] = Append(queue[g], k)
      /\ \A f \in Tasks : f # g => queue'[f] = queue[f]
  BY <1>1, <1>2
<1>4. \A f \in Tasks : Len(queue[f]) \in Nat
  BY <1>1
<1>5. queue'[g][Len(queue'[g])] = k
  BY <1>1, <1>3, AppendIndex
<1>6. Gets(g)
  BY <1>5 DEF Gets, Of, Before
<1> QED BY <1>3, <1>4, <1>6

\* No other step makes a queue longer.
LEMMA TakesGets ==
    ASSUME OrderInv, NEW h \in Tasks, Receive(h)
    PROVE  \A f \in Tasks : ~(Len(queue'[f]) > Len(queue[f]))
<1>1. queue \in [Tasks -> Seq(Id)]
  BY DEF OrderInv, IInv, Shape, TypeOK, Id
<1>2. queue[h] # <<>> /\ queue' = [queue EXCEPT ![h] = Tail(queue[h])]
  BY DEF Receive
<1>3. Len(Tail(queue[h])) = Len(queue[h]) - 1 /\ Len(queue[h]) \in Nat
  BY <1>1, <1>2, TailIndex
<1>4. \A f \in Tasks : Len(queue[f]) \in Nat
  BY <1>1
<1>5. /\ queue'[h] = Tail(queue[h])
      /\ \A f \in Tasks : f # h => queue'[f] = queue[f]
  BY <1>1, <1>2
<1>6. ASSUME NEW f \in Tasks
      PROVE  ~(Len(queue'[f]) > Len(queue[f]))
  <2>1. CASE f = h
    <3>1. Len(queue'[f]) = Len(queue[h]) - 1
      BY <2>1, <1>3, <1>5
    <3> QED BY <3>1, <2>1, <1>3
  <2>2. CASE f # h
    <3>1. queue'[f] = queue[f]
      BY <2>2, <1>5
    <3> QED BY <3>1, <1>4
  <2> QED BY <2>1, <2>2
<1> QED BY <1>6

LEMMA StepGets ==
    ASSUME OrderInv, [Next]_vars
    PROVE  \A g \in Tasks : Len(queue'[g]) > Len(queue[g]) => Gets(g)
<1>1. ASSUME queue' = queue
      PROVE  \A g \in Tasks : ~(Len(queue'[g]) > Len(queue[g]))
  <2>1. \A g \in Tasks : Len(queue[g]) \in Nat
    BY DEF OrderInv, IInv, Shape, TypeOK
  <2> QED BY <1>1, <2>1
<1>2. CASE UNCHANGED vars
  BY <1>1, <1>2 DEF vars
<1>3. ASSUME NEW h \in Tasks, Work(h) \/ TaskSends(h)
      PROVE  \A g \in Tasks : Len(queue'[g]) > Len(queue[g]) => Gets(g)
  <2>1. CASE SendInternal(h)
    <3> DEFINE m == Handled(h)  g == Fields(m).to
    <3>1. /\ m \in Id /\ Fields(m) = Of(created, m) /\ g \in Tasks
          /\ Fields(m).of = m /\ Before(m, g, arrived) /\ created' = created
      BY <2>1, SendHandles DEF SendInternal
    <3>2. CASE Fields(m).type \in Subs[g] /\ Put(g, m, Fields(m).of)
      BY <3>1, <3>2, PutGets
    <3>3. CASE queue' = queue
      BY <3>3, <1>1
    <3> QED BY <2>1, <3>2, <3>3 DEF SendInternal
  <2>2. CASE SendClone(h)
    <3> DEFINE m == Handled(h)  k == New(h)
    <3>1. /\ Fields(m) \in MessageType /\ Fields(m).of = m
          /\ \A i \in Rest(h) : Before(m, Order[i], arrived)
      BY <2>2, BroadcastHandles
    <3>2. Make(h, Fields(m)) /\ TypeOK
      BY <2>2, StacksCalls DEF SendClone, OrderInv
    <3>3. k \in Id /\ Of(created', k) = Fields(m)
      BY <3>1, <3>2, MakeLater
    <3>4. PICK i \in Rest(h) : Put(Order[i], k, Fields(m).of) \/ queue' = queue
      BY <2>2 DEF SendClone
    <3>5. Order[i] \in Tasks /\ Fields(m).type \in Subs[Order[i]]
      BY <3>4, RestIndex
    <3>6. CASE Put(Order[i], k, Fields(m).of)
      BY <3>1, <3>3, <3>4, <3>5, <3>6, PutGets
    <3>7. CASE queue' = queue
      BY <3>7, <1>1
    <3> QED BY <3>4, <3>6, <3>7
  <2>3. CASE Receive(h)
    BY <2>3, TakesGets
  <2>4. CASE \/ SendExternal(h) \/ Report(h) \/ Delete(h) \/ EndBroadcast(h)
             \/ ReceiveExternal(h) \/ CallbackEnds(h)
    <3>1. queue' = queue
      BY <2>4 DEF SendExternal, Report, Delete, EndBroadcast, ReceiveExternal, CallbackEnds
    <3> QED BY <3>1, <1>1
  <2>5. CASE CallbackSends(h) \/ TaskSends(h)
    <3>1. queue' = queue
      BY <2>5 DEF CallbackSends, TaskSends, Send
    <3> QED BY <3>1, <1>1
  <2> QED BY <1>3, <2>1, <2>2, <2>3, <2>4, <2>5 DEF Work
<1> QED BY <1>2, <1>3 DEF Next

\* No handler gets a message twice, and those of one sender come to it in the order in
\* which they were sent, however the receivers interrupt the sender between two copies of
\* a broadcast and whichever of the queues are full.
THEOREM EachOnceInOrder == Spec => OnceInOrder
<1>1. Spec => []OrderInv
  BY InitOrder, NextOrder, PTL DEF Spec
<1>2. OrderInv /\ [Next]_vars =>
        [\A g \in Tasks : Len(queue'[g]) > Len(queue[g]) =>
            LET last == queue'[g][Len(queue'[g])]
                m == created'[last[1]][last[2]]
            IN  /\ m.type \in Subs[g]
                /\ \A n \in arrived[g] : n[1] = m.of[1] => n[2] < m.of[2]]_vars
  BY StepGets DEF Gets
<1> QED BY <1>1, <1>2, PTL DEF Spec, OnceInOrder

=============================================================================
