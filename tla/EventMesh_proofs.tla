-------------------------- MODULE EventMesh_proofs --------------------------
(***************************************************************************)
(* Proofs about EventMesh, for all tasks, handlers, subscriptions, queue   *)
(* lengths and stacks.                                                     *)
(***************************************************************************)
EXTENDS EventMesh, TLAPS

-----------------------------------------------------------------------------
(* Sequences, and sequences of messages that are all different.            *)

Id == Tasks \X Nat

Distinct(q) == \A i, j \in DOMAIN q : q[i] = q[j] => i = j
Ran(q)      == {q[i] : i \in DOMAIN q}
Ids(s)      == [i \in DOMAIN s |-> s[i].msg]

LEMMA PushIndex ==
    ASSUME NEW S, NEW s \in Seq(S), NEW c \in S
    PROVE  /\ Push(c, s) \in Seq(S) /\ Len(Push(c, s)) = Len(s) + 1
           /\ DOMAIN Push(c, s) = 1 .. Len(s) + 1
           /\ DOMAIN s = 1 .. Len(s) /\ Len(s) \in Nat
           /\ Push(c, s) # <<>> /\ Head(Push(c, s)) = c /\ Push(c, s)[1] = c
           /\ \A i \in 1 .. Len(s) : Push(c, s)[i + 1] = s[i]
BY DEF Push

LEMMA TailIndex ==
    ASSUME NEW S, NEW s \in Seq(S), s # <<>>
    PROVE  /\ Tail(s) \in Seq(S) /\ Len(Tail(s)) = Len(s) - 1
           /\ DOMAIN Tail(s) = 1 .. Len(s) - 1
           /\ DOMAIN s = 1 .. Len(s) /\ Len(s) \in Nat \ {0}
           /\ Head(s) = s[1] /\ Head(s) \in S
           /\ \A i \in 1 .. Len(s) - 1 : Tail(s)[i] = s[i + 1]
OBVIOUS

LEMMA AppendIndex ==
    ASSUME NEW S, NEW s \in Seq(S), NEW m \in S
    PROVE  /\ Append(s, m) \in Seq(S) /\ Len(Append(s, m)) = Len(s) + 1
           /\ DOMAIN Append(s, m) = 1 .. Len(s) + 1
           /\ DOMAIN s = 1 .. Len(s) /\ Len(s) \in Nat
           /\ Append(s, m)[Len(s) + 1] = m
           /\ \A i \in 1 .. Len(s) : Append(s, m)[i] = s[i]
OBVIOUS

\* A message more at the end of a queue.
LEMMA DistinctAppend ==
    ASSUME NEW S, NEW q \in Seq(S), NEW m \in S
    PROVE  /\ Ran(Append(q, m)) = Ran(q) \cup {m}
           /\ Distinct(q) /\ m \notin Ran(q) => Distinct(Append(q, m))
<1> DEFINE r == Append(q, m)
<1>1. DOMAIN r = 1 .. Len(q) + 1 /\ DOMAIN q = 1 .. Len(q) /\ Len(q) \in Nat
  BY AppendIndex
<1>2. \A i \in 1 .. Len(q) : r[i] = q[i]
  BY AppendIndex
<1>3. r[Len(q) + 1] = m
  BY AppendIndex
<1> HIDE DEF r
<1>4. \A i \in 1 .. Len(q) + 1 : i \in 1 .. Len(q) \/ i = Len(q) + 1
  BY <1>1
<1>5. \A i \in 1 .. Len(q) : i \in 1 .. Len(q) + 1
  BY <1>1
<1>6. Len(q) + 1 \in 1 .. Len(q) + 1
  BY <1>1
<1>7. Ran(r) = Ran(q) \cup {m}
  BY <1>1, <1>2, <1>3, <1>4, <1>5, <1>6 DEF Ran
<1>8. Distinct(q) /\ m \notin Ran(q) => Distinct(r)
  BY <1>1, <1>2, <1>3, <1>4, <1>5, <1>6 DEF Ran, Distinct
<1> QED BY <1>7, <1>8 DEF r

\* The first message of a queue is taken.
LEMMA DistinctTail ==
    ASSUME NEW S, NEW q \in Seq(S), q # <<>>, Distinct(q)
    PROVE  /\ Distinct(Tail(q)) /\ Ran(Tail(q)) = Ran(q) \ {Head(q)}
           /\ Head(q) \in Ran(q)
<1> DEFINE n == Len(q)  t == Tail(q)
<1>1. /\ DOMAIN t = 1 .. n - 1 /\ DOMAIN q = 1 .. n /\ n \in Nat \ {0}
      /\ Head(q) = q[1] /\ \A i \in 1 .. n - 1 : t[i] = q[i + 1]
  BY TailIndex
<1> HIDE DEF n, t
<1>2. \A i \in 1 .. n : i = 1 \/ (i - 1 \in 1 .. n - 1 /\ t[i - 1] = q[i])
  BY <1>1
<1>3. \A i \in 1 .. n - 1 : i + 1 \in 1 .. n /\ i + 1 # 1
  BY <1>1
<1>4. 1 \in 1 .. n
  BY <1>1
<1>5. \A i, j \in 1 .. n - 1 : t[i] = t[j] => i = j
  <2>1. SUFFICES ASSUME NEW i \in 1 .. n - 1, NEW j \in 1 .. n - 1, t[i] = t[j]
                 PROVE  i = j
    OBVIOUS
  <2>2. q[i + 1] = q[j + 1] /\ i + 1 \in 1 .. n /\ j + 1 \in 1 .. n
    BY <1>1, <1>3, <2>1
  <2>3. i + 1 = j + 1
    BY <2>2, <1>1 DEF Distinct
  <2> QED BY <2>3
<1>6. Distinct(t)
  BY <1>1, <1>5 DEF Distinct
<1>7. \A i \in 1 .. n - 1 : t[i] # q[1]
  BY <1>1, <1>3, <1>4 DEF Distinct
<1>8. Ran(t) \subseteq Ran(q) \ {q[1]}
  BY <1>1, <1>3, <1>7 DEF Ran
<1>9. Ran(q) \ {q[1]} \subseteq Ran(t)
  <2>1. Ran(q) = {q[i] : i \in 1 .. n} /\ Ran(t) = {t[i] : i \in 1 .. n - 1}
    BY <1>1 DEF Ran
  <2> QED BY <2>1, <1>2
<1>10. q[1] \in Ran(q)
  BY <1>1, <1>4 DEF Ran
<1> QED BY <1>1, <1>6, <1>8, <1>9, <1>10 DEF t

\* A call with a message of its own on top of a stack.
LEMMA DistinctPush ==
    ASSUME NEW s \in Seq(CallType), NEW c \in CallType
    PROVE  /\ Ran(Ids(Push(c, s))) = Ran(Ids(s)) \cup {c.msg}
           /\ Distinct(Ids(s)) /\ c.msg \notin Ran(Ids(s)) => Distinct(Ids(Push(c, s)))
<1> DEFINE n == Len(s)  p == Push(c, s)
<1>1. /\ DOMAIN p = 1 .. n + 1 /\ DOMAIN s = 1 .. n /\ n \in Nat /\ p[1] = c
      /\ \A i \in 1 .. n : p[i + 1] = s[i]
  BY PushIndex
<1> HIDE DEF n, p
<1>2. \A i \in 1 .. n + 1 : i = 1 \/ (i - 1 \in 1 .. n /\ p[i] = s[i - 1])
  BY <1>1
<1>3. \A i \in 1 .. n : i + 1 \in 1 .. n + 1
  BY <1>1
<1>4. 1 \in 1 .. n + 1
  BY <1>1
<1>5. Ran(Ids(p)) = {p[i].msg : i \in 1 .. n + 1} /\ Ran(Ids(s)) = {s[i].msg : i \in 1 .. n}
  BY <1>1 DEF Ran, Ids
<1>6. Ran(Ids(p)) = Ran(Ids(s)) \cup {c.msg}
  BY <1>1, <1>2, <1>3, <1>4, <1>5
<1>7. ASSUME Distinct(Ids(s)), c.msg \notin Ran(Ids(s))
      PROVE  Distinct(Ids(p))
  <2>1. \A i, j \in 1 .. n : s[i].msg = s[j].msg => i = j
    BY <1>1, <1>7 DEF Distinct, Ids
  <2>2. SUFFICES ASSUME NEW i \in 1 .. n + 1, NEW j \in 1 .. n + 1, p[i].msg = p[j].msg
                 PROVE  i = j
    BY <1>1 DEF Distinct, Ids
  <2>3. \A k \in 1 .. n : s[k].msg # c.msg
    BY <1>5, <1>7
  <2>4. CASE i = 1 /\ j = 1
    BY <2>4
  <2>5. CASE i = 1 /\ j # 1
    BY <2>5, <1>1, <1>2, <2>2, <2>3
  <2>6. CASE i # 1 /\ j = 1
    BY <2>6, <1>1, <1>2, <2>2, <2>3
  <2>7. CASE i # 1 /\ j # 1
    <3>1. /\ i - 1 \in 1 .. n /\ p[i] = s[i - 1]
          /\ j - 1 \in 1 .. n /\ p[j] = s[j - 1]
      BY <2>7, <1>2
    <3>2. i - 1 = j - 1
      BY <3>1, <2>1, <2>2
    <3> QED BY <3>2
  <2> QED BY <2>4, <2>5, <2>6, <2>7
<1> QED BY <1>6, <1>7 DEF p

\* The innermost call is over.
LEMMA DistinctReturn ==
    ASSUME NEW s \in Seq(CallType), s # <<>>, Distinct(Ids(s))
    PROVE  /\ Distinct(Ids(Tail(s)))
           /\ Ran(Ids(Tail(s))) = Ran(Ids(s)) \ {Head(s).msg}
           /\ Head(s).msg \in Ran(Ids(s))
<1> DEFINE n == Len(s)  t == Tail(s)
<1>1. /\ DOMAIN t = 1 .. n - 1 /\ DOMAIN s = 1 .. n /\ n \in Nat \ {0}
      /\ Head(s) = s[1] /\ \A i \in 1 .. n - 1 : t[i] = s[i + 1]
  BY TailIndex
<1> HIDE DEF n, t
<1>2. \A i \in 1 .. n : i = 1 \/ (i - 1 \in 1 .. n - 1 /\ t[i - 1] = s[i])
  BY <1>1
<1>3. \A i \in 1 .. n - 1 : i + 1 \in 1 .. n /\ i + 1 # 1
  BY <1>1
<1>4. 1 \in 1 .. n
  BY <1>1
<1>5. Ran(Ids(t)) = {t[i].msg : i \in 1 .. n - 1} /\ Ran(Ids(s)) = {s[i].msg : i \in 1 .. n}
  BY <1>1 DEF Ran, Ids
<1>6. \A i, j \in 1 .. n : s[i].msg = s[j].msg => i = j
  BY <1>1 DEF Distinct, Ids
<1>7. \A i, j \in 1 .. n - 1 : t[i].msg = t[j].msg => i = j
  <2>1. SUFFICES ASSUME NEW i \in 1 .. n - 1, NEW j \in 1 .. n - 1, t[i].msg = t[j].msg
                 PROVE  i = j
    OBVIOUS
  <2>2. s[i + 1].msg = s[j + 1].msg /\ i + 1 \in 1 .. n /\ j + 1 \in 1 .. n
    BY <1>1, <1>3, <2>1
  <2>3. i + 1 = j + 1
    BY <2>2, <1>6
  <2> QED BY <2>3
<1>8. Distinct(Ids(t))
  BY <1>1, <1>7 DEF Distinct, Ids
<1>9. \A i \in 1 .. n - 1 : t[i].msg # s[1].msg
  BY <1>1, <1>3, <1>4, <1>6
<1>10. Ran(Ids(t)) \subseteq Ran(Ids(s)) \ {s[1].msg}
  BY <1>1, <1>3, <1>5, <1>9
<1>11. Ran(Ids(s)) \ {s[1].msg} \subseteq Ran(Ids(t))
  BY <1>2, <1>5
<1>12. s[1].msg \in Ran(Ids(s))
  BY <1>4, <1>5
<1> QED BY <1>1, <1>8, <1>10, <1>11, <1>12 DEF t

\* The innermost call becomes another one about the same message.
LEMMA DistinctBecome ==
    ASSUME NEW s \in Seq(CallType), s # <<>>, Distinct(Ids(s)),
           NEW c \in CallType, c.msg = Head(s).msg
    PROVE  Distinct(Ids(Push(c, Tail(s)))) /\ Ran(Ids(Push(c, Tail(s)))) = Ran(Ids(s))
<1>1. Tail(s) \in Seq(CallType)
  BY TailIndex
<1>2. /\ Distinct(Ids(Tail(s)))
      /\ Ran(Ids(Tail(s))) = Ran(Ids(s)) \ {Head(s).msg}
      /\ Head(s).msg \in Ran(Ids(s))
  BY DistinctReturn
<1>3. /\ Ran(Ids(Push(c, Tail(s)))) = Ran(Ids(Tail(s))) \cup {c.msg}
      /\ Distinct(Ids(Tail(s))) /\ c.msg \notin Ran(Ids(Tail(s)))
            => Distinct(Ids(Push(c, Tail(s))))
  BY <1>1, DistinctPush
<1> QED BY <1>2, <1>3

-----------------------------------------------------------------------------
(* Messages, and calls in the midst of which a task may be.                *)

Messages == [Tasks -> Seq(MessageType)]
Arrivals == [Tasks -> SUBSET Id]

Exists(cr, m) == m \in Id /\ m[2] \in DOMAIN cr[m[1]]
Of(cr, m)     == cr[m[1]][m[2]]

Later(cr, ar, cr2, ar2) ==
    /\ cr2 \in Messages /\ ar2 \in Arrivals
    /\ \A m \in Id : Exists(cr, m) => Exists(cr2, m) /\ Of(cr2, m) = Of(cr, m)
    /\ \A g \in Tasks : ar[g] \subseteq ar2[g]

\* A call c that is the d-th of its stack, when cr was created and ar arrived: what
\* it is about, how deep it can be, and who already got the message.
Fine(c, d, cr, ar) ==
    /\ Exists(cr, c.msg)
    /\ c.op = "send" => Of(cr, c.msg).to \in Tasks
    /\ c.op = "broadcast" => Of(cr, c.msg).to \in {Everyone, FC} /\ Of(cr, c.msg).of = c.msg
    /\ c.op \in {"send", "report", "delete"} => d <= 4 \/ Of(cr, c.msg).to = AppLog
    /\ c.op \in {"broadcast", "external"} => d <= 3
    /\ c.op = "handle" => d <= 2
    /\ c.op = "transmit" => d <= 1
    /\ c.op = "external" /\ Of(cr, c.msg).to = Everyone =>
          \A g \in Tasks : Of(cr, c.msg).type \in Subs[g] => c.msg \in ar[g]
    /\ c.op = "broadcast" /\ c.result =>
          \A i \in DOMAIN Order : i <= c.served /\ Of(cr, c.msg).type \in Subs[Order[i]]
                                    => c.msg \in ar[Order[i]]

AllFine(s, cr, ar) ==
    /\ s \in Seq(CallType) /\ Len(s) <= StackDepth
    /\ \A i \in 1 .. Len(s) : Fine(s[i], Len(s) - i + 1, cr, ar)

LEMMA Constants ==
    /\ \A i \in DOMAIN Order : Order[i] \in Tasks
    /\ \A g \in Tasks : \E i \in DOMAIN Order : g = Order[i]
    /\ AppLog \in Tasks /\ Tx \in Tasks /\ Text \in Types
    /\ Everyone \notin Tasks /\ FC \notin Tasks /\ GS \notin Tasks
    /\ Everyone # FC /\ Everyone # GS /\ FC # GS
    /\ Subs \in [Tasks -> SUBSET Types]
    /\ QueueLength \in Nat /\ StackDepth \in Nat /\ StackDepth >= 5 /\ MaxSends \in Nat
BY MeshAssumption DEF Tasks, Everyone, FC, GS

LEMMA OrderIndex == \A i \in DOMAIN Order : i \in Nat /\ i > 0 /\ ~(i <= 0)
BY MeshAssumption

LEMMA OfType ==
    ASSUME NEW cr \in Messages, NEW m \in Id, Exists(cr, m)
    PROVE  /\ Of(cr, m) \in MessageType /\ m[1] \in Tasks /\ m[2] \in Nat
           /\ Of(cr, m).type \in Types /\ Of(cr, m).to \in Address /\ Of(cr, m).of \in Id
<1>1. m[1] \in Tasks /\ m[2] \in Nat
  BY DEF Id
<1>2. cr[m[1]] \in Seq(MessageType) /\ m[2] \in DOMAIN cr[m[1]]
  BY <1>1 DEF Messages, Exists
<1>3. Of(cr, m) \in MessageType
  BY <1>2 DEF Of
<1> QED BY <1>1, <1>3 DEF MessageType, Id

LEMMA FineLater ==
    ASSUME NEW cr, NEW ar, NEW cr2, NEW ar2, Later(cr, ar, cr2, ar2),
           NEW c \in CallType, NEW d \in Nat, Fine(c, d, cr, ar)
    PROVE  Fine(c, d, cr2, ar2)
<1>1. Exists(cr, c.msg) /\ c.msg \in Id
  BY DEF Fine, CallType, Id
<1>2. Exists(cr2, c.msg) /\ Of(cr2, c.msg) = Of(cr, c.msg)
  BY <1>1 DEF Later
<1>3. \A g \in Tasks : c.msg \in ar[g] => c.msg \in ar2[g]
  BY DEF Later
<1>4. \A i \in DOMAIN Order : c.msg \in ar[Order[i]] => c.msg \in ar2[Order[i]]
  BY <1>3, Constants
<1> QED BY <1>2, <1>3, <1>4 DEF Fine

LEMMA AllFineLater ==
    ASSUME NEW cr, NEW ar, NEW cr2, NEW ar2, Later(cr, ar, cr2, ar2),
           NEW s, AllFine(s, cr, ar)
    PROVE  AllFine(s, cr2, ar2)
<1>1. s \in Seq(CallType) /\ Len(s) \in Nat /\ Len(s) <= StackDepth
  BY DEF AllFine
<1>2. ASSUME NEW i \in 1 .. Len(s)
      PROVE  Fine(s[i], Len(s) - i + 1, cr2, ar2)
  <2>1. s[i] \in CallType /\ Len(s) - i + 1 \in Nat
    BY <1>1
  <2>2. Fine(s[i], Len(s) - i + 1, cr, ar)
    BY DEF AllFine
  <2> QED BY <2>1, <2>2, FineLater
<1> QED BY <1>1, <1>2 DEF AllFine

LEMMA AllFinePush ==
    ASSUME NEW cr, NEW ar, NEW s, AllFine(s, cr, ar), Len(s) < StackDepth,
           NEW c \in CallType, Fine(c, Len(s) + 1, cr, ar)
    PROVE  AllFine(Push(c, s), cr, ar) /\ Len(Push(c, s)) = Len(s) + 1
<1> DEFINE n == Len(s)  p == Push(c, s)
<1>1. s \in Seq(CallType) /\ n \in Nat
  BY DEF AllFine
<1>2. /\ p \in Seq(CallType) /\ Len(p) = n + 1 /\ p[1] = c
      /\ \A i \in 1 .. n : p[i + 1] = s[i]
  BY <1>1, PushIndex
<1>3. \A i \in 1 .. n : Fine(s[i], n - i + 1, cr, ar)
  BY DEF AllFine
<1>4. Fine(c, n + 1, cr, ar) /\ n < StackDepth
  OBVIOUS
<1> HIDE DEF n, p
<1>5. ASSUME NEW i \in 1 .. n + 1
      PROVE  Fine(p[i], n + 1 - i + 1, cr, ar)
  <2>1. CASE i = 1
    <3>1. n + 1 - i + 1 = n + 1
      BY <2>1, <1>1
    <3> QED BY <3>1, <2>1, <1>2, <1>4
  <2>2. CASE i # 1
    <3>1. i - 1 \in 1 .. n /\ n - (i - 1) + 1 = n + 1 - i + 1 /\ (i - 1) + 1 = i
      BY <2>2, <1>1
    <3>2. p[i] = s[i - 1]
      BY <3>1, <1>2
    <3>3. Fine(s[i - 1], n - (i - 1) + 1, cr, ar)
      BY <3>1, <1>3
    <3> QED BY <3>1, <3>2, <3>3
  <2> QED BY <2>1, <2>2
<1>6. n + 1 <= StackDepth
  BY <1>1, <1>4, Constants
<1>7. \A i \in 1 .. Len(p) : Fine(p[i], Len(p) - i + 1, cr, ar)
  <2>1. Len(p) = n + 1
    BY <1>2
  <2>2. SUFFICES ASSUME NEW i \in 1 .. Len(p)
                 PROVE  Fine(p[i], Len(p) - i + 1, cr, ar)
    OBVIOUS
  <2>3. i \in 1 .. n + 1 /\ Len(p) - i + 1 = n + 1 - i + 1
    BY <2>1, <1>1
  <2>4. Fine(p[i], n + 1 - i + 1, cr, ar)
    BY <2>3, <1>5
  <2> QED BY <2>3, <2>4
<1>8. AllFine(p, cr, ar)
  BY <1>2, <1>6, <1>7 DEF AllFine
<1> QED BY <1>2, <1>8 DEF p, n

LEMMA AllFineTail ==
    ASSUME NEW cr, NEW ar, NEW s, AllFine(s, cr, ar), s # <<>>
    PROVE  /\ AllFine(Tail(s), cr, ar) /\ Len(Tail(s)) = Len(s) - 1 /\ Len(s) \in Nat \ {0}
           /\ Len(Tail(s)) \in Nat /\ Len(s) <= StackDepth
           /\ Head(s) \in CallType /\ Fine(Head(s), Len(s), cr, ar)
<1> DEFINE n == Len(s)  t == Tail(s)
<1>1. s \in Seq(CallType) /\ n <= StackDepth
  BY DEF AllFine
<1>2. /\ t \in Seq(CallType) /\ Len(t) = n - 1 /\ n \in Nat \ {0}
      /\ Head(s) = s[1] /\ Head(s) \in CallType
      /\ \A i \in 1 .. n - 1 : t[i] = s[i + 1]
  BY <1>1, TailIndex
<1>3. \A i \in 1 .. n : Fine(s[i], n - i + 1, cr, ar)
  BY DEF AllFine
<1> HIDE DEF n, t
<1>4. Fine(s[1], n, cr, ar)
  <2>1. 1 \in 1 .. n /\ n - 1 + 1 = n
    BY <1>2
  <2> QED BY <2>1, <1>3
<1>5. ASSUME NEW i \in 1 .. n - 1
      PROVE  Fine(t[i], n - 1 - i + 1, cr, ar)
  <2>1. i + 1 \in 1 .. n /\ n - (i + 1) + 1 = n - 1 - i + 1
    BY <1>2
  <2>2. Fine(s[i + 1], n - (i + 1) + 1, cr, ar)
    BY <2>1, <1>3
  <2> QED BY <2>1, <2>2, <1>2
<1>6. n - 1 <= StackDepth /\ n - 1 \in Nat
  BY <1>1, <1>2, Constants
<1>7. \A i \in 1 .. Len(t) : Fine(t[i], Len(t) - i + 1, cr, ar)
  BY <1>2, <1>5
<1>8. AllFine(t, cr, ar)
  BY <1>2, <1>6, <1>7 DEF AllFine
<1> QED BY <1>1, <1>2, <1>4, <1>6, <1>8 DEF t, n

LEMMA AllFineBecome ==
    ASSUME NEW cr, NEW ar, NEW s, AllFine(s, cr, ar), s # <<>>,
           NEW c \in CallType, Fine(c, Len(s), cr, ar)
    PROVE  AllFine(Push(c, Tail(s)), cr, ar) /\ Len(Push(c, Tail(s))) = Len(s)
<1>1. /\ AllFine(Tail(s), cr, ar) /\ Len(Tail(s)) = Len(s) - 1 /\ Len(s) \in Nat \ {0}
      /\ Len(s) <= StackDepth
  BY AllFineTail
<1>2. Len(Tail(s)) < StackDepth /\ Len(Tail(s)) + 1 = Len(s)
  BY <1>1, Constants
<1>3. Fine(c, Len(Tail(s)) + 1, cr, ar)
  BY <1>2
<1>4. AllFine(Push(c, Tail(s)), cr, ar) /\ Len(Push(c, Tail(s))) = Len(Tail(s)) + 1
  BY <1>1, <1>2, <1>3, AllFinePush
<1> QED BY <1>2, <1>4

-----------------------------------------------------------------------------
(* The stacks and the messages in memory in every state.                   *)

Known  == \A m \in heap \cup abandoned : Exists(created, m)
Stacks == \A h \in Tasks : AllFine(calls[h], created, arrived)
Shape  == TypeOK /\ Known /\ Stacks

CallsOK ==
    /\ calls \in [Tasks -> Seq(CallType)]
    /\ \A h \in Tasks : Len(calls[h]) <= StackDepth

LEMMA SameLater ==
    ASSUME TypeOK, created' = created, arrived' = arrived
    PROVE  Later(created, arrived, created', arrived')
BY DEF TypeOK, Later, Messages, Arrivals, Id

LEMMA MakeLater ==
    ASSUME TypeOK, NEW h \in Tasks, NEW f \in MessageType, Make(h, f)
    PROVE  /\ arrived' \in Arrivals /\ (\A g \in Tasks : arrived[g] \subseteq arrived'[g])
                 => Later(created, arrived, created', arrived')
           /\ created' \in Messages
           /\ New(h) \in Id /\ ~Exists(created, New(h))
           /\ Exists(created', New(h)) /\ Of(created', New(h)) = f
           /\ heap' = heap \cup {New(h)}
<1> DEFINE n == Len(created[h])  r == Append(created[h], f)
<1>1. created \in Messages /\ created[h] \in Seq(MessageType)
  BY DEF TypeOK, Messages
<1>2. /\ r \in Seq(MessageType) /\ Len(r) = n + 1 /\ DOMAIN r = 1 .. n + 1
      /\ DOMAIN created[h] = 1 .. n /\ n \in Nat /\ r[n + 1] = f
      /\ \A i \in 1 .. n : r[i] = created[h][i]
  BY <1>1, AppendIndex
<1>3. created' = [created EXCEPT ![h] = r] /\ heap' = heap \cup {New(h)}
  BY DEF Make
<1>4. New(h) = <<h, n + 1>>
  BY DEF New
<1> HIDE DEF n, r
<1>5. created' \in Messages /\ created'[h] = r
  BY <1>1, <1>2, <1>3 DEF Messages
<1>6. New(h) \in Id
  BY <1>2, <1>4 DEF Id
<1>7. n + 1 \notin 1 .. n /\ n + 1 \in 1 .. n + 1
  BY <1>2
<1>8. ~Exists(created, New(h)) /\ Exists(created', New(h)) /\ Of(created', New(h)) = f
  BY <1>2, <1>4, <1>5, <1>6, <1>7 DEF Exists, Of
<1>9. ASSUME NEW m \in Id, Exists(created, m)
      PROVE  Exists(created', m) /\ Of(created', m) = Of(created, m)
  <2>1. m[1] \in Tasks
    BY DEF Id
  <2>2. CASE m[1] = h
    <3>1. m[2] \in 1 .. n
      BY <2>2, <1>2, <1>9 DEF Exists
    <3>2. m[2] \in 1 .. n + 1
      BY <3>1, <1>2
    <3> QED BY <3>1, <3>2, <2>2, <1>2, <1>5 DEF Exists, Of
  <2>3. CASE m[1] # h
    <3>1. created'[m[1]] = created[m[1]]
      BY <2>1, <2>3, <1>1, <1>3 DEF Messages
    <3> QED BY <3>1, <1>9 DEF Exists, Of
  <2> QED BY <2>2, <2>3
<1> QED BY <1>3, <1>5, <1>6, <1>8, <1>9 DEF Later

\* A copy of the message "of" in the queue of g.
LEMMA PutType ==
    ASSUME TypeOK, NEW g \in Tasks, NEW m \in Id, NEW of \in Id, Room(queue[g]), Put(g, m, of)
    PROVE  /\ queue' \in [Tasks -> Seq(Id)]
           /\ \A k \in Tasks : Len(queue'[k]) <= QueueLength
           /\ arrived' \in Arrivals /\ \A k \in Tasks : arrived[k] \subseteq arrived'[k]
           /\ of \in arrived'[g]
<1>1. queue \in [Tasks -> Seq(Id)] /\ \A k \in Tasks : Len(queue[k]) <= QueueLength
  BY DEF TypeOK, Id
<1>2. /\ Append(queue[g], m) \in Seq(Id) /\ Len(Append(queue[g], m)) = Len(queue[g]) + 1
      /\ Len(queue[g]) \in Nat /\ Len(queue[g]) < QueueLength
  BY <1>1, AppendIndex DEF Room
<1>3. Len(Append(queue[g], m)) <= QueueLength
  BY <1>2, Constants
<1>4. queue' = [queue EXCEPT ![g] = Append(queue[g], m)]
  BY DEF Put
<1>5. queue' \in [Tasks -> Seq(Id)] /\ \A k \in Tasks : Len(queue'[k]) <= QueueLength
  BY <1>1, <1>2, <1>3, <1>4
<1>6. arrived \in Arrivals /\ arrived' = [arrived EXCEPT ![g] = @ \cup {of}]
  BY DEF TypeOK, Put, Arrivals, Id
<1> QED BY <1>5, <1>6 DEF Arrivals

LEMMA StackStep ==
    ASSUME TypeOK, Stacks, Later(created, arrived, created', arrived'),
           NEW h \in Tasks, NEW X, AllFine(X, created', arrived'),
           calls' = [calls EXCEPT ![h] = X]
    PROVE  Stacks' /\ CallsOK'
<1>1. calls \in [Tasks -> Seq(CallType)]
  BY DEF TypeOK
<1>2. X \in Seq(CallType)
  BY DEF AllFine
<1>3. calls' \in [Tasks -> Seq(CallType)]
  BY <1>1, <1>2
<1>4. ASSUME NEW k \in Tasks
      PROVE  AllFine(calls'[k], created', arrived')
  <2>1. CASE k = h
    BY <2>1, <1>1
  <2>2. CASE k # h
    <3>1. calls'[k] = calls[k]
      BY <2>2, <1>1
    <3>2. AllFine(calls[k], created, arrived)
      BY DEF Stacks
    <3> QED BY <3>1, <3>2, AllFineLater
  <2> QED BY <2>1, <2>2
<1>5. Stacks'
  BY <1>4 DEF Stacks
<1>6. \A k \in Tasks : Len(calls'[k]) <= StackDepth
  BY <1>4 DEF AllFine
<1> QED BY <1>3, <1>5, <1>6 DEF CallsOK

LEMMA TopCall ==
    ASSUME TypeOK, Stacks, NEW h \in Tasks, calls[h] # <<>>
    PROVE  /\ Head(calls[h]) \in CallType
           /\ Fine(Head(calls[h]), Len(calls[h]), created, arrived)
           /\ AllFine(calls[h], created, arrived)
           /\ Len(calls[h]) \in Nat \ {0} /\ Len(calls[h]) <= StackDepth
           /\ Handled(h) \in Id /\ Exists(created, Handled(h))
           /\ Fields(Handled(h)) = Of(created, Handled(h)) /\ Fields(Handled(h)) \in MessageType
           /\ Fields(Handled(h)).type \in Types /\ Fields(Handled(h)).to \in Address
           /\ Fields(Handled(h)).of \in Id
<1>1. AllFine(calls[h], created, arrived)
  BY DEF Stacks
<1>2. /\ Head(calls[h]) \in CallType /\ Fine(Head(calls[h]), Len(calls[h]), created, arrived)
      /\ Len(calls[h]) \in Nat \ {0} /\ Len(calls[h]) <= StackDepth
  BY <1>1, AllFineTail
<1>3. Handled(h) \in Id
  BY <1>2 DEF Handled, CallType, Id
<1>4. Exists(created, Handled(h))
  BY <1>2 DEF Handled, Fine
<1>5. Fields(Handled(h)) = Of(created, Handled(h))
  BY DEF Fields, Of
<1>6. created \in Messages
  BY DEF TypeOK, Messages
<1> QED BY <1>1, <1>2, <1>3, <1>4, <1>5, <1>6, OfType

LEMMA ReturnShape ==
    ASSUME TypeOK, Stacks, Later(created, arrived, created', arrived'),
           NEW h \in Tasks, calls[h] # <<>>, Return(h)
    PROVE  Stacks' /\ CallsOK'
<1>1. AllFine(calls[h], created', arrived')
  BY AllFineLater DEF Stacks
<1>2. AllFine(Tail(calls[h]), created', arrived')
  BY <1>1, AllFineTail
<1>3. calls' = [calls EXCEPT ![h] = Tail(calls[h])]
  BY DEF Return
<1> QED BY <1>2, <1>3, StackStep

LEMMA BecomeShape ==
    ASSUME TypeOK, Stacks, Later(created, arrived, created', arrived'),
           NEW h \in Tasks, calls[h] # <<>>,
           NEW c \in CallType, Fine(c, Len(calls[h]), created', arrived'), Become(h, c)
    PROVE  Stacks' /\ CallsOK'
<1>1. AllFine(calls[h], created', arrived')
  BY AllFineLater DEF Stacks
<1>2. AllFine(Push(c, Tail(calls[h])), created', arrived')
  BY <1>1, AllFineBecome
<1>3. calls' = [calls EXCEPT ![h] = Push(c, Tail(calls[h]))]
  BY DEF Become
<1> QED BY <1>2, <1>3, StackStep

LEMMA EnterShape ==
    ASSUME TypeOK, Stacks, Later(created, arrived, created', arrived'),
           NEW h \in Tasks, Len(calls[h]) < StackDepth,
           NEW c \in CallType, Fine(c, Len(calls[h]) + 1, created', arrived'), Enter(h, c)
    PROVE  Stacks' /\ CallsOK'
<1>1. AllFine(calls[h], created', arrived')
  BY AllFineLater DEF Stacks
<1>2. AllFine(Push(c, calls[h]), created', arrived')
  BY <1>1, AllFinePush
<1>3. calls' = [calls EXCEPT ![h] = Push(c, calls[h])]
  BY DEF Enter
<1> QED BY <1>2, <1>3, StackStep

\* One call becomes two.
LEMMA BecomeTwoShape ==
    ASSUME TypeOK, Stacks, Later(created, arrived, created', arrived'),
           NEW h \in Tasks, calls[h] # <<>>, Len(calls[h]) < StackDepth,
           NEW c \in CallType, Fine(c, Len(calls[h]), created', arrived'),
           NEW b \in CallType, Fine(b, Len(calls[h]) + 1, created', arrived'),
           calls' = [calls EXCEPT ![h] = Push(b, Push(c, Tail(@)))]
    PROVE  Stacks' /\ CallsOK'
<1> DEFINE s == Push(c, Tail(calls[h]))
<1>1. AllFine(calls[h], created', arrived')
  BY AllFineLater DEF Stacks
<1>2. AllFine(s, created', arrived') /\ Len(s) = Len(calls[h])
  BY <1>1, AllFineBecome
<1>3. calls' = [calls EXCEPT ![h] = Push(b, s)]
  OBVIOUS
<1> HIDE DEF s
<1>4. AllFine(Push(b, s), created', arrived')
  BY <1>2, AllFinePush
<1> QED BY <1>3, <1>4, StackStep

-----------------------------------------------------------------------------
(* Every step keeps the shape.                                             *)

\* What is sent is about a message with the address its call is for.
LEMMA SendShape ==
    ASSUME Shape, NEW h \in Tasks, NEW s \in Occasions \cup Replies, Send(h, s),
           Len(calls[h]) <= 2
    PROVE  Shape'
<1> DEFINE m == New(h)  op == Sending(s.to)  f == Message(s.type, s.to, New(h))
<1>1. s.type \in Types /\ s.to \in Address
  BY MeshAssumption
<1>2. TypeOK /\ Known /\ Stacks
  BY DEF Shape
<1>3. Make(h, f) /\ arrived' = arrived /\ Enter(h, Call(op, m))
  BY DEF Send
<1>4. m \in Id
  BY <1>2 DEF TypeOK, New, Id
<1>5. f \in MessageType /\ f.to = s.to /\ f.of = m /\ f.type = s.type
  BY <1>1, <1>4 DEF Message, MessageType, Id
<1>6. arrived \in Arrivals
  BY <1>2 DEF TypeOK, Arrivals, Id
<1> HIDE DEF f
<1>7. /\ Later(created, arrived, created', arrived') /\ created' \in Messages
      /\ Exists(created', m) /\ Of(created', m) = f /\ heap' = heap \cup {m}
  BY <1>2, <1>3, <1>5, <1>6, MakeLater
<1>8. /\ op \in {"broadcast", "external", "send"}
      /\ op = "send" => s.to \in Tasks
      /\ op = "broadcast" => s.to \in {Everyone, FC}
      /\ op = "external" => s.to # Everyone
  BY <1>1, Constants DEF Sending, Address
<1> HIDE DEF m, op
<1>9. /\ Call(op, m) \in CallType /\ Call(op, m).op = op /\ Call(op, m).msg = m
      /\ Call(op, m).served = 0
  BY <1>4, <1>8 DEF Call, CallType, Id
<1>10. Len(calls[h]) \in Nat
  BY <1>2 DEF TypeOK
<1>11. Len(calls[h]) + 1 <= 3 /\ Len(calls[h]) + 1 <= 4
  BY <1>10
<1>12. \A i \in DOMAIN Order : ~(i <= 0)
  BY OrderIndex
<1>13. Fine(Call(op, m), Len(calls[h]) + 1, created', arrived')
  BY <1>5, <1>7, <1>8, <1>9, <1>11, <1>12 DEF Fine
<1>14. Len(calls[h]) < StackDepth
  BY <1>10, Constants
<1>15. Stacks' /\ CallsOK'
  BY <1>2, <1>3, <1>7, <1>9, <1>13, <1>14, EnterShape
<1>16. \A k \in heap' \cup abandoned' : Exists(created', k)
  <2>1. abandoned' = abandoned
    BY DEF Send
  <2>2. \A k \in heap \cup abandoned : Exists(created, k) /\ k \in Id
    BY <1>2 DEF Known, Exists
  <2> QED BY <2>1, <2>2, <1>7 DEF Later
<1>17. sends' \in 0 .. MaxSends
  BY <1>2, Constants DEF Send, TypeOK
<1>18. /\ heap' \subseteq Tasks \X Nat
       /\ created' \in [Tasks -> Seq(MessageType)]
  BY <1>2, <1>4, <1>7 DEF TypeOK, Messages, Id
<1>19. /\ UNCHANGED <<queue, port, halted, arrived, abandoned>>
  BY DEF Send
<1>20. TypeOK'
  BY <1>2, <1>15, <1>17, <1>18, <1>19 DEF TypeOK, CallsOK
<1> QED BY <1>15, <1>16, <1>20 DEF Shape, Known

LEMMA KnownSame ==
    ASSUME Shape, Later(created, arrived, created', arrived'),
           heap' \subseteq heap, abandoned' \subseteq abandoned \cup heap
    PROVE  Known' /\ heap' \subseteq Tasks \X Nat /\ abandoned' \subseteq Tasks \X Nat
<1>1. \A k \in heap \cup abandoned : Exists(created, k) /\ k \in Id
  BY DEF Shape, Known, Exists
<1>2. \A k \in heap' \cup abandoned' : Exists(created', k)
  BY <1>1 DEF Later
<1> QED BY <1>2 DEF Shape, TypeOK, Known

LEMMA SendInternalShape ==
    ASSUME Shape, NEW h \in Tasks, SendInternal(h)
    PROVE  Shape'
<1> DEFINE m == Handled(h)  g == Fields(m).to  c == Head(calls[h])
<1>1. TypeOK /\ Known /\ Stacks
  BY DEF Shape
<1>2. calls[h] # <<>> /\ c.op = "send" /\ UNCHANGED <<created, port, halted, sends, abandoned>>
  BY DEF SendInternal, Does
<1>3. /\ m \in Id /\ Exists(created, m) /\ Fields(m) = Of(created, m) /\ Fields(m).of \in Id
      /\ Fine(c, Len(calls[h]), created, arrived) /\ c.msg = m
  BY <1>1, <1>2, TopCall DEF Handled
<1>4. g \in Tasks
  BY <1>2, <1>3 DEF Fine
<1>5. CASE Room(queue[g]) /\ Put(g, m, Fields(m).of) /\ Return(h) /\ UNCHANGED heap
  <2>1. /\ queue' \in [Tasks -> Seq(Id)] /\ \A k \in Tasks : Len(queue'[k]) <= QueueLength
        /\ arrived' \in Arrivals /\ \A k \in Tasks : arrived[k] \subseteq arrived'[k]
    BY <1>1, <1>3, <1>4, <1>5, PutType
  <2>2. Later(created, arrived, created', arrived')
    BY <1>1, <1>2, <2>1 DEF Later, TypeOK, Messages
  <2>3. Stacks' /\ CallsOK'
    BY <1>1, <1>2, <1>5, <2>2, ReturnShape
  <2>4. Known'
    BY <1>2, <1>5, <2>2, KnownSame
  <2>5. TypeOK'
    BY <1>1, <1>2, <1>5, <2>1, <2>3 DEF TypeOK, CallsOK, Arrivals, Id
  <2> QED BY <2>3, <2>4, <2>5 DEF Shape
<1>6. CASE Become(h, Call("report", m)) /\ UNCHANGED <<heap, queue, arrived>>
  <2>1. Later(created, arrived, created', arrived')
    BY <1>1, <1>2, <1>6, SameLater
  <2>2. /\ Call("report", m) \in CallType
        /\ Call("report", m).op = "report" /\ Call("report", m).msg = m
    BY <1>3 DEF Call, CallType, Id
  <2>3. Fine(Call("report", m), Len(calls[h]), created', arrived')
    BY <1>2, <1>3, <2>2 DEF Fine
  <2>4. Stacks' /\ CallsOK'
    BY <1>1, <1>2, <1>6, <2>1, <2>2, <2>3, BecomeShape
  <2>5. Known'
    BY <1>2, <1>6, <2>1, KnownSame
  <2>6. TypeOK'
    BY <1>1, <1>2, <1>6, <2>4 DEF TypeOK, CallsOK
  <2> QED BY <2>4, <2>5, <2>6 DEF Shape
<1>7. CASE Free(m) /\ Return(h) /\ UNCHANGED <<queue, arrived>>
  <2>1. Later(created, arrived, created', arrived')
    BY <1>1, <1>2, <1>7, SameLater
  <2>2. Stacks' /\ CallsOK'
    BY <1>1, <1>2, <1>7, <2>1, ReturnShape
  <2>3. heap' \subseteq heap
    BY <1>7 DEF Free
  <2>4. Known'
    BY <1>2, <2>1, <2>3, KnownSame
  <2>5. TypeOK'
    BY <1>1, <1>2, <1>7, <2>2, <2>3 DEF TypeOK, CallsOK
  <2> QED BY <2>2, <2>4, <2>5 DEF Shape
<1> QED BY <1>5, <1>6, <1>7 DEF SendInternal

LEMMA SendExternalShape ==
    ASSUME Shape, NEW h \in Tasks, SendExternal(h)
    PROVE  Shape'
<1> DEFINE m == Handled(h)  c == Head(calls[h])
<1>1. TypeOK /\ Known /\ Stacks
  BY DEF Shape
<1>2. /\ calls[h] # <<>> /\ c.op = "external"
      /\ UNCHANGED <<created, heap, queue, halted, sends, arrived, abandoned>>
  BY DEF SendExternal, Does
<1>3. /\ m \in Id /\ Fine(c, Len(calls[h]), created, arrived) /\ c.msg = m
      /\ Len(calls[h]) \in Nat
  BY <1>1, <1>2, TopCall DEF Handled
<1>4. Later(created, arrived, created', arrived')
  BY <1>1, <1>2, SameLater
<1>5. Known'
  BY <1>2, <1>4, KnownSame
<1>6. CASE Room(port) /\ port' = Append(port, m) /\ Return(h)
  <2>1. Stacks' /\ CallsOK'
    BY <1>1, <1>2, <1>4, <1>6, ReturnShape
  <2>2. port \in Seq(Id)
    BY <1>1 DEF TypeOK, Id
  <2>3. /\ Append(port, m) \in Seq(Id) /\ Len(Append(port, m)) = Len(port) + 1
        /\ Len(port) \in Nat /\ Len(port) < QueueLength
    BY <1>3, <1>6, <2>2, AppendIndex DEF Room
  <2>4. port' \in Seq(Tasks \X Nat) /\ Len(port') <= QueueLength
    BY <1>6, <2>3, Constants DEF Id
  <2>5. TypeOK'
    BY <1>1, <1>2, <2>1, <2>4 DEF TypeOK, CallsOK
  <2> QED BY <1>5, <2>1, <2>5 DEF Shape
<1>7. CASE Become(h, Call("report", m)) /\ UNCHANGED port
  <2>1. /\ Call("report", m) \in CallType
        /\ Call("report", m).op = "report" /\ Call("report", m).msg = m
    BY <1>3 DEF Call, CallType, Id
  <2>2. Len(calls[h]) <= 3
    BY <1>2, <1>3 DEF Fine
  <2>3. Len(calls[h]) <= 4
    BY <1>3, <2>2
  <2>4. Fine(Call("report", m), Len(calls[h]), created', arrived')
    BY <1>2, <1>3, <2>1, <2>3 DEF Fine
  <2>5. Stacks' /\ CallsOK'
    BY <1>1, <1>2, <1>4, <1>7, <2>1, <2>4, BecomeShape
  <2>6. TypeOK'
    BY <1>1, <1>2, <1>7, <2>5 DEF TypeOK, CallsOK
  <2> QED BY <1>5, <2>5, <2>6 DEF Shape
<1> QED BY <1>6, <1>7 DEF SendExternal

LEMMA ReportShape ==
    ASSUME Shape, NEW h \in Tasks, Report(h)
    PROVE  Shape'
<1> DEFINE m == Handled(h)  c == Head(calls[h])  f == Message(Text, AppLog, New(h))
<1>1. TypeOK /\ Known /\ Stacks
  BY DEF Shape
<1>2. calls[h] # <<>> /\ c.op = "report" /\ UNCHANGED <<queue, port, sends, arrived, abandoned>>
  BY DEF Report, Does
<1>3. /\ m \in Id /\ Fine(c, Len(calls[h]), created, arrived) /\ c.msg = m /\ c \in CallType
      /\ Len(calls[h]) \in Nat
  BY <1>1, <1>2, TopCall DEF Handled
<1>4. CASE /\ Len(calls[h]) < StackDepth /\ Make(h, f) /\ UNCHANGED halted
           /\ calls' = [calls EXCEPT ![h] =
                 Push(Call("send", New(h)), Push(Call("delete", m), Tail(@)))]
  <2>1. New(h) \in Id
    BY <1>1 DEF TypeOK, New, Id
  <2>2. f \in MessageType /\ f.to = AppLog
    BY <2>1, Constants DEF Message, MessageType, Id, Address
  <2>3. arrived \in Arrivals /\ arrived' = arrived
    BY <1>1, <1>2 DEF TypeOK, Arrivals, Id
  <2> HIDE DEF f
  <2>4. /\ Later(created, arrived, created', arrived') /\ created' \in Messages
        /\ Exists(created', New(h)) /\ Of(created', New(h)) = f /\ heap' = heap \cup {New(h)}
    BY <1>1, <1>4, <2>2, <2>3, MakeLater
  <2>5. /\ Call("delete", m) \in CallType
        /\ Call("delete", m).op = "delete" /\ Call("delete", m).msg = m
        /\ Call("send", New(h)) \in CallType
        /\ Call("send", New(h)).op = "send" /\ Call("send", New(h)).msg = New(h)
    BY <1>3, <2>1 DEF Call, CallType, Id
  <2>6. Fine(c, Len(calls[h]), created', arrived')
    BY <1>3, <2>4, FineLater
  <2>7. Fine(Call("delete", m), Len(calls[h]), created', arrived')
    BY <1>2, <1>3, <2>5, <2>6 DEF Fine
  <2>8. Fine(Call("send", New(h)), Len(calls[h]) + 1, created', arrived')
    BY <2>2, <2>4, <2>5, Constants DEF Fine
  <2>9. Stacks' /\ CallsOK'
    BY <1>1, <1>2, <1>4, <2>4, <2>5, <2>7, <2>8, BecomeTwoShape
  <2>10. Known'
    <3>1. \A k \in heap \cup abandoned : Exists(created, k) /\ k \in Id
      BY <1>1 DEF Known, Exists
    <3> QED BY <3>1, <1>2, <2>4 DEF Later, Known
  <2>11. heap' \subseteq Tasks \X Nat /\ created' \in [Tasks -> Seq(MessageType)]
    BY <1>1, <2>1, <2>4 DEF TypeOK, Messages, Id
  <2>12. TypeOK'
    BY <1>1, <1>2, <1>4, <2>9, <2>11 DEF TypeOK, CallsOK
  <2> QED BY <2>9, <2>10, <2>12 DEF Shape
<1>5. CASE halted' = TRUE /\ UNCHANGED <<created, heap, calls>>
  <2>1. TypeOK'
    BY <1>1, <1>2, <1>5 DEF TypeOK
  <2>2. Known'
    BY <1>1, <1>2, <1>5 DEF Known
  <2>3. Stacks'
    BY <1>1, <1>2, <1>5 DEF Stacks
  <2> QED BY <2>1, <2>2, <2>3 DEF Shape
<1> QED BY <1>4, <1>5 DEF Report

\* Delete, and the end of a callback.
LEMMA FreeShape ==
    ASSUME Shape, NEW h \in Tasks, calls[h] # <<>>, Free(Handled(h)), Return(h),
           UNCHANGED <<created, queue, port, halted, sends, arrived, abandoned>>
    PROVE  Shape'
<1>1. TypeOK /\ Known /\ Stacks
  BY DEF Shape
<1>2. Later(created, arrived, created', arrived')
  BY <1>1, SameLater
<1>3. Stacks' /\ CallsOK'
  BY <1>1, <1>2, ReturnShape
<1>4. heap' \subseteq heap
  BY DEF Free
<1>5. Known'
  BY <1>2, <1>4, KnownSame
<1>6. TypeOK'
  BY <1>1, <1>3, <1>4 DEF TypeOK, CallsOK
<1> QED BY <1>3, <1>5, <1>6 DEF Shape

LEMMA RestIndex ==
    ASSUME NEW h, NEW i \in Rest(h)
    PROVE  /\ i \in DOMAIN Order /\ i \in Nat /\ Order[i] \in Tasks
           /\ Head(calls[h]).served < i /\ Fields(Handled(h)).type \in Subs[Order[i]]
BY Constants, OrderIndex DEF Rest

LEMMA SendCloneShape ==
    ASSUME Shape, NEW h \in Tasks, SendClone(h)
    PROVE  Shape'
<1> DEFINE m == Handled(h)  c == Head(calls[h])  k == New(h)
<1>1. TypeOK /\ Known /\ Stacks
  BY DEF Shape
<1>2. /\ calls[h] # <<>> /\ c.op = "broadcast" /\ UNCHANGED <<port, halted, sends, abandoned>>
      /\ Make(h, Fields(m))
  BY DEF SendClone, Does
<1>3. /\ m \in Id /\ Fine(c, Len(calls[h]), created, arrived) /\ c.msg = m /\ c \in CallType
      /\ Len(calls[h]) \in Nat /\ Exists(created, m)
      /\ Fields(m) = Of(created, m) /\ Fields(m) \in MessageType
  BY <1>1, <1>2, TopCall DEF Handled
<1>4. k \in Id
  BY <1>1 DEF TypeOK, New, Id
<1>5. Fields(m).of = m
  BY <1>2, <1>3 DEF Fine
<1>6. PICK i \in Rest(h) :
        /\ \A j \in Rest(h) : i <= j
        /\ \/ /\ Room(queue[Order[i]])
              /\ Put(Order[i], k, Fields(m).of)
              /\ Become(h, Further(c, i, TRUE))
           \/ /\ ~Room(queue[Order[i]])
              /\ calls' = [calls EXCEPT ![h] =
                     Push(Call("report", k), Push(Further(c, i, FALSE), Tail(@)))]
              /\ UNCHANGED <<queue, arrived>>
  BY DEF SendClone
<1>7. i \in DOMAIN Order /\ i \in Nat /\ Order[i] \in Tasks
  BY <1>6, RestIndex
<1>8. Len(calls[h]) <= 3
  BY <1>2, <1>3 DEF Fine
<1> HIDE DEF m, k
<1>9. /\ created' \in Messages /\ Exists(created', k) /\ heap' = heap \cup {k}
      /\ arrived' \in Arrivals /\ (\A g \in Tasks : arrived[g] \subseteq arrived'[g])
            => Later(created, arrived, created', arrived')
  BY <1>1, <1>2, <1>3, MakeLater DEF k
<1>10. ASSUME Later(created, arrived, created', arrived')
       PROVE  Known' /\ heap' \subseteq Tasks \X Nat /\ created' \in [Tasks -> Seq(MessageType)]
  <2>1. \A x \in heap \cup abandoned : Exists(created, x) /\ x \in Id
    BY <1>1 DEF Known, Exists
  <2>2. Known'
    BY <2>1, <1>2, <1>9, <1>10 DEF Later, Known
  <2> QED BY <2>2, <1>1, <1>4, <1>9 DEF TypeOK, Messages, Id
<1>11. \A ok \in BOOLEAN :
         /\ Further(c, i, ok) \in CallType /\ Further(c, i, ok).op = "broadcast"
         /\ Further(c, i, ok).msg = m /\ Further(c, i, ok).served = i
         /\ Further(c, i, ok).result = (c.result /\ ok)
  BY <1>2, <1>3, <1>7 DEF Further, CallType
<1>12. CASE /\ Room(queue[Order[i]]) /\ Put(Order[i], k, Fields(m).of)
            /\ Become(h, Further(c, i, TRUE))
  <2>1. /\ queue' \in [Tasks -> Seq(Id)] /\ \A g \in Tasks : Len(queue'[g]) <= QueueLength
        /\ arrived' \in Arrivals /\ \A g \in Tasks : arrived[g] \subseteq arrived'[g]
        /\ m \in arrived'[Order[i]]
    BY <1>1, <1>3, <1>4, <1>5, <1>7, <1>12, PutType
  <2>2. Later(created, arrived, created', arrived')
    BY <1>9, <2>1
  <2>3. Fine(c, Len(calls[h]), created', arrived')
    BY <1>3, <2>2, FineLater
  <2>4. Of(created', m) = Of(created, m)
    BY <1>3, <2>2 DEF Later
  <2>5. ASSUME c.result, NEW j \in DOMAIN Order, j <= i, Of(created', m).type \in Subs[Order[j]]
        PROVE  m \in arrived'[Order[j]]
    <3>1. CASE j <= c.served
      BY <3>1, <1>2, <1>3, <2>3, <2>5 DEF Fine
    <3>2. CASE ~(j <= c.served)
      <4>1. c.served < j /\ j \in Nat
        BY <3>2, <1>3, OrderIndex DEF CallType
      <4>2. j \in Rest(h)
        BY <4>1, <1>3, <2>4, <2>5 DEF Rest, m
      <4>3. j = i
        BY <4>1, <4>2, <1>6, <1>7, <2>5
      <4> QED BY <4>3, <2>1
    <3> QED BY <3>1, <3>2
  <2>6. Fine(Further(c, i, TRUE), Len(calls[h]), created', arrived')
    BY <1>2, <1>3, <1>11, <2>3, <2>5 DEF Fine
  <2>7. Further(c, i, TRUE) \in CallType
    BY <1>11
  <2>8. Stacks' /\ CallsOK'
    BY <1>1, <1>2, <1>12, <2>2, <2>6, <2>7, BecomeShape
  <2>9. Known' /\ heap' \subseteq Tasks \X Nat /\ created' \in [Tasks -> Seq(MessageType)]
    BY <1>10, <2>2
  <2>10. TypeOK'
    BY <1>1, <1>2, <2>1, <2>8, <2>9 DEF TypeOK, CallsOK, Arrivals, Id
  <2> QED BY <2>8, <2>9, <2>10 DEF Shape
<1>13. CASE /\ calls' = [calls EXCEPT ![h] =
                     Push(Call("report", k), Push(Further(c, i, FALSE), Tail(@)))]
            /\ UNCHANGED <<queue, arrived>>
  <2>1. arrived \in Arrivals
    BY <1>1 DEF TypeOK, Arrivals, Id
  <2>2. Later(created, arrived, created', arrived')
    BY <1>9, <1>13, <2>1
  <2>3. Fine(c, Len(calls[h]), created', arrived')
    BY <1>3, <2>2, FineLater
  <2>4. Fine(Further(c, i, FALSE), Len(calls[h]), created', arrived')
    BY <1>2, <1>3, <1>11, <2>3 DEF Fine
  <2>5. /\ Call("report", k) \in CallType
        /\ Call("report", k).op = "report" /\ Call("report", k).msg = k
    BY <1>4 DEF Call, CallType, Id
  <2>6. Len(calls[h]) + 1 <= 4 /\ Len(calls[h]) < StackDepth
    BY <1>3, <1>8, Constants
  <2>7. Fine(Call("report", k), Len(calls[h]) + 1, created', arrived')
    BY <1>9, <2>5, <2>6 DEF Fine
  <2>8. Further(c, i, FALSE) \in CallType
    BY <1>11
  <2>9. Stacks' /\ CallsOK'
    BY <1>1, <1>2, <1>13, <2>2, <2>4, <2>5, <2>6, <2>7, <2>8, BecomeTwoShape
  <2>10. Known' /\ heap' \subseteq Tasks \X Nat /\ created' \in [Tasks -> Seq(MessageType)]
    BY <1>10, <2>2
  <2>11. TypeOK'
    BY <1>1, <1>2, <1>13, <2>9, <2>10 DEF TypeOK, CallsOK
  <2> QED BY <2>9, <2>10, <2>11 DEF Shape
<1> QED BY <1>6, <1>12, <1>13

LEMMA EndBroadcastShape ==
    ASSUME Shape, NEW h \in Tasks, EndBroadcast(h)
    PROVE  Shape'
<1> DEFINE m == Handled(h)  c == Head(calls[h])
<1>1. TypeOK /\ Known /\ Stacks
  BY DEF Shape
<1>2. /\ calls[h] # <<>> /\ c.op = "broadcast" /\ Rest(h) = {}
      /\ UNCHANGED <<created, queue, port, halted, sends, arrived>>
  BY DEF EndBroadcast, Does
<1>3. /\ m \in Id /\ Fine(c, Len(calls[h]), created, arrived) /\ c.msg = m /\ c \in CallType
      /\ Fields(m) = Of(created, m)
  BY <1>1, <1>2, TopCall DEF Handled
<1>4. Later(created, arrived, created', arrived')
  BY <1>1, <1>2, SameLater
<1>5. CASE Free(m) /\ Return(h) /\ UNCHANGED abandoned
  BY <1>2, <1>5, FreeShape
<1>6. CASE c.result /\ Become(h, Call("external", m)) /\ UNCHANGED <<heap, abandoned>>
  <2>1. /\ Call("external", m) \in CallType
        /\ Call("external", m).op = "external" /\ Call("external", m).msg = m
    BY <1>3 DEF Call, CallType, Id
  <2>2. ASSUME NEW g \in Tasks, Of(created, m).type \in Subs[g]
        PROVE  m \in arrived[g]
    <3>1. PICK i \in DOMAIN Order : g = Order[i]
      BY Constants
    <3>2. i <= c.served
      BY <1>2, <1>3, <2>2, <3>1, OrderIndex DEF Rest, CallType
    <3> QED BY <1>2, <1>3, <1>6, <2>2, <3>1, <3>2 DEF Fine
  <2>3. Fine(Call("external", m), Len(calls[h]), created', arrived')
    BY <1>2, <1>3, <2>1, <2>2 DEF Fine
  <2>4. Stacks' /\ CallsOK'
    BY <1>1, <1>2, <1>4, <1>6, <2>1, <2>3, BecomeShape
  <2>5. Known'
    BY <1>4, <1>6, KnownSame
  <2>6. TypeOK'
    BY <1>1, <1>2, <1>6, <2>4 DEF TypeOK, CallsOK
  <2> QED BY <2>4, <2>5, <2>6 DEF Shape
<1>7. CASE abandoned' = abandoned \cup {m} /\ Return(h) /\ UNCHANGED heap
  <2>1. Stacks' /\ CallsOK'
    BY <1>1, <1>2, <1>4, <1>7, ReturnShape
  <2>2. Exists(created, m)
    BY <1>1, <1>2, TopCall
  <2>3. Known'
    BY <1>1, <1>2, <1>7, <2>2 DEF Known
  <2>4. abandoned' \subseteq Tasks \X Nat
    BY <1>1, <1>3, <1>7 DEF TypeOK, Id
  <2>5. TypeOK'
    BY <1>1, <1>2, <1>7, <2>1, <2>4 DEF TypeOK, CallsOK
  <2> QED BY <2>1, <2>3, <2>5 DEF Shape
<1> QED BY <1>5, <1>6, <1>7 DEF EndBroadcast

\* The first message of a queue, or of the port queue, gets a call that handles it.
LEMMA ReceiveShape ==
    ASSUME Shape, NEW h \in Tasks, Receive(h), Exists(created, Head(queue[h]))
    PROVE  Shape'
<1> DEFINE m == Head(queue[h])  c == Call("handle", m)
<1>1. TypeOK /\ Known /\ Stacks
  BY DEF Shape
<1>2. /\ queue[h] # <<>> /\ queue' = [queue EXCEPT ![h] = Tail(@)] /\ Enter(h, c)
      /\ UNCHANGED <<created, heap, port, halted, sends, arrived, abandoned>>
  BY DEF Receive
<1>3. queue \in [Tasks -> Seq(Id)] /\ \A g \in Tasks : Len(queue[g]) <= QueueLength
  BY <1>1 DEF TypeOK, Id
<1>4. /\ m \in Id /\ Tail(queue[h]) \in Seq(Id) /\ Len(Tail(queue[h])) = Len(queue[h]) - 1
      /\ Len(queue[h]) \in Nat \ {0}
  BY <1>2, <1>3, TailIndex
<1>5. Len(Tail(queue[h])) <= QueueLength
  BY <1>3, <1>4, Constants
<1>6. queue' \in [Tasks -> Seq(Id)] /\ \A g \in Tasks : Len(queue'[g]) <= QueueLength
  BY <1>2, <1>3, <1>4, <1>5
<1>7. Len(calls[h]) \in Nat /\ Len(calls[h]) <= 1
  <2>1. CASE calls[h] = <<>>
    BY <2>1
  <2>2. CASE calls[h] # <<>> /\ Head(calls[h]).op = "transmit"
    BY <2>2, <1>1, TopCall DEF Fine
  <2> QED BY <2>1, <2>2 DEF Receive, Listens, Does
<1>8. Later(created, arrived, created', arrived')
  BY <1>1, <1>2, SameLater
<1>9. c \in CallType /\ c.op = "handle" /\ c.msg = m
  BY <1>4 DEF Call, CallType, Id
<1>10. Len(calls[h]) + 1 <= 2 /\ Len(calls[h]) < StackDepth
  BY <1>7, Constants
<1> HIDE DEF c
<1>11. Fine(c, Len(calls[h]) + 1, created', arrived')
  BY <1>2, <1>9, <1>10 DEF Fine
<1>12. Stacks' /\ CallsOK'
  BY <1>1, <1>2, <1>8, <1>9, <1>10, <1>11, EnterShape
<1>13. Known'
  BY <1>2, <1>8, KnownSame
<1>14. TypeOK'
  BY <1>1, <1>2, <1>6, <1>12 DEF TypeOK, CallsOK, Id
<1> QED BY <1>12, <1>13, <1>14 DEF Shape

LEMMA ReceiveExternalShape ==
    ASSUME Shape, NEW h \in Tasks, ReceiveExternal(h), Exists(created, Head(port))
    PROVE  Shape'
<1> DEFINE m == Head(port)  c == Call("transmit", m)
<1>1. TypeOK /\ Known /\ Stacks
  BY DEF Shape
<1>2. /\ port # <<>> /\ port' = Tail(port) /\ Enter(h, c) /\ calls[h] = <<>>
      /\ UNCHANGED <<created, heap, queue, halted, sends, arrived, abandoned>>
  BY DEF ReceiveExternal
<1>3. port \in Seq(Id) /\ Len(port) <= QueueLength
  BY <1>1 DEF TypeOK, Id
<1>4. /\ m \in Id /\ Tail(port) \in Seq(Id) /\ Len(Tail(port)) = Len(port) - 1
      /\ Len(port) \in Nat \ {0}
  BY <1>2, <1>3, TailIndex
<1>5. port' \in Seq(Id) /\ Len(port') <= QueueLength
  BY <1>2, <1>3, <1>4, Constants
<1>6. Len(calls[h]) = 0
  BY <1>2
<1>7. Later(created, arrived, created', arrived')
  BY <1>1, <1>2, SameLater
<1>8. c \in CallType /\ c.op = "transmit" /\ c.msg = m
  BY <1>4 DEF Call, CallType, Id
<1>9. Len(calls[h]) + 1 <= 1 /\ Len(calls[h]) < StackDepth
  BY <1>6, Constants
<1> HIDE DEF c
<1>10. Fine(c, Len(calls[h]) + 1, created', arrived')
  BY <1>2, <1>8, <1>9 DEF Fine
<1>11. Stacks' /\ CallsOK'
  BY <1>1, <1>2, <1>7, <1>8, <1>9, <1>10, EnterShape
<1>12. Known'
  BY <1>2, <1>7, KnownSame
<1>13. TypeOK'
  BY <1>1, <1>2, <1>5, <1>11 DEF TypeOK, CallsOK, Id
<1> QED BY <1>11, <1>12, <1>13 DEF Shape

\* A callback is at most the second call of its stack.
LEMMA CallbackDepth ==
    ASSUME Shape, NEW h \in Tasks, Does(h, "handle") \/ Does(h, "transmit")
    PROVE  calls[h] # <<>> /\ Len(calls[h]) <= 2
<1>1. calls[h] # <<>> /\ Head(calls[h]).op \in {"handle", "transmit"}
  BY DEF Does
<1>2. Fine(Head(calls[h]), Len(calls[h]), created, arrived) /\ Len(calls[h]) \in Nat
  BY <1>1, TopCall DEF Shape
<1> QED BY <1>1, <1>2 DEF Fine

-----------------------------------------------------------------------------
(* Every message in memory has one owner.                                  *)

Q(g)   == <<"queue", g>>
C(h)   == <<"calls", h>>
ThePort == <<"port", Tx>>

Once  == \A p \in Places : Distinct(Held(p))
Apart == \A p, q \in Places : p # q => HeldIn(p) \cap HeldIn(q) = {}
Exact == UNION {HeldIn(p) : p \in Places} = heap \ abandoned
ToAll == \A m \in abandoned : Fields(m).to = Everyone

LEMMA OwnerParts ==
    /\ OneOwner <=> Once /\ Apart /\ Exact /\ ToAll
    /\ OneOwner' <=> Once' /\ Apart' /\ Exact' /\ ToAll'
BY DEF OneOwner, Once, Apart, Exact, ToAll, Distinct

LEMMA PlaceCases ==
    ASSUME NEW p \in Places
    PROVE  (\E g \in Tasks : p = Q(g)) \/ (\E g \in Tasks : p = C(g)) \/ p = ThePort
BY DEF Places, Q, C, ThePort

LEMMA PlacesDiffer ==
    ASSUME NEW g \in Tasks, NEW h \in Tasks
    PROVE  /\ Q(g) \in Places /\ C(h) \in Places /\ ThePort \in Places
           /\ Q(g) # C(h) /\ Q(g) # ThePort /\ C(h) # ThePort
           /\ (Q(g) = Q(h) \/ C(g) = C(h)) => g = h
BY DEF Places, Q, C, ThePort

LEMMA HeldAt ==
    ASSUME NEW g \in Tasks
    PROVE  /\ Held(Q(g)) = queue[g] /\ HeldIn(Q(g)) = Ran(queue[g])
           /\ Held(C(g)) = Ids(calls[g]) /\ HeldIn(C(g)) = Ran(Ids(calls[g]))
           /\ Held(ThePort) = port /\ HeldIn(ThePort) = Ran(port)
<1>1. Held(Q(g)) = queue[g] /\ Held(C(g)) = Ids(calls[g]) /\ Held(ThePort) = port
  BY DEF Held, Q, C, ThePort, Ids
<1> QED BY <1>1 DEF HeldIn, Ran

LEMMA HeldAtNext ==
    ASSUME NEW g \in Tasks
    PROVE  /\ Held(Q(g))' = queue'[g] /\ HeldIn(Q(g))' = Ran(queue'[g])
           /\ Held(C(g))' = Ids(calls'[g]) /\ HeldIn(C(g))' = Ran(Ids(calls'[g]))
           /\ Held(ThePort)' = port' /\ HeldIn(ThePort)' = Ran(port')
<1>1. Held(Q(g))' = queue'[g] /\ Held(C(g))' = Ids(calls'[g]) /\ Held(ThePort)' = port'
  BY DEF Held, Q, C, ThePort, Ids
<1> QED BY <1>1 DEF HeldIn, Ran

LEMMA HeldSame ==
    ASSUME NEW r \in Places,
           \A g \in Tasks : r = Q(g) => queue'[g] = queue[g],
           \A g \in Tasks : r = C(g) => calls'[g] = calls[g],
           r = ThePort => port' = port
    PROVE  Held(r)' = Held(r) /\ HeldIn(r)' = HeldIn(r)
<1>1. CASE \E g \in Tasks : r = Q(g)
  BY <1>1, HeldAt, HeldAtNext
<1>2. CASE \E g \in Tasks : r = C(g)
  BY <1>2, HeldAt, HeldAtNext
<1>3. CASE r = ThePort
  BY <1>3, HeldAt, HeldAtNext, Constants
<1> QED BY <1>1, <1>2, <1>3, PlaceCases

\* A new message in one place.
LEMMA AddStep ==
    ASSUME OneOwner, NEW p \in Places, NEW k, k \notin heap, k \notin abandoned,
           Distinct(Held(p))', HeldIn(p)' = HeldIn(p) \cup {k},
           \A r \in Places : r # p => Distinct(Held(r))' /\ HeldIn(r)' = HeldIn(r),
           heap' = heap \cup {k}, abandoned' = abandoned
    PROVE  Once' /\ Apart' /\ Exact'
<1>1. Apart /\ Exact
  BY OwnerParts
<1>2. Once'
  BY DEF Once, Places
<1>3. \A r \in Places : k \notin HeldIn(r)
  BY <1>1 DEF Exact
<1>4. Places' = Places
  BY DEF Places
<1>5. ASSUME NEW r \in Places, NEW q \in Places, r # q
      PROVE  HeldIn(r)' \cap HeldIn(q)' = {}
  <2>1. HeldIn(r) \cap HeldIn(q) = {}
    BY <1>1, <1>5 DEF Apart
  <2> QED BY <2>1, <1>3, <1>5
<1>6. Apart'
  BY <1>5 DEF Apart, Places
<1>7. UNION {HeldIn(r)' : r \in Places} = (UNION {HeldIn(r) : r \in Places}) \cup {k}
  <2> DEFINE A == UNION {HeldIn(r)' : r \in Places}  B == UNION {HeldIn(r) : r \in Places}
  <2>1. \A r \in Places : /\ \A x \in HeldIn(r)' : x = k \/ x \in HeldIn(r)
                          /\ \A x \in HeldIn(r) : x \in HeldIn(r)'
    OBVIOUS
  <2>2. k \in HeldIn(p)' /\ p \in Places
    OBVIOUS
  <2>3. \A x \in A : x = k \/ x \in B
    BY <2>1
  <2>4. \A x \in B : x \in A
    BY <2>1
  <2>5. k \in A
    BY <2>2
  <2> HIDE DEF A, B
  <2>6. A = B \cup {k}
    BY <2>3, <2>4, <2>5
  <2> QED BY <2>6 DEF A, B
<1>8. Exact'
  BY <1>1, <1>4, <1>7 DEF Exact
<1> QED BY <1>2, <1>6, <1>8

\* A message less.
LEMMA DropStep ==
    ASSUME OneOwner, NEW p \in Places, NEW m \in HeldIn(p),
           Distinct(Held(p))', HeldIn(p)' = HeldIn(p) \ {m},
           \A r \in Places : r # p => Distinct(Held(r))' /\ HeldIn(r)' = HeldIn(r),
           heap' \ abandoned' = (heap \ abandoned) \ {m}
    PROVE  Once' /\ Apart' /\ Exact'
<1>1. Apart /\ Exact
  BY OwnerParts
<1>2. Once'
  BY DEF Once, Places
<1>3. \A r \in Places : r # p => m \notin HeldIn(r)
  BY <1>1 DEF Apart
<1>4. Places' = Places
  BY DEF Places
<1>5. Apart'
  BY <1>1 DEF Apart, Places
<1>6. UNION {HeldIn(r)' : r \in Places} = (UNION {HeldIn(r) : r \in Places}) \ {m}
  BY <1>3
<1>7. Exact'
  BY <1>1, <1>4, <1>6 DEF Exact
<1> QED BY <1>2, <1>5, <1>7

\* A message goes from one place to another.
LEMMA MoveStep ==
    ASSUME OneOwner, NEW p \in Places, NEW q \in Places, p # q, NEW m \in HeldIn(p),
           Distinct(Held(p))', HeldIn(p)' = HeldIn(p) \ {m},
           m \notin HeldIn(q) => Distinct(Held(q))', HeldIn(q)' = HeldIn(q) \cup {m},
           \A r \in Places : r # p /\ r # q => Distinct(Held(r))' /\ HeldIn(r)' = HeldIn(r),
           heap' = heap, abandoned' = abandoned
    PROVE  Once' /\ Apart' /\ Exact'
<1>1. Apart /\ Exact
  BY OwnerParts
<1>2. \A r \in Places : r # p => m \notin HeldIn(r)
  BY <1>1 DEF Apart
<1>3. Distinct(Held(q))'
  BY <1>2
<1>4. Once'
  BY <1>3 DEF Once, Places
<1>5. Places' = Places
  BY DEF Places
<1>6. ASSUME NEW r \in Places, NEW t \in Places, r # t
      PROVE  HeldIn(r)' \cap HeldIn(t)' = {}
  <2>1. HeldIn(r) \cap HeldIn(t) = {}
    BY <1>1, <1>6 DEF Apart
  <2>2. CASE r = p /\ t = q
    BY <2>1, <2>2
  <2>3. CASE r = q /\ t = p
    BY <2>1, <2>3
  <2>4. CASE r = q /\ t # p
    BY <2>1, <2>4, <1>2, <1>6
  <2>5. CASE t = q /\ r # p
    BY <2>1, <2>5, <1>2, <1>6
  <2>6. CASE r # q /\ t # q
    BY <2>1, <2>6
  <2> QED BY <2>2, <2>3, <2>4, <2>5, <2>6
<1>7. Apart'
  BY <1>6 DEF Apart, Places
<1>8. UNION {HeldIn(r)' : r \in Places} = UNION {HeldIn(r) : r \in Places}
  <2>1. ASSUME NEW x, NEW r \in Places, x \in HeldIn(r)'
        PROVE  \E t \in Places : x \in HeldIn(t)
    BY <2>1
  <2>2. ASSUME NEW x, NEW r \in Places, x \in HeldIn(r)
        PROVE  \E t \in Places : x \in HeldIn(t)'
    <3>1. CASE x = m
      BY <3>1
    <3>2. CASE x # m
      BY <2>2, <3>2
    <3> QED BY <3>1, <3>2
  <2> QED BY <2>1, <2>2
<1>9. Exact'
  BY <1>1, <1>5, <1>8 DEF Exact
<1> QED BY <1>4, <1>7, <1>9

LEMMA SameStep ==
    ASSUME OneOwner,
           \A r \in Places : Distinct(Held(r))' /\ HeldIn(r)' = HeldIn(r),
           heap' = heap, abandoned' = abandoned
    PROVE  Once' /\ Apart' /\ Exact'
<1>1. Apart /\ Exact
  BY OwnerParts
<1>2. Once'
  BY DEF Once, Places
<1>3. Apart'
  BY <1>1 DEF Apart, Places
<1>4. UNION {HeldIn(r)' : r \in Places} = UNION {HeldIn(r) : r \in Places} /\ Places' = Places
  BY DEF Places
<1>5. Exact'
  BY <1>1, <1>4 DEF Exact
<1> QED BY <1>2, <1>3, <1>5

LEMMA OwnerSame ==
    ASSUME OneOwner, NEW r \in Places, HeldIn(r)' = HeldIn(r), Held(r)' = Held(r)
    PROVE  Distinct(Held(r))'
BY OwnerParts DEF Once, Distinct

\* What the calls and the queues hold, before and after.
LEMMA CallsHold ==
    ASSUME TypeOK, OneOwner, NEW h \in Tasks
    PROVE  calls[h] \in Seq(CallType) /\ Distinct(Ids(calls[h])) /\ Ran(Ids(calls[h])) = HeldIn(C(h))
<1>1. C(h) \in Places
  BY PlacesDiffer
<1>2. Distinct(Held(C(h)))
  BY <1>1, OwnerParts DEF Once
<1> QED BY <1>2, HeldAt DEF TypeOK

LEMMA QueueHolds ==
    ASSUME TypeOK, OneOwner, NEW g \in Tasks
    PROVE  /\ queue[g] \in Seq(Id) /\ Distinct(queue[g]) /\ Ran(queue[g]) = HeldIn(Q(g))
           /\ port \in Seq(Id) /\ Distinct(port) /\ Ran(port) = HeldIn(ThePort)
<1>1. Q(g) \in Places /\ ThePort \in Places
  BY PlacesDiffer
<1>2. Distinct(Held(Q(g))) /\ Distinct(Held(ThePort))
  BY <1>1, OwnerParts DEF Once
<1> QED BY <1>2, HeldAt DEF TypeOK, Id

LEMMA CallsNext ==
    ASSUME TypeOK, NEW h \in Tasks, NEW X, calls' = [calls EXCEPT ![h] = X]
    PROVE  /\ Held(C(h))' = Ids(X) /\ HeldIn(C(h))' = Ran(Ids(X))
           /\ Distinct(Ids(X)) => Distinct(Held(C(h)))'
<1>1. calls'[h] = X
  BY DEF TypeOK
<1>2. Held(C(h))' = Ids(X) /\ HeldIn(C(h))' = Ran(Ids(X))
  BY <1>1, HeldAtNext
<1> QED BY <1>2 DEF Distinct

LEMMA QueueNext ==
    ASSUME TypeOK, NEW g \in Tasks, NEW q, queue' = [queue EXCEPT ![g] = q]
    PROVE  /\ Held(Q(g))' = q /\ HeldIn(Q(g))' = Ran(q)
           /\ Distinct(q) => Distinct(Held(Q(g)))'
<1>1. queue'[g] = q
  BY DEF TypeOK
<1>2. Held(Q(g))' = q /\ HeldIn(Q(g))' = Ran(q)
  BY <1>1, HeldAtNext
<1> QED BY <1>2 DEF Distinct

LEMMA PortNext ==
    /\ Held(ThePort)' = port' /\ HeldIn(ThePort)' = Ran(port')
    /\ Distinct(port') => Distinct(Held(ThePort))'
<1>1. Held(ThePort)' = port' /\ HeldIn(ThePort)' = Ran(port')
  BY HeldAtNext, Constants
<1> QED BY <1>1 DEF Distinct

\* The places that a step of h leaves alone.
LEMMA Elsewhere ==
    ASSUME TypeOK, OneOwner, NEW h \in Tasks, NEW X, calls' = [calls EXCEPT ![h] = X],
           NEW r \in Places, r # C(h),
           \A g \in Tasks : r = Q(g) => queue'[g] = queue[g],
           r = ThePort => port' = port
    PROVE  Distinct(Held(r))' /\ HeldIn(r)' = HeldIn(r)
<1>1. \A g \in Tasks : r = C(g) => calls'[g] = calls[g]
  BY DEF TypeOK
<1>2. Held(r)' = Held(r) /\ HeldIn(r)' = HeldIn(r)
  BY <1>1, HeldSame
<1> QED BY <1>2, OwnerSame

-----------------------------------------------------------------------------

\* The innermost call is over and its message is not in memory, or abandoned.
LEMMA DropOwner ==
    ASSUME TypeOK, OneOwner, NEW h \in Tasks, calls[h] # <<>>, Return(h),
           UNCHANGED <<queue, port>>,
           heap' \ abandoned' = (heap \ abandoned) \ {Handled(h)}
    PROVE  Once' /\ Apart' /\ Exact'
<1>1. C(h) \in Places /\ calls[h] \in Seq(CallType) /\ Distinct(Ids(calls[h]))
  BY PlacesDiffer, CallsHold
<1>2. /\ Distinct(Ids(Tail(calls[h])))
      /\ Ran(Ids(Tail(calls[h]))) = HeldIn(C(h)) \ {Handled(h)}
      /\ Handled(h) \in HeldIn(C(h))
  BY <1>1, DistinctReturn, CallsHold DEF Handled
<1>3. calls' = [calls EXCEPT ![h] = Tail(calls[h])]
  BY DEF Return
<1>4. Distinct(Held(C(h)))' /\ HeldIn(C(h))' = HeldIn(C(h)) \ {Handled(h)}
  BY <1>2, <1>3, CallsNext
<1>5. \A r \in Places : r # C(h) => Distinct(Held(r))' /\ HeldIn(r)' = HeldIn(r)
  BY <1>3, Elsewhere
<1> QED BY <1>1, <1>2, <1>4, <1>5, DropStep

\* The innermost call becomes another one about the same message.
LEMMA BecomeOwner ==
    ASSUME TypeOK, OneOwner, NEW h \in Tasks, calls[h] # <<>>,
           NEW c \in CallType, c.msg = Handled(h), Become(h, c),
           UNCHANGED <<queue, port, heap, abandoned>>
    PROVE  Once' /\ Apart' /\ Exact'
<1> DEFINE X == Push(c, Tail(calls[h]))
<1>1. C(h) \in Places /\ calls[h] \in Seq(CallType) /\ Distinct(Ids(calls[h]))
  BY PlacesDiffer, CallsHold
<1>2. Distinct(Ids(X)) /\ Ran(Ids(X)) = HeldIn(C(h))
  BY <1>1, DistinctBecome, CallsHold DEF Handled
<1>3. calls' = [calls EXCEPT ![h] = X]
  BY DEF Become
<1> HIDE DEF X
<1>4. Distinct(Held(C(h)))' /\ HeldIn(C(h))' = HeldIn(C(h))
  BY <1>2, <1>3, CallsNext
<1>5. \A r \in Places : r # C(h) => Distinct(Held(r))' /\ HeldIn(r)' = HeldIn(r)
  BY <1>3, Elsewhere
<1> QED BY <1>4, <1>5, SameStep

\* A call about a new message.
LEMMA AddOwner ==
    ASSUME TypeOK, OneOwner, NEW h \in Tasks, NEW X, NEW k, k \notin heap, k \notin abandoned,
           Distinct(Ids(X)), Ran(Ids(X)) = Ran(Ids(calls[h])) \cup {k},
           calls' = [calls EXCEPT ![h] = X], UNCHANGED <<queue, port, abandoned>>,
           heap' = heap \cup {k}
    PROVE  Once' /\ Apart' /\ Exact'
<1>1. C(h) \in Places
  BY PlacesDiffer
<1>2. Distinct(Held(C(h)))' /\ HeldIn(C(h))' = HeldIn(C(h)) \cup {k}
  BY CallsNext, CallsHold
<1>3. \A r \in Places : r # C(h) => Distinct(Held(r))' /\ HeldIn(r)' = HeldIn(r)
  BY Elsewhere
<1> QED BY <1>1, <1>2, <1>3, AddStep

\* The new messages are in no place.
LEMMA NewNowhere ==
    ASSUME TypeOK, Known, OneOwner, NEW k, ~Exists(created, k)
    PROVE  /\ k \notin heap /\ k \notin abandoned
           /\ \A p \in Places : k \notin HeldIn(p)
<1>1. Exact
  BY OwnerParts
<1>2. k \notin heap /\ k \notin abandoned
  BY DEF Known
<1> QED BY <1>1, <1>2 DEF Exact

LEMMA HeldExist ==
    ASSUME Known, OneOwner, NEW p \in Places, NEW m \in HeldIn(p)
    PROVE  Exists(created, m) /\ m \in heap /\ m \notin abandoned
<1>1. Exact
  BY OwnerParts
<1>2. m \in heap \ abandoned
  BY <1>1 DEF Exact
<1> QED BY <1>2 DEF Known

LEMMA ToAllLater ==
    ASSUME Known, OneOwner, Later(created, arrived, created', arrived'), abandoned' = abandoned
    PROVE  ToAll'
<1>1. ToAll
  BY OwnerParts
<1>2. \A m \in abandoned : Exists(created, m) /\ m \in Id
  BY DEF Known, Exists
<1>3. \A m \in abandoned : Of(created', m) = Of(created, m)
  BY <1>2 DEF Later
<1>4. \A m \in abandoned : Of(created, m).to = Everyone
  BY <1>1 DEF ToAll, Fields, Of
<1>5. \A m \in abandoned' : created'[m[1]][m[2]].to = Everyone
  BY <1>3, <1>4 DEF Of
<1> QED BY <1>5 DEF ToAll, Fields

LEMMA SendOwner ==
    ASSUME Shape, OneOwner, NEW h \in Tasks, NEW s \in Occasions \cup Replies, Send(h, s)
    PROVE  OneOwner'
<1> DEFINE k == New(h)  c == Call(Sending(s.to), k)  f == Message(s.type, s.to, k)
<1>1. TypeOK /\ Known /\ Stacks
  BY DEF Shape
<1>2. /\ Make(h, f) /\ Enter(h, c)
      /\ UNCHANGED <<queue, port, halted, arrived, abandoned>>
  BY DEF Send
<1>3. k \in Id
  BY <1>1 DEF TypeOK, New, Id
<1>4. s.type \in Types /\ s.to \in Address
  BY MeshAssumption
<1>5. f \in MessageType
  BY <1>3, <1>4 DEF Message, MessageType, Id
<1>6. c \in CallType /\ c.msg = k
  BY <1>3 DEF Call, CallType, Sending, Id
<1>7. arrived \in Arrivals
  BY <1>1 DEF TypeOK, Arrivals, Id
<1> HIDE DEF f, c, k
<1>8. /\ ~Exists(created, k) /\ heap' = heap \cup {k}
      /\ Later(created, arrived, created', arrived')
  BY <1>1, <1>2, <1>5, <1>7, MakeLater DEF k
<1>9. k \notin heap /\ k \notin abandoned /\ k \notin HeldIn(C(h))
  BY <1>1, <1>8, NewNowhere, PlacesDiffer
<1>10. calls[h] \in Seq(CallType) /\ Distinct(Ids(calls[h])) /\ Ran(Ids(calls[h])) = HeldIn(C(h))
  BY <1>1, CallsHold
<1>11. /\ Ran(Ids(Push(c, calls[h]))) = Ran(Ids(calls[h])) \cup {k}
       /\ Distinct(Ids(Push(c, calls[h])))
  BY <1>6, <1>9, <1>10, DistinctPush
<1>12. calls' = [calls EXCEPT ![h] = Push(c, calls[h])]
  BY <1>2 DEF Enter
<1>13. Once' /\ Apart' /\ Exact'
  BY <1>1, <1>2, <1>8, <1>9, <1>11, <1>12, AddOwner
<1>14. ToAll'
  BY <1>1, <1>2, <1>8, ToAllLater
<1> QED BY <1>13, <1>14, OwnerParts

\* One call becomes two, the second about a new message.
LEMMA TwoOwner ==
    ASSUME TypeOK, Known, OneOwner, NEW h \in Tasks, calls[h] # <<>>,
           NEW c \in CallType, c.msg = Handled(h), NEW b \in CallType, b.msg = New(h),
           NEW f \in MessageType, Make(h, f),
           calls' = [calls EXCEPT ![h] = Push(b, Push(c, Tail(@)))],
           UNCHANGED <<queue, port, arrived, abandoned>>
    PROVE  OneOwner'
<1> DEFINE k == New(h)  s == Push(c, Tail(calls[h]))
<1>1. arrived \in Arrivals
  BY DEF TypeOK, Arrivals, Id
<1> HIDE DEF k
<1>2. /\ ~Exists(created, k) /\ heap' = heap \cup {k}
      /\ Later(created, arrived, created', arrived')
  BY <1>1, MakeLater DEF k
<1>3. k \notin heap /\ k \notin abandoned /\ k \notin HeldIn(C(h))
  BY <1>2, NewNowhere, PlacesDiffer
<1>4. calls[h] \in Seq(CallType) /\ Distinct(Ids(calls[h])) /\ Ran(Ids(calls[h])) = HeldIn(C(h))
  BY CallsHold
<1>5. Distinct(Ids(s)) /\ Ran(Ids(s)) = Ran(Ids(calls[h]))
  BY <1>4, DistinctBecome DEF Handled
<1>6. s \in Seq(CallType)
  BY <1>4, TailIndex, PushIndex
<1>7. calls' = [calls EXCEPT ![h] = Push(b, s)]
  OBVIOUS
<1> HIDE DEF s
<1>8. Ran(Ids(Push(b, s))) = Ran(Ids(calls[h])) \cup {k} /\ Distinct(Ids(Push(b, s)))
  BY <1>3, <1>4, <1>5, <1>6, DistinctPush DEF k
<1>9. Once' /\ Apart' /\ Exact'
  BY <1>2, <1>3, <1>7, <1>8, AddOwner
<1>10. ToAll'
  BY <1>2, ToAllLater
<1> QED BY <1>9, <1>10, OwnerParts

LEMMA FreeOwner ==
    ASSUME Shape, OneOwner, NEW h \in Tasks, calls[h] # <<>>, Free(Handled(h)), Return(h),
           UNCHANGED <<created, queue, port, arrived, abandoned>>
    PROVE  OneOwner'
<1>1. TypeOK /\ Known /\ Stacks
  BY DEF Shape
<1>2. heap' \ abandoned' = (heap \ abandoned) \ {Handled(h)}
  BY DEF Free
<1>3. Once' /\ Apart' /\ Exact'
  BY <1>1, <1>2, DropOwner
<1>4. ToAll'
  BY <1>1, SameLater, ToAllLater
<1> QED BY <1>3, <1>4, OwnerParts

LEMMA SameCallOwner ==
    ASSUME Shape, OneOwner, NEW h \in Tasks, calls[h] # <<>>,
           NEW c \in CallType, c.msg = Handled(h), Become(h, c),
           UNCHANGED <<created, queue, port, heap, arrived, abandoned>>
    PROVE  OneOwner'
<1>1. TypeOK /\ Known /\ Stacks
  BY DEF Shape
<1>2. Once' /\ Apart' /\ Exact'
  BY <1>1, BecomeOwner
<1>3. ToAll'
  BY <1>1, SameLater, ToAllLater
<1> QED BY <1>2, <1>3, OwnerParts

LEMMA SendInternalOwner ==
    ASSUME Shape, OneOwner, NEW h \in Tasks, SendInternal(h)
    PROVE  OneOwner'
<1> DEFINE m == Handled(h)  c == Head(calls[h])
<1>1. TypeOK /\ Known /\ Stacks
  BY DEF Shape
<1>2. calls[h] # <<>> /\ c.op = "send" /\ UNCHANGED <<created, port, halted, sends, abandoned>>
  BY DEF SendInternal, Does
<1>3. /\ m \in Id /\ Exists(created, m) /\ Fields(m) = Of(created, m) /\ Fields(m).of \in Id
      /\ Fine(c, Len(calls[h]), created, arrived) /\ c.msg = m
  BY <1>1, <1>2, TopCall DEF Handled
<1>4. PICK g \in Tasks : g = Fields(m).to
  BY <1>2, <1>3 DEF Fine
<1>5. CASE Room(queue[g]) /\ Put(g, m, Fields(m).of) /\ Return(h) /\ UNCHANGED heap
  <2>1. C(h) \in Places /\ Q(g) \in Places /\ C(h) # Q(g)
    BY <1>4, PlacesDiffer
  <2>2. calls[h] \in Seq(CallType) /\ Distinct(Ids(calls[h])) /\ Ran(Ids(calls[h])) = HeldIn(C(h))
    BY <1>1, CallsHold
  <2>3. /\ Distinct(Ids(Tail(calls[h])))
        /\ Ran(Ids(Tail(calls[h]))) = HeldIn(C(h)) \ {m} /\ m \in HeldIn(C(h))
    BY <1>2, <2>2, DistinctReturn DEF Handled
  <2>4. calls' = [calls EXCEPT ![h] = Tail(calls[h])]
    BY <1>5 DEF Return
  <2>5. Distinct(Held(C(h)))' /\ HeldIn(C(h))' = HeldIn(C(h)) \ {m}
    BY <1>1, <2>3, <2>4, CallsNext
  <2>6. queue[g] \in Seq(Id) /\ Distinct(queue[g]) /\ Ran(queue[g]) = HeldIn(Q(g))
    BY <1>1, <1>4, QueueHolds
  <2> DEFINE q == Append(queue[g], m)
  <2>7. queue' = [queue EXCEPT ![g] = q]
    BY <1>5 DEF Put
  <2> HIDE DEF m
  <2>8. /\ Ran(q) = HeldIn(Q(g)) \cup {m}
        /\ m \notin HeldIn(Q(g)) => Distinct(q)
    BY <1>3, <2>6, DistinctAppend
  <2> HIDE DEF q
  <2>9. /\ HeldIn(Q(g))' = HeldIn(Q(g)) \cup {m}
        /\ m \notin HeldIn(Q(g)) => Distinct(Held(Q(g)))'
    BY <1>1, <1>4, <2>7, <2>8, QueueNext
  <2>10. \A r \in Places : r # C(h) /\ r # Q(g) => Distinct(Held(r))' /\ HeldIn(r)' = HeldIn(r)
    <3>1. \A x \in Tasks : x # g => queue'[x] = queue[x]
      BY <1>1, <2>7 DEF TypeOK
    <3> QED BY <1>1, <1>2, <2>4, <3>1, Elsewhere
  <2>11. Once' /\ Apart' /\ Exact'
    BY <1>2, <1>5, <2>1, <2>3, <2>5, <2>9, <2>10, MoveStep
  <2>12. ToAll'
    <3>1. ToAll
      BY OwnerParts
    <3> QED BY <1>2, <3>1 DEF ToAll, Fields
  <2> QED BY <2>11, <2>12, OwnerParts
<1>6. CASE Become(h, Call("report", m)) /\ UNCHANGED <<heap, queue, arrived>>
  <2>1. Call("report", m) \in CallType /\ Call("report", m).msg = m
    BY <1>3 DEF Call, CallType, Id
  <2> QED BY <1>2, <1>6, <2>1, SameCallOwner
<1>7. CASE Free(m) /\ Return(h) /\ UNCHANGED <<queue, arrived>>
  BY <1>2, <1>7, FreeOwner
<1> QED BY <1>4, <1>5, <1>6, <1>7 DEF SendInternal

LEMMA SendExternalOwner ==
    ASSUME Shape, OneOwner, NEW h \in Tasks, SendExternal(h)
    PROVE  OneOwner'
<1> DEFINE m == Handled(h)
<1>1. TypeOK /\ Known /\ Stacks
  BY DEF Shape
<1>2. /\ calls[h] # <<>>
      /\ UNCHANGED <<created, heap, queue, halted, sends, arrived, abandoned>>
  BY DEF SendExternal, Does
<1>3. m \in Id
  BY <1>1, <1>2, TopCall
<1>4. CASE Room(port) /\ port' = Append(port, m) /\ Return(h)
  <2>1. C(h) \in Places /\ ThePort \in Places /\ C(h) # ThePort
    BY PlacesDiffer
  <2>2. calls[h] \in Seq(CallType) /\ Distinct(Ids(calls[h])) /\ Ran(Ids(calls[h])) = HeldIn(C(h))
    BY <1>1, CallsHold
  <2>3. /\ Distinct(Ids(Tail(calls[h])))
        /\ Ran(Ids(Tail(calls[h]))) = HeldIn(C(h)) \ {m} /\ m \in HeldIn(C(h))
    BY <1>2, <2>2, DistinctReturn DEF Handled
  <2>4. calls' = [calls EXCEPT ![h] = Tail(calls[h])]
    BY <1>4 DEF Return
  <2>5. Distinct(Held(C(h)))' /\ HeldIn(C(h))' = HeldIn(C(h)) \ {m}
    BY <1>1, <2>3, <2>4, CallsNext
  <2>6. port \in Seq(Id) /\ Distinct(port) /\ Ran(port) = HeldIn(ThePort)
    BY <1>1, QueueHolds
  <2> HIDE DEF m
  <2>7. /\ Ran(Append(port, m)) = HeldIn(ThePort) \cup {m}
        /\ m \notin HeldIn(ThePort) => Distinct(Append(port, m))
    BY <1>3, <2>6, DistinctAppend
  <2>8. /\ HeldIn(ThePort)' = HeldIn(ThePort) \cup {m}
        /\ m \notin HeldIn(ThePort) => Distinct(Held(ThePort))'
    BY <1>4, <2>7, PortNext
  <2>9. \A r \in Places : r # C(h) /\ r # ThePort => Distinct(Held(r))' /\ HeldIn(r)' = HeldIn(r)
    BY <1>1, <1>2, <2>4, Elsewhere
  <2>10. Once' /\ Apart' /\ Exact'
    BY <1>2, <2>1, <2>3, <2>5, <2>8, <2>9, MoveStep
  <2>11. ToAll'
    BY <1>1, <1>2, SameLater, ToAllLater
  <2> QED BY <2>10, <2>11, OwnerParts
<1>5. CASE Become(h, Call("report", m)) /\ UNCHANGED port
  <2>1. Call("report", m) \in CallType /\ Call("report", m).msg = m
    BY <1>3 DEF Call, CallType, Id
  <2> QED BY <1>2, <1>5, <2>1, SameCallOwner
<1> QED BY <1>4, <1>5 DEF SendExternal

LEMMA UnchangedOwner ==
    ASSUME TypeOK, Known, OneOwner,
           UNCHANGED <<created, heap, queue, port, calls, arrived, abandoned>>
    PROVE  OneOwner'
<1>1. \A r \in Places : Held(r)' = Held(r) /\ HeldIn(r)' = HeldIn(r)
  BY HeldSame
<1>2. \A r \in Places : Distinct(Held(r))'
  BY <1>1, OwnerSame
<1>3. Once' /\ Apart' /\ Exact'
  BY <1>1, <1>2, SameStep
<1>4. ToAll'
  BY SameLater, ToAllLater
<1> QED BY <1>3, <1>4, OwnerParts

LEMMA ReportOwner ==
    ASSUME Shape, OneOwner, NEW h \in Tasks, Report(h)
    PROVE  OneOwner'
<1> DEFINE m == Handled(h)  f == Message(Text, AppLog, New(h))
<1>1. TypeOK /\ Known /\ Stacks
  BY DEF Shape
<1>2. calls[h] # <<>> /\ UNCHANGED <<queue, port, sends, arrived, abandoned>>
  BY DEF Report, Does
<1>3. m \in Id
  BY <1>1, <1>2, TopCall
<1>4. CASE /\ Make(h, f)
           /\ calls' = [calls EXCEPT ![h] =
                 Push(Call("send", New(h)), Push(Call("delete", m), Tail(@)))]
  <2>1. New(h) \in Id
    BY <1>1 DEF TypeOK, New, Id
  <2>2. f \in MessageType
    BY <2>1, Constants DEF Message, MessageType, Id, Address
  <2>3. /\ Call("delete", m) \in CallType /\ Call("delete", m).msg = m
        /\ Call("send", New(h)) \in CallType /\ Call("send", New(h)).msg = New(h)
    BY <1>3, <2>1 DEF Call, CallType, Id
  <2> HIDE DEF f
  <2> QED BY <1>1, <1>2, <1>4, <2>2, <2>3, TwoOwner
<1>5. CASE UNCHANGED <<created, heap, calls>>
  BY <1>1, <1>2, <1>5, UnchangedOwner
<1> QED BY <1>4, <1>5 DEF Report

LEMMA SendCloneOwner ==
    ASSUME Shape, OneOwner, NEW h \in Tasks, SendClone(h)
    PROVE  OneOwner'
<1> DEFINE m == Handled(h)  c == Head(calls[h])  k == New(h)
<1>1. TypeOK /\ Known /\ Stacks
  BY DEF Shape
<1>2. /\ calls[h] # <<>> /\ c.op = "broadcast" /\ UNCHANGED <<port, halted, sends, abandoned>>
      /\ Make(h, Fields(m))
  BY DEF SendClone, Does
<1>3. /\ m \in Id /\ Fine(c, Len(calls[h]), created, arrived) /\ c.msg = m /\ c \in CallType
      /\ Fields(m) = Of(created, m) /\ Fields(m) \in MessageType /\ Fields(m).of \in Id
  BY <1>1, <1>2, TopCall DEF Handled
<1>4. k \in Id
  BY <1>1 DEF TypeOK, New, Id
<1>5. PICK i \in Rest(h) :
        \/ /\ Room(queue[Order[i]])
           /\ Put(Order[i], k, Fields(m).of)
           /\ Become(h, Further(c, i, TRUE))
        \/ /\ ~Room(queue[Order[i]])
           /\ calls' = [calls EXCEPT ![h] =
                  Push(Call("report", k), Push(Further(c, i, FALSE), Tail(@)))]
           /\ UNCHANGED <<queue, arrived>>
  BY DEF SendClone
<1>6. i \in Nat /\ Order[i] \in Tasks
  BY <1>5, RestIndex
<1>7. \A ok \in BOOLEAN : Further(c, i, ok) \in CallType /\ Further(c, i, ok).msg = m
  BY <1>2, <1>3, <1>6 DEF Further, CallType
<1>8. PICK g \in Tasks : g = Order[i]
  BY <1>6
<1>9. CASE Room(queue[g]) /\ Put(g, k, Fields(m).of) /\ Become(h, Further(c, i, TRUE))
  <2>1. /\ arrived' \in Arrivals /\ \A x \in Tasks : arrived[x] \subseteq arrived'[x]
    BY <1>1, <1>3, <1>4, <1>9, PutType
  <2> DEFINE X == Push(Further(c, i, TRUE), Tail(calls[h]))  q == Append(queue[g], k)
  <2>2. queue' = [queue EXCEPT ![g] = q] /\ calls' = [calls EXCEPT ![h] = X]
    BY <1>9 DEF Put, Become
  <2>3. C(h) \in Places /\ Q(g) \in Places /\ C(h) # Q(g)
    BY PlacesDiffer
  <2>4. calls[h] \in Seq(CallType) /\ Distinct(Ids(calls[h])) /\ Ran(Ids(calls[h])) = HeldIn(C(h))
    BY <1>1, CallsHold
  <2>5. Distinct(Ids(X)) /\ Ran(Ids(X)) = HeldIn(C(h))
    BY <1>2, <1>3, <1>7, <2>4, DistinctBecome
  <2> HIDE DEF X
  <2>6. Distinct(Held(C(h)))' /\ HeldIn(C(h))' = HeldIn(C(h))
    BY <1>1, <2>2, <2>5, CallsNext
  <2>7. queue[g] \in Seq(Id) /\ Distinct(queue[g]) /\ Ran(queue[g]) = HeldIn(Q(g))
    BY <1>1, QueueHolds
  <2> HIDE DEF k, m
  <2>8. /\ heap' = heap \cup {k} /\ ~Exists(created, k)
        /\ Later(created, arrived, created', arrived')
    BY <1>1, <1>2, <1>3, <2>1, MakeLater DEF k
  <2>9. k \notin heap /\ k \notin abandoned /\ k \notin HeldIn(Q(g))
    BY <1>1, <2>3, <2>8, NewNowhere
  <2>10. Ran(q) = HeldIn(Q(g)) \cup {k} /\ Distinct(q)
    BY <1>4, <2>7, <2>9, DistinctAppend
  <2> HIDE DEF q
  <2>11. HeldIn(Q(g))' = HeldIn(Q(g)) \cup {k} /\ Distinct(Held(Q(g)))'
    BY <1>1, <2>2, <2>10, QueueNext
  <2>12. \A r \in Places : r # C(h) /\ r # Q(g) => Distinct(Held(r))' /\ HeldIn(r)' = HeldIn(r)
    <3>1. \A x \in Tasks : x # g => queue'[x] = queue[x]
      BY <1>1, <2>2 DEF TypeOK
    <3> QED BY <1>1, <1>2, <2>2, <3>1, Elsewhere
  <2>13. \A r \in Places : r # Q(g) => Distinct(Held(r))' /\ HeldIn(r)' = HeldIn(r)
    BY <2>6, <2>12
  <2>14. Once' /\ Apart' /\ Exact'
    BY <1>2, <2>3, <2>8, <2>9, <2>11, <2>13, AddStep
  <2>15. ToAll'
    BY <1>1, <1>2, <2>8, ToAllLater
  <2> QED BY <2>14, <2>15, OwnerParts
<1>10. CASE /\ calls' = [calls EXCEPT ![h] =
                   Push(Call("report", k), Push(Further(c, i, FALSE), Tail(@)))]
            /\ UNCHANGED <<queue, arrived>>
  <2>1. Call("report", k) \in CallType /\ Call("report", k).msg = k
    BY <1>4 DEF Call, CallType, Id
  <2>2. Further(c, i, FALSE) \in CallType /\ Further(c, i, FALSE).msg = m
    BY <1>7
  <2> QED BY <1>1, <1>2, <1>3, <1>10, <2>1, <2>2, TwoOwner
<1> QED BY <1>5, <1>8, <1>9, <1>10

LEMMA EndBroadcastOwner ==
    ASSUME Shape, OneOwner, NEW h \in Tasks, EndBroadcast(h)
    PROVE  OneOwner'
<1> DEFINE m == Handled(h)
<1>1. TypeOK /\ Known /\ Stacks
  BY DEF Shape
<1>2. calls[h] # <<>> /\ UNCHANGED <<created, queue, port, halted, sends, arrived>>
  BY DEF EndBroadcast, Does
<1>3. m \in Id
  BY <1>1, <1>2, TopCall
<1>4. CASE Free(m) /\ Return(h) /\ UNCHANGED abandoned
  BY <1>2, <1>4, FreeOwner
<1>5. CASE Become(h, Call("external", m)) /\ UNCHANGED <<heap, abandoned>>
  <2>1. Call("external", m) \in CallType /\ Call("external", m).msg = m
    BY <1>3 DEF Call, CallType, Id
  <2> QED BY <1>2, <1>5, <2>1, SameCallOwner
<1>6. CASE Fields(m).to = Everyone /\ abandoned' = abandoned \cup {m} /\ Return(h) /\ UNCHANGED heap
  <2>1. heap' \ abandoned' = (heap \ abandoned) \ {m}
    BY <1>6
  <2>2. Once' /\ Apart' /\ Exact'
    BY <1>1, <1>2, <1>6, <2>1, DropOwner
  <2>3. ToAll'
    BY <1>2, <1>6, OwnerParts DEF ToAll, Fields
  <2> QED BY <2>2, <2>3, OwnerParts
<1> QED BY <1>4, <1>5, <1>6 DEF EndBroadcast

LEMMA ReceiveOwner ==
    ASSUME Shape, OneOwner, NEW h \in Tasks, Receive(h)
    PROVE  OneOwner' /\ Exists(created, Head(queue[h]))
<1> DEFINE m == Head(queue[h])  c == Call("handle", m)  X == Push(c, calls[h])
           q == Tail(queue[h])
<1>1. TypeOK /\ Known /\ Stacks
  BY DEF Shape
<1>2. /\ queue[h] # <<>> /\ queue' = [queue EXCEPT ![h] = q] /\ calls' = [calls EXCEPT ![h] = X]
      /\ UNCHANGED <<created, heap, port, halted, sends, arrived, abandoned>>
  BY DEF Receive, Enter
<1>3. C(h) \in Places /\ Q(h) \in Places /\ C(h) # Q(h)
  BY PlacesDiffer
<1>4. queue[h] \in Seq(Id) /\ Distinct(queue[h]) /\ Ran(queue[h]) = HeldIn(Q(h))
  BY <1>1, QueueHolds
<1>5. Distinct(q) /\ Ran(q) = HeldIn(Q(h)) \ {m} /\ m \in HeldIn(Q(h))
  BY <1>2, <1>4, DistinctTail
<1>6. m \in Id
  BY <1>2, <1>4
<1>7. calls[h] \in Seq(CallType) /\ Distinct(Ids(calls[h])) /\ Ran(Ids(calls[h])) = HeldIn(C(h))
  BY <1>1, CallsHold
<1>8. c \in CallType /\ c.msg = m
  BY <1>6 DEF Call, CallType, Id
<1> HIDE DEF m, c, q
<1>9. /\ Ran(Ids(X)) = HeldIn(C(h)) \cup {m}
      /\ m \notin HeldIn(C(h)) => Distinct(Ids(X))
  BY <1>7, <1>8, DistinctPush
<1> HIDE DEF X
<1>10. HeldIn(Q(h))' = HeldIn(Q(h)) \ {m} /\ Distinct(Held(Q(h)))'
  BY <1>1, <1>2, <1>5, QueueNext
<1>11. /\ HeldIn(C(h))' = HeldIn(C(h)) \cup {m}
       /\ m \notin HeldIn(C(h)) => Distinct(Held(C(h)))'
  BY <1>1, <1>2, <1>9, CallsNext
<1>12. \A r \in Places : r # C(h) /\ r # Q(h) => Distinct(Held(r))' /\ HeldIn(r)' = HeldIn(r)
  <2>1. \A x \in Tasks : x # h => queue'[x] = queue[x]
    BY <1>1, <1>2 DEF TypeOK
  <2> QED BY <1>1, <1>2, <2>1, Elsewhere
<1>13. Once' /\ Apart' /\ Exact'
  BY <1>2, <1>3, <1>5, <1>10, <1>11, <1>12, MoveStep
<1>14. ToAll'
  BY <1>1, <1>2, SameLater, ToAllLater
<1>15. Exists(created, m)
  BY <1>1, <1>3, <1>5, HeldExist
<1> QED BY <1>13, <1>14, <1>15, OwnerParts DEF m

LEMMA ReceiveExternalOwner ==
    ASSUME Shape, OneOwner, NEW h \in Tasks, ReceiveExternal(h)
    PROVE  OneOwner' /\ Exists(created, Head(port))
<1> DEFINE m == Head(port)  c == Call("transmit", m)  X == Push(c, calls[h])
<1>1. TypeOK /\ Known /\ Stacks
  BY DEF Shape
<1>2. /\ port # <<>> /\ port' = Tail(port) /\ calls' = [calls EXCEPT ![h] = X]
      /\ UNCHANGED <<created, heap, queue, halted, sends, arrived, abandoned>>
  BY DEF ReceiveExternal, Enter
<1>3. C(h) \in Places /\ ThePort \in Places /\ C(h) # ThePort
  BY PlacesDiffer
<1>4. port \in Seq(Id) /\ Distinct(port) /\ Ran(port) = HeldIn(ThePort)
  BY <1>1, QueueHolds
<1>5. Distinct(Tail(port)) /\ Ran(Tail(port)) = HeldIn(ThePort) \ {m} /\ m \in HeldIn(ThePort)
  BY <1>2, <1>4, DistinctTail
<1>6. m \in Id
  BY <1>2, <1>4
<1>7. calls[h] \in Seq(CallType) /\ Distinct(Ids(calls[h])) /\ Ran(Ids(calls[h])) = HeldIn(C(h))
  BY <1>1, CallsHold
<1>8. c \in CallType /\ c.msg = m
  BY <1>6 DEF Call, CallType, Id
<1> HIDE DEF m, c
<1>9. /\ Ran(Ids(X)) = HeldIn(C(h)) \cup {m}
      /\ m \notin HeldIn(C(h)) => Distinct(Ids(X))
  BY <1>7, <1>8, DistinctPush
<1> HIDE DEF X
<1>10. HeldIn(ThePort)' = HeldIn(ThePort) \ {m} /\ Distinct(Held(ThePort))'
  BY <1>2, <1>5, PortNext
<1>11. /\ HeldIn(C(h))' = HeldIn(C(h)) \cup {m}
       /\ m \notin HeldIn(C(h)) => Distinct(Held(C(h)))'
  BY <1>1, <1>2, <1>9, CallsNext
<1>12. \A r \in Places : r # C(h) /\ r # ThePort => Distinct(Held(r))' /\ HeldIn(r)' = HeldIn(r)
  BY <1>1, <1>2, Elsewhere
<1>13. Once' /\ Apart' /\ Exact'
  BY <1>2, <1>3, <1>5, <1>10, <1>11, <1>12, MoveStep
<1>14. ToAll'
  BY <1>1, <1>2, SameLater, ToAllLater
<1>15. Exists(created, m)
  BY <1>1, <1>3, <1>5, HeldExist
<1> QED BY <1>13, <1>14, <1>15, OwnerParts DEF m

-----------------------------------------------------------------------------
(* What reaches the other segment, and how deep calls nest.                *)

\* If x is for everyone, all its subscribers got it.
Reached(x, cr, ar) ==
    Of(cr, x).to = Everyone => \A g \in Tasks : Of(cr, x).type \in Subs[g] => x \in ar[g]

LEMMA ReachedInPort ==
    /\ GsAfterAll <=> \A x \in Ran(port) : Reached(x, created, arrived)
    /\ GsAfterAll' <=> \A x \in Ran(port') : Reached(x, created', arrived')
BY DEF GsAfterAll, Ran, Reached, Fields, Of

LEMMA PortExists ==
    ASSUME Shape, OneOwner, NEW x \in Ran(port)
    PROVE  x \in Id /\ Exists(created, x)
<1>1. ThePort \in Places /\ Ran(port) = HeldIn(ThePort)
  BY PlacesDiffer, Constants, QueueHolds DEF Shape
<1> QED BY <1>1, HeldExist DEF Shape, Exists

LEMMA ReachedStep ==
    ASSUME Shape, OneOwner, GsAfterAll, Later(created, arrived, created', arrived'),
           \A x \in Ran(port') : \/ x \in Ran(port)
                                 \/ Exists(created, x) /\ Reached(x, created, arrived)
    PROVE  GsAfterAll'
<1>1. ASSUME NEW x \in Ran(port')
      PROVE  Reached(x, created', arrived')
  <2>1. Exists(created, x) /\ x \in Id /\ Reached(x, created, arrived)
    BY ReachedInPort, PortExists DEF Exists
  <2>2. Of(created', x) = Of(created, x) /\ \A g \in Tasks : arrived[g] \subseteq arrived'[g]
    BY <2>1 DEF Later
  <2> QED BY <2>1, <2>2 DEF Reached
<1> QED BY <1>1, ReachedInPort

\* Every step creates and delivers messages, and takes nothing back.
Creates  == created' = created \/ \E h \in Tasks, f \in MessageType : Make(h, f)
Delivers == arrived' = arrived \/ \E g \in Tasks, of \in Id : arrived' = [arrived EXCEPT ![g] = @ \cup {of}]

LEMMA StepLater ==
    ASSUME TypeOK, TypeOK', Creates, Delivers
    PROVE  Later(created, arrived, created', arrived')
<1>1. arrived' \in Arrivals /\ arrived \in Arrivals /\ created' \in Messages
  BY DEF TypeOK, Arrivals, Messages, Id
<1>2. \A g \in Tasks : arrived[g] \subseteq arrived'[g]
  BY <1>1 DEF Arrivals, Delivers
<1>3. CASE created' = created
  BY <1>1, <1>2, <1>3 DEF Later
<1>4. CASE \E h \in Tasks, f \in MessageType : Make(h, f)
  BY <1>1, <1>2, <1>4, MakeLater
<1> QED BY <1>3, <1>4 DEF Creates

IInv == Shape /\ OneOwner /\ GsAfterAll /\ OverflowOnlyByLogs

\* A step after which the port queue holds no more, or a message that has reached all.
PortReached ==
    \A x \in Ran(port') : x \in Ran(port) \/ (Exists(created, x) /\ Reached(x, created, arrived))

LEMMA Together ==
    ASSUME IInv, Shape', OneOwner', ~halted, halted' = halted, Creates, Delivers, PortReached
    PROVE  IInv'
<1>1. Later(created, arrived, created', arrived')
  BY StepLater DEF IInv, Shape
<1>2. GsAfterAll'
  BY <1>1, ReachedStep DEF IInv, PortReached
<1>3. OverflowOnlyByLogs'
  BY DEF OverflowOnlyByLogs
<1> QED BY <1>2, <1>3 DEF IInv

LEMMA SendInv ==
    ASSUME IInv, NEW h \in Tasks, NEW s \in Occasions \cup Replies, Send(h, s),
           Len(calls[h]) <= 2
    PROVE  IInv'
<1>1. Shape' /\ OneOwner'
  BY SendShape, SendOwner DEF IInv
<1>2. /\ Make(h, Message(s.type, s.to, New(h))) /\ arrived' = arrived /\ port' = port
      /\ ~halted /\ halted' = halted
  BY DEF Send
<1>3. New(h) \in Id
  BY DEF IInv, Shape, TypeOK, New, Id
<1>4. Message(s.type, s.to, New(h)) \in MessageType
  BY <1>3, MeshAssumption DEF Message, MessageType, Id
<1>5. Creates /\ Delivers /\ PortReached
  BY <1>2, <1>4 DEF Creates, Delivers, PortReached
<1> QED BY <1>1, <1>2, <1>5, Together

LEMMA SendInternalInv ==
    ASSUME IInv, NEW h \in Tasks, SendInternal(h)
    PROVE  IInv'
<1>1. Shape' /\ OneOwner'
  BY SendInternalShape, SendInternalOwner DEF IInv
<1>2. ~halted /\ calls[h] # <<>> /\ Head(calls[h]).op = "send"
      /\ UNCHANGED <<created, port, halted>>
  BY DEF SendInternal, Does
<1>3. /\ Fields(Handled(h)).of \in Id /\ Fields(Handled(h)).to \in Tasks
  <2>1. /\ Fine(Head(calls[h]), Len(calls[h]), created, arrived)
        /\ Fields(Handled(h)).of \in Id /\ Fields(Handled(h)) = Of(created, Handled(h))
    BY <1>2, TopCall DEF IInv, Shape
  <2> QED BY <2>1, <1>2 DEF Fine, Handled
<1>4. Creates /\ PortReached
  BY <1>2 DEF Creates, PortReached
<1>5. Delivers
  BY <1>3 DEF SendInternal, Put, Delivers
<1> QED BY <1>1, <1>2, <1>4, <1>5, Together

LEMMA SendExternalInv ==
    ASSUME IInv, NEW h \in Tasks, SendExternal(h)
    PROVE  IInv'
<1> DEFINE m == Handled(h)
<1>1. Shape' /\ OneOwner'
  BY SendExternalShape, SendExternalOwner DEF IInv
<1>2. ~halted /\ calls[h] # <<>> /\ Head(calls[h]).op = "external"
      /\ UNCHANGED <<created, arrived, halted>>
  BY DEF SendExternal, Does
<1>3. Fine(Head(calls[h]), Len(calls[h]), created, arrived) /\ m \in Id /\ Exists(created, m)
  BY <1>2, TopCall DEF IInv, Shape
<1>4. Reached(m, created, arrived)
  BY <1>2, <1>3 DEF Fine, Handled, Reached
<1>5. port' = port \/ port' = Append(port, m)
  BY DEF SendExternal
<1>6. port \in Seq(Id)
  BY DEF IInv, Shape, TypeOK, Id
<1>7. Ran(port') \subseteq Ran(port) \cup {m}
  <2>1. CASE port' = port
    BY <2>1
  <2>2. CASE port' = Append(port, m)
    BY <2>2, <1>3, <1>6, DistinctAppend
  <2> QED BY <2>1, <2>2, <1>5
<1> HIDE DEF m
<1>8. \A x \in Ran(port') : x \in Ran(port) \/ x = m
  BY <1>7
<1>9. Exists(created, m)
  BY <1>3
<1>10. Creates /\ Delivers /\ PortReached
  BY <1>2, <1>4, <1>8, <1>9 DEF Creates, Delivers, PortReached
<1> QED BY <1>1, <1>2, <1>10, Together

LEMMA ReportInv ==
    ASSUME IInv, NEW h \in Tasks, Report(h)
    PROVE  IInv'
<1>1. Shape' /\ OneOwner'
  BY ReportShape, ReportOwner DEF IInv
<1>2. /\ ~halted /\ calls[h] # <<>> /\ Head(calls[h]).op = "report"
      /\ UNCHANGED <<queue, port, sends, arrived, abandoned>>
  BY DEF Report, Does
<1>3. CASE Make(h, Message(Text, AppLog, New(h))) /\ UNCHANGED halted
  <2>1. New(h) \in Id
    BY DEF IInv, Shape, TypeOK, New, Id
  <2>2. Message(Text, AppLog, New(h)) \in MessageType
    BY <2>1, Constants DEF Message, MessageType, Id, Address
  <2>3. Creates /\ Delivers /\ PortReached
    BY <1>2, <1>3, <2>2 DEF Creates, Delivers, PortReached
  <2> QED BY <1>1, <1>2, <1>3, <2>3, Together
<1>4. CASE Len(calls[h]) = StackDepth /\ UNCHANGED <<created, heap, calls>>
  <2>1. /\ Fine(Head(calls[h]), Len(calls[h]), created, arrived)
        /\ Fields(Handled(h)) = Of(created, Handled(h))
    BY <1>2, TopCall DEF IInv, Shape
  <2>2. ~(Len(calls[h]) <= 4)
    BY <1>4, Constants
  <2>3. Fields(Handled(h)).to = AppLog
    BY <1>2, <2>1, <2>2 DEF Fine, Handled
  <2>4. OverflowOnlyByLogs'
    BY <1>4, <2>3 DEF OverflowOnlyByLogs, Handled, Fields
  <2>5. GsAfterAll'
    BY <1>2, <1>4 DEF IInv, GsAfterAll, Fields
  <2> QED BY <1>1, <2>4, <2>5 DEF IInv
<1> QED BY <1>3, <1>4 DEF Report

\* Delete, and the end of a callback.
LEMMA FreeInv ==
    ASSUME IInv, NEW h \in Tasks, calls[h] # <<>>, ~halted, Free(Handled(h)), Return(h),
           UNCHANGED <<created, queue, port, halted, sends, arrived, abandoned>>
    PROVE  IInv'
<1>1. Shape' /\ OneOwner'
  BY FreeShape, FreeOwner DEF IInv
<1>2. Creates /\ Delivers /\ PortReached
  BY DEF Creates, Delivers, PortReached
<1> QED BY <1>1, <1>2, Together

LEMMA SendCloneInv ==
    ASSUME IInv, NEW h \in Tasks, SendClone(h)
    PROVE  IInv'
<1>1. Shape' /\ OneOwner'
  BY SendCloneShape, SendCloneOwner DEF IInv
<1>2. /\ ~halted /\ calls[h] # <<>> /\ UNCHANGED <<port, halted, sends, abandoned>>
      /\ Make(h, Fields(Handled(h)))
  BY DEF SendClone, Does
<1>3. Fields(Handled(h)) \in MessageType /\ Fields(Handled(h)).of \in Id
  BY <1>2, TopCall DEF IInv, Shape
<1>4. Creates /\ PortReached
  BY <1>2, <1>3 DEF Creates, PortReached
<1>5. Delivers
  BY <1>3, RestIndex DEF SendClone, Put, Delivers
<1> QED BY <1>1, <1>2, <1>4, <1>5, Together

LEMMA EndBroadcastInv ==
    ASSUME IInv, NEW h \in Tasks, EndBroadcast(h)
    PROVE  IInv'
<1>1. Shape' /\ OneOwner'
  BY EndBroadcastShape, EndBroadcastOwner DEF IInv
<1>2. ~halted /\ UNCHANGED <<created, port, halted, arrived>>
  BY DEF EndBroadcast, Does
<1>3. Creates /\ Delivers /\ PortReached
  BY <1>2 DEF Creates, Delivers, PortReached
<1> QED BY <1>1, <1>2, <1>3, Together

LEMMA ReceiveInv ==
    ASSUME IInv, NEW h \in Tasks, Receive(h)
    PROVE  IInv'
<1>1. OneOwner' /\ Exists(created, Head(queue[h]))
  BY ReceiveOwner DEF IInv
<1>2. Shape'
  BY <1>1, ReceiveShape DEF IInv
<1>3. ~halted /\ UNCHANGED <<created, port, halted, arrived>>
  BY DEF Receive, Listens
<1>4. Creates /\ Delivers /\ PortReached
  BY <1>3 DEF Creates, Delivers, PortReached
<1> QED BY <1>1, <1>2, <1>3, <1>4, Together

LEMMA ReceiveExternalInv ==
    ASSUME IInv, NEW h \in Tasks, ReceiveExternal(h)
    PROVE  IInv'
<1>1. OneOwner' /\ Exists(created, Head(port))
  BY ReceiveExternalOwner DEF IInv
<1>2. Shape'
  BY <1>1, ReceiveExternalShape DEF IInv
<1>3. ~halted /\ port # <<>> /\ port' = Tail(port) /\ UNCHANGED <<created, halted, arrived>>
  BY DEF ReceiveExternal
<1>4. port \in Seq(Id) /\ Distinct(port)
  BY QueueHolds, Constants DEF IInv, Shape
<1>5. Ran(port') \subseteq Ran(port)
  BY <1>3, <1>4, DistinctTail
<1>6. Creates /\ Delivers /\ PortReached
  BY <1>3, <1>5 DEF Creates, Delivers, PortReached
<1> QED BY <1>1, <1>2, <1>3, <1>6, Together

-----------------------------------------------------------------------------
(* The invariant.                                                          *)

LEMMA InitInv == Init => IInv
<1> SUFFICES ASSUME Init PROVE IInv
  OBVIOUS
<1>1. TypeOK
  <2>1. created \in [Tasks -> Seq(MessageType)] /\ queue \in [Tasks -> Seq(Tasks \X Nat)]
    BY DEF Init
  <2>2. port \in Seq(Tasks \X Nat) /\ calls \in [Tasks -> Seq(CallType)]
    BY DEF Init
  <2>3. \A h \in Tasks : Len(queue[h]) <= QueueLength /\ Len(calls[h]) <= StackDepth
    BY Constants DEF Init
  <2>4. Len(port) <= QueueLength /\ sends \in 0 .. MaxSends
    BY Constants DEF Init
  <2> QED BY <2>1, <2>2, <2>3, <2>4 DEF Init, TypeOK
<1>2. Known
  BY DEF Init, Known
<1>3. Stacks
  BY Constants DEF Init, Stacks, AllFine
<1>4. \A p \in Places : Held(p) = <<>> /\ HeldIn(p) = {}
  <2>1. \A g \in Tasks : Ids(calls[g]) = <<>> /\ queue[g] = <<>>
    BY DEF Init, Ids
  <2>2. \A p \in Places : Held(p) = <<>>
    BY <2>1, PlaceCases, HeldAt, Constants DEF Init
  <2> QED BY <2>2 DEF HeldIn
<1>5. OneOwner
  <2>1. Once
    BY <1>4 DEF Once, Distinct
  <2>2. Apart /\ Exact /\ ToAll
    BY <1>4 DEF Init, Apart, Exact, ToAll
  <2> QED BY <2>1, <2>2, OwnerParts
<1>6. GsAfterAll /\ OverflowOnlyByLogs
  BY DEF Init, GsAfterAll, OverflowOnlyByLogs
<1> QED BY <1>1, <1>2, <1>3, <1>5, <1>6 DEF IInv, Shape

LEMMA NextInv == IInv /\ [Next]_vars => IInv'
<1> SUFFICES ASSUME IInv, [Next]_vars PROVE IInv'
  OBVIOUS
<1>1. CASE UNCHANGED vars
  <2>1. UNCHANGED <<created, heap, queue, port, calls, halted, sends, arrived, abandoned>>
    BY <1>1 DEF vars
  <2>2. TypeOK' /\ Known' /\ Stacks'
    BY <2>1 DEF IInv, Shape, TypeOK, Known, Stacks
  <2>3. OneOwner'
    BY <2>1, UnchangedOwner DEF IInv, Shape
  <2>4. GsAfterAll' /\ OverflowOnlyByLogs'
    BY <2>1 DEF IInv, GsAfterAll, OverflowOnlyByLogs, Fields, Handled
  <2> QED BY <2>2, <2>3, <2>4 DEF IInv, Shape
<1>2. ASSUME NEW h \in Tasks, Work(h) \/ TaskSends(h)
      PROVE  IInv'
  <2>1. CASE TaskSends(h)
    <3>1. Len(calls[h]) <= 2 /\ \E s \in Occasions \cup Replies : Send(h, s)
      BY <2>1 DEF TaskSends
    <3> QED BY <3>1, SendInv
  <2>2. CASE CallbackSends(h)
    <3>1. Len(calls[h]) <= 2 /\ \E s \in Occasions \cup Replies : Send(h, s)
      BY <2>2, CallbackDepth DEF CallbackSends, IInv
    <3> QED BY <3>1, SendInv
  <2>3. CASE SendInternal(h)
    BY <2>3, SendInternalInv
  <2>4. CASE SendExternal(h)
    BY <2>4, SendExternalInv
  <2>5. CASE Report(h)
    BY <2>5, ReportInv
  <2>6. CASE Delete(h)
    BY <2>6, FreeInv DEF Delete, Does
  <2>7. CASE SendClone(h)
    BY <2>7, SendCloneInv
  <2>8. CASE EndBroadcast(h)
    BY <2>8, EndBroadcastInv
  <2>9. CASE Receive(h)
    BY <2>9, ReceiveInv
  <2>10. CASE ReceiveExternal(h)
    BY <2>10, ReceiveExternalInv
  <2>11. CASE CallbackEnds(h)
    BY <2>11, FreeInv DEF CallbackEnds, Does
  <2> QED BY <1>2, <2>1, <2>2, <2>3, <2>4, <2>5, <2>6, <2>7, <2>8, <2>9, <2>10, <2>11 DEF Work
<1> QED BY <1>1, <1>2 DEF Next

LEMMA Invariance == Spec => []IInv
BY InitInv, NextInv, PTL DEF Spec

\* Messages, queues and stacks keep their shape, whatever the tasks send and however
\* they interrupt each other.
THEOREM TypeCorrect == Spec => []TypeOK
<1>1. IInv => TypeOK
  BY DEF IInv, Shape
<1> QED BY <1>1, Invariance, PTL

\* Every message in memory is held once, and no one holds a message that is freed.
THEOREM OneOwnerHolds == Spec => []OneOwner
<1>1. IInv => OneOwner
  BY DEF IInv
<1> QED BY <1>1, Invariance, PTL

\* A global broadcast crosses the link only after all subscribers here got it.
THEOREM GsAfterAllHolds == Spec => []GsAfterAll
<1>1. IInv => GsAfterAll
  BY DEF IInv
<1> QED BY <1>1, Invariance, PTL

\* With room for five calls, only log entries about lost log entries overflow a stack.
THEOREM OverflowOnlyByLogsHolds == Spec => []OverflowOnlyByLogs
<1>1. IInv => OverflowOnlyByLogs
  BY DEF IInv
<1> QED BY <1>1, Invariance, PTL

=============================================================================
