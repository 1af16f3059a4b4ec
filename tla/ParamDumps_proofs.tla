------------------------- MODULE ParamDumps_proofs -------------------------
(***************************************************************************)
(* What a dump of the parameters brings together: the tree that a save     *)
(* leaves in the memory and the one a get brings to the ground station,    *)
(* for all handlers, trees and values.                                     *)
(***************************************************************************)
EXTENDS ParamMaster_proofs

-----------------------------------------------------------------------------
(* Gets and saves in a queue.                                              *)

\* The messages of a kind in a queue.
OfKind(q, c) == {q[i] : i \in {j \in DOMAIN q : q[j].control = c}}

\* Message i is part of a dump; there is one; the only one; the last message.
IsDump(q, i) == i \in DOMAIN q /\ q[i].control # "set"
HasDump(q)   == \E i \in DOMAIN q : IsDump(q, i)
OneDump(q)   == \A i, j \in DOMAIN q : IsDump(q, i) /\ IsDump(q, j) => i = j
DumpAtEnd(q) == \A i \in DOMAIN q : IsDump(q, i) => i = Len(q)

LEMMA KindHolds ==
    ASSUME NEW q, NEW c
    PROVE  Holds(q, c) <=> OfKind(q, c) # {}
BY DEF Holds, OfKind

LEMMA HoldsDump ==
    ASSUME NEW q, NEW c, c # "set", Holds(q, c)
    PROVE  HasDump(q)
BY DEF Holds, HasDump, IsDump

LEMMA EmptyKind == ~HasDump(<<>>) /\ \A c : OfKind(<<>>, c) = {} /\ OneDump(<<>>) /\ DumpAtEnd(<<>>)
BY DEF HasDump, OfKind, OneDump, DumpAtEnd

LEMMA NoDumpKind ==
    ASSUME NEW q, NEW c, c # "set", ~HasDump(q)
    PROVE  OfKind(q, c) = {} /\ ~Holds(q, c)
BY DEF HasDump, IsDump, OfKind, Holds

LEMMA AppendAt ==
    ASSUME NEW S, NEW q \in Seq(S), NEW m
    PROVE  /\ DOMAIN q = 1 .. Len(q) /\ Len(q) \in Nat
           /\ DOMAIN Append(q, m) = 1 .. Len(q) + 1 /\ Len(Append(q, m)) = Len(q) + 1
           /\ Append(q, m)[Len(q) + 1] = m
           /\ \A i \in 1 .. Len(q) : Append(q, m)[i] = q[i]
OBVIOUS

LEMMA TailAt ==
    ASSUME NEW S, NEW q \in Seq(S), q # <<>>
    PROVE  /\ DOMAIN q = 1 .. Len(q) /\ Len(q) \in Nat \ {0}
           /\ DOMAIN Tail(q) = 1 .. Len(q) - 1 /\ Len(Tail(q)) = Len(q) - 1
           /\ Head(q) = q[1]
           /\ \A i \in 1 .. Len(q) - 1 : Tail(q)[i] = q[i + 1]
OBVIOUS

LEMMA FrontAt ==
    ASSUME NEW S, NEW q \in Seq(S), q # <<>>
    PROVE  /\ DOMAIN q = 1 .. Len(q) /\ Len(q) \in Nat \ {0}
           /\ DOMAIN Front(q) = 1 .. Len(q) - 1
           /\ \A i \in 1 .. Len(q) - 1 : Front(q)[i] = q[i]
BY DEF Front

LEMMA AppendKind ==
    ASSUME NEW S, NEW q \in Seq(S), NEW m, NEW c
    PROVE  OfKind(Append(q, m), c) = OfKind(q, c) \cup (IF m.control = c THEN {m} ELSE {})
<1> DEFINE r == Append(q, m)
<1>1. /\ DOMAIN q = 1 .. Len(q) /\ Len(q) \in Nat /\ DOMAIN r = 1 .. Len(q) + 1
      /\ r[Len(q) + 1] = m
      /\ \A i \in 1 .. Len(q) : r[i] = q[i]
  BY AppendAt
<1> HIDE DEF r
<1>2. OfKind(r, c) = OfKind(q, c) \cup (IF m.control = c THEN {m} ELSE {})
  <2>1. ASSUME NEW x \in OfKind(r, c) PROVE x \in OfKind(q, c) \/ (x = m /\ m.control = c)
    <3>1. PICK i \in 1 .. Len(q) + 1 : x = r[i] /\ r[i].control = c
      BY <1>1 DEF OfKind
    <3>2. i \in 1 .. Len(q) \/ i = Len(q) + 1
      BY <1>1, <3>1
    <3> QED BY <1>1, <3>1, <3>2 DEF OfKind
  <2>2. ASSUME NEW x \in OfKind(q, c) PROVE x \in OfKind(r, c)
    <3>1. PICK i \in 1 .. Len(q) : x = q[i] /\ q[i].control = c
      BY <1>1 DEF OfKind
    <3>2. i \in 1 .. Len(q) + 1
      BY <1>1, <3>1
    <3> QED BY <1>1, <3>1, <3>2 DEF OfKind
  <2>3. m.control = c => m \in OfKind(r, c)
    <3>1. Len(q) + 1 \in 1 .. Len(q) + 1
      BY <1>1
    <3> QED BY <1>1, <3>1 DEF OfKind
  <2> QED BY <2>1, <2>2, <2>3
<1> QED BY <1>2 DEF r

\* A message that is no dump changes nothing; a dump may join a queue without one.
LEMMA AppendDump ==
    ASSUME NEW S, NEW q \in Seq(S), NEW m
    PROVE  /\ m.control = "set" => /\ HasDump(Append(q, m)) <=> HasDump(q)
                                   /\ OneDump(q) => OneDump(Append(q, m))
           /\ ~HasDump(q) => OneDump(Append(q, m)) /\ DumpAtEnd(Append(q, m))
<1> DEFINE r == Append(q, m)
<1>1. /\ DOMAIN q = 1 .. Len(q) /\ Len(q) \in Nat /\ DOMAIN r = 1 .. Len(q) + 1
      /\ r[Len(q) + 1] = m /\ Len(r) = Len(q) + 1
      /\ \A i \in 1 .. Len(q) : r[i] = q[i]
  BY AppendAt
<1> HIDE DEF r
<1>2. \A i \in 1 .. Len(q) + 1 : i \in 1 .. Len(q) \/ i = Len(q) + 1
  BY <1>1
<1>3. 1 .. Len(q) \subseteq 1 .. Len(q) + 1
  BY <1>1
<1>4. \A i \in 1 .. Len(q) : IsDump(r, i) <=> IsDump(q, i)
  BY <1>1, <1>3 DEF IsDump
<1>5. m.control = "set" => ~IsDump(r, Len(q) + 1)
  BY <1>1 DEF IsDump
<1>6. m.control = "set" => /\ HasDump(r) <=> HasDump(q)
                           /\ OneDump(q) => OneDump(r)
  BY <1>1, <1>2, <1>3, <1>4, <1>5 DEF HasDump, OneDump
<1>7. ~HasDump(q) => OneDump(r) /\ DumpAtEnd(r)
  BY <1>1, <1>2, <1>4 DEF HasDump, OneDump, DumpAtEnd
<1> QED BY <1>6, <1>7 DEF r

LEMMA TailDump ==
    ASSUME NEW S, NEW q \in Seq(S), q # <<>>
    PROVE  /\ OneDump(q) => OneDump(Tail(q))
           /\ DumpAtEnd(q) => DumpAtEnd(Tail(q))
           /\ HasDump(Tail(q)) => HasDump(q)
           /\ Head(q).control # "set" /\ (OneDump(q) \/ DumpAtEnd(q)) => ~HasDump(Tail(q))
           /\ DumpAtEnd(q) /\ Head(q).control # "set" => Tail(q) = <<>>
<1> DEFINE r == Tail(q)
<1>1. /\ DOMAIN q = 1 .. Len(q) /\ Len(q) \in Nat \ {0}
      /\ DOMAIN r = 1 .. Len(q) - 1 /\ Len(r) = Len(q) - 1
      /\ Head(q) = q[1]
      /\ \A i \in 1 .. Len(q) - 1 : r[i] = q[i + 1]
  BY TailAt
<1>a. r \in Seq(S)
  OBVIOUS
<1> HIDE DEF r
<1>2. \A i \in 1 .. Len(q) - 1 : i + 1 \in 1 .. Len(q) /\ i + 1 # 1
  BY <1>1
<1>3. \A i \in 1 .. Len(q) - 1 : IsDump(r, i) <=> IsDump(q, i + 1)
  BY <1>1, <1>2 DEF IsDump
<1>4. Head(q).control # "set" => IsDump(q, 1) /\ 1 \in 1 .. Len(q)
  BY <1>1 DEF IsDump
<1>5. OneDump(q) => OneDump(r)
  <2>1. ASSUME OneDump(q), NEW i \in 1 .. Len(q) - 1, NEW j \in 1 .. Len(q) - 1,
               IsDump(r, i), IsDump(r, j)
        PROVE  i = j
    <3>1. i + 1 = j + 1
      BY <1>1, <1>2, <1>3, <2>1 DEF OneDump
    <3> QED BY <1>1, <3>1
  <2> QED BY <1>1, <2>1 DEF OneDump
<1>6. DumpAtEnd(q) => DumpAtEnd(r)
  <2>1. ASSUME DumpAtEnd(q), NEW i \in 1 .. Len(q) - 1, IsDump(r, i)
        PROVE  i = Len(r)
    <3>1. i + 1 = Len(q)
      BY <1>1, <1>2, <1>3, <2>1 DEF DumpAtEnd
    <3>2. i \in Nat /\ Len(q) \in Nat /\ Len(r) = Len(q) - 1
      BY <1>1
    <3> QED BY <3>1, <3>2
  <2> QED BY <1>1, <2>1 DEF DumpAtEnd
<1>7. HasDump(r) => HasDump(q)
  BY <1>1, <1>2, <1>3 DEF HasDump
<1>8. Head(q).control # "set" /\ OneDump(q) => ~HasDump(r)
  BY <1>1, <1>2, <1>3, <1>4 DEF HasDump, OneDump
<1>9. DumpAtEnd(q) /\ Head(q).control # "set" => r = <<>>
  <2>1. DumpAtEnd(q) /\ Head(q).control # "set" => Len(q) = 1
    BY <1>1, <1>4 DEF DumpAtEnd
  <2> QED BY <1>1, <1>a, <2>1
<1> QED BY <1>5, <1>6, <1>7, <1>8, <1>9, EmptyKind DEF r

LEMMA TailKind ==
    ASSUME NEW S, NEW q \in Seq(S), q # <<>>, NEW c
    PROVE  OfKind(q, c) = OfKind(Tail(q), c) \cup (IF Head(q).control = c THEN {Head(q)} ELSE {})
<1> DEFINE r == Tail(q)
<1>1. /\ DOMAIN q = 1 .. Len(q) /\ Len(q) \in Nat \ {0}
      /\ DOMAIN r = 1 .. Len(q) - 1
      /\ Head(q) = q[1]
      /\ \A i \in 1 .. Len(q) - 1 : r[i] = q[i + 1]
  BY TailAt
<1> HIDE DEF r
<1>2. ASSUME NEW x \in OfKind(q, c) PROVE x \in OfKind(r, c) \/ (x = Head(q) /\ x.control = c)
  <2>1. PICK i \in 1 .. Len(q) : x = q[i] /\ q[i].control = c
    BY <1>1 DEF OfKind
  <2>2. CASE i = 1
    BY <1>1, <2>1, <2>2
  <2>3. CASE i # 1
    <3>1. i - 1 \in 1 .. Len(q) - 1 /\ (i - 1) + 1 = i
      BY <1>1, <2>3
    <3>2. r[i - 1] = q[i]
      BY <1>1, <3>1
    <3> QED BY <1>1, <2>1, <3>1, <3>2 DEF OfKind
  <2> QED BY <2>2, <2>3
<1>3. ASSUME NEW x \in OfKind(r, c) PROVE x \in OfKind(q, c)
  <2>1. PICK i \in 1 .. Len(q) - 1 : x = r[i] /\ r[i].control = c
    BY <1>1 DEF OfKind
  <2>2. i + 1 \in 1 .. Len(q) /\ r[i] = q[i + 1]
    BY <1>1
  <2> QED BY <1>1, <2>1, <2>2 DEF OfKind
<1>4. Head(q).control = c => Head(q) \in OfKind(q, c)
  <2>1. 1 \in 1 .. Len(q)
    BY <1>1
  <2> QED BY <1>1, <2>1 DEF OfKind
<1>5. OfKind(q, c) = OfKind(r, c) \cup (IF Head(q).control = c THEN {Head(q)} ELSE {})
  BY <1>2, <1>3, <1>4
<1> QED BY <1>5 DEF r

\* The last message is lost: a dump with nothing left of it, or no dump.
LEMMA FrontDump ==
    ASSUME NEW S, NEW q \in Seq(S), q # <<>>, NEW c
    PROVE  /\ OfKind(Front(q), c) \subseteq OfKind(q, c)
           /\ OneDump(q) => OneDump(Front(q))
           /\ HasDump(Front(q)) => HasDump(q)
           /\ DumpAtEnd(q) => ~HasDump(Front(q))
           /\ OneDump(q) /\ HasDump(Front(q)) /\ c # "set" => OfKind(Front(q), c) = OfKind(q, c)
           /\ ~HasDump(Front(q)) => DumpAtEnd(Front(q))
<1> DEFINE r == Front(q)
<1>1. /\ DOMAIN q = 1 .. Len(q) /\ Len(q) \in Nat \ {0}
      /\ DOMAIN r = 1 .. Len(q) - 1
      /\ \A i \in 1 .. Len(q) - 1 : r[i] = q[i]
  BY FrontAt
<1> HIDE DEF r
<1>2. \A i \in 1 .. Len(q) - 1 : i \in 1 .. Len(q) /\ i # Len(q)
  <2>1. Len(q) \in Nat
    BY <1>1
  <2> QED BY <2>1
<1>3. \A i \in 1 .. Len(q) - 1 : IsDump(r, i) <=> IsDump(q, i)
  BY <1>1, <1>2 DEF IsDump
<1>4. OfKind(r, c) \subseteq OfKind(q, c)
  BY <1>1, <1>2 DEF OfKind
<1>5. OneDump(q) => OneDump(r)
  BY <1>1, <1>2, <1>3 DEF OneDump
<1>6. HasDump(r) => HasDump(q)
  BY <1>1, <1>2, <1>3 DEF HasDump
<1>7. DumpAtEnd(q) => ~HasDump(r)
  BY <1>1, <1>2, <1>3 DEF HasDump, DumpAtEnd
<1>8. ASSUME OneDump(q), HasDump(r), c # "set", NEW x \in OfKind(q, c)
      PROVE  x \in OfKind(r, c)
  <2>1. PICK i \in 1 .. Len(q) : x = q[i] /\ q[i].control = c
    BY <1>1, <1>8 DEF OfKind
  <2>2. PICK j \in 1 .. Len(q) - 1 : IsDump(r, j)
    BY <1>1, <1>8 DEF HasDump
  <2>3. i = j
    BY <1>1, <1>2, <1>3, <1>8, <2>1, <2>2 DEF OneDump, IsDump
  <2> QED BY <1>1, <2>1, <2>2, <2>3 DEF OfKind
<1>9. ~HasDump(r) => DumpAtEnd(r)
  BY DEF HasDump, DumpAtEnd
<1> QED BY <1>4, <1>5, <1>6, <1>7, <1>8, <1>9 DEF r

-----------------------------------------------------------------------------
(* One dump at a time.                                                     *)

\* Who is asked for a piece of a dump, and the pieces on their way to the master.
Asked(c) == {h \in Handlers : Holds(box[h], c)}
Sent(c)  == OfKind(inbox, c)

\* Nothing of a dump is under way.
Idle == ~HasDump(inbox) /\ \A h \in Handlers : ~HasDump(box[h])

\* The master asks for a piece only when the last one is there; what it asks for
\* stays the last message of its queue; and all of that only while it is busy.
OneAtATime ==
    /\ OneDump(inbox)
    /\ \A h \in Handlers : DumpAtEnd(box[h])
    /\ \A g, h \in Handlers : HasDump(box[g]) /\ HasDump(box[h]) => g = h
    /\ \A h \in Handlers : HasDump(box[h]) => ~HasDump(inbox)
    /\ ~Idle => busy /\ ~load.on

LEMMA IdleOne == Idle => OneAtATime
BY DEF Idle, OneAtATime, HasDump, OneDump, DumpAtEnd

LEMMA IdleNone == Idle => \A c \in {"get", "save"} : Asked(c) = {} /\ Sent(c) = {}
<1> SUFFICES ASSUME Idle, NEW c \in {"get", "save"} PROVE Asked(c) = {} /\ Sent(c) = {}
  OBVIOUS
<1> QED BY NoDumpKind DEF Idle, Asked, Sent

LEMMA Queues ==
    ASSUME TypeOK
    PROVE  /\ inbox \in Seq(Answer) /\ box \in [Handlers -> Seq(ToHandler)]
           /\ \A h \in Handlers : box[h] \in Seq(ToHandler)
BY DEF TypeOK, QueuesOK

LEMMA UnderWayIdle == UnderWay("get") \/ UnderWay("save") => ~Idle
BY HoldsDump DEF UnderWay, Idle

LEMMA Controls ==
    ASSUME TypeOK, ~Idle
    PROVE  UnderWay("get") \/ UnderWay("save")
<1>1. \A m \in Answer \cup ToHandler : m.control \in {"set", "get", "save"}
  BY DEF Answer, ToHandler
<1>2. ASSUME NEW q \in Seq(Answer \cup ToHandler), HasDump(q)
      PROVE  Holds(q, "get") \/ Holds(q, "save")
  BY <1>1, <1>2 DEF HasDump, IsDump, Holds
<1>3. inbox \in Seq(Answer \cup ToHandler)
  BY Queues
<1>4. \A h \in Handlers : box[h] \in Seq(ToHandler)
  BY Queues
<1>5. \A q : q \in Seq(ToHandler) => q \in Seq(Answer \cup ToHandler)
  OBVIOUS
<1> QED BY <1>2, <1>3, <1>4, <1>5 DEF Idle, UnderWay

\* Sets that are added or taken leave no dump where there was none.
LEMMA SetsOnly ==
    ASSUME TypeOK, Idle, UNCHANGED inbox,
           \A h \in Handlers : \/ box'[h] = box[h]
                               \/ \E m : m.control = "set" /\ box'[h] = Append(box[h], m)
    PROVE  Idle'
<1>1. ASSUME NEW h \in Handlers PROVE ~HasDump(box'[h])
  <2>1. ~HasDump(box[h]) /\ box[h] \in Seq(ToHandler)
    BY Queues DEF Idle
  <2>2. \A m : m.control = "set" => ~HasDump(Append(box[h], m))
    BY <2>1, AppendDump
  <2> QED BY <2>1, <2>2
<1> QED BY <1>1 DEF Idle

\* The master asks, when the inbox holds no dump and no handler is asked.
LEMMA AskOne ==
    ASSUME TypeOK, ~HasDump(inbox'), \A h \in Handlers : ~HasDump(box[h]),
           NEW h \in Handlers, NEW c \in {"get", "save"}, Ask(h, c), busy', ~load'.on
    PROVE  /\ OneAtATime'
           /\ Asked(c)' = {h} /\ Sent(c)' = {}
           /\ \A d \in {"get", "save"} \ {c} : Asked(d)' = {} /\ Sent(d)' = {}
           /\ \A g \in Handlers : Holds(box'[g], "set") => Holds(box[g], "set")
<1> DEFINE m == Request(c)
<1>1. m.control = c
  BY DEF Request
<1>2. box' = [box EXCEPT ![h] = Append(@, m)]
  BY DEF Ask
<1> HIDE DEF m
<1>3. box'[h] = Append(box[h], m) /\ \A g \in Handlers \ {h} : box'[g] = box[g]
  BY <1>2, Queues
<1>4. DumpAtEnd(box'[h])
  <2>1. box[h] \in Seq(ToHandler) /\ ~HasDump(box[h])
    BY Queues
  <2> QED BY <1>3, <2>1, AppendDump
<1>5. \A g \in Handlers \ {h} : ~HasDump(box'[g]) /\ DumpAtEnd(box'[g])
  BY <1>3 DEF HasDump, DumpAtEnd
<1>6. OneDump(inbox')
  BY DEF HasDump, OneDump
<1>7. OneAtATime'
  BY <1>4, <1>5, <1>6 DEF OneAtATime
<1>8. \A d \in {"get", "save"} : Sent(d)' = {}
  BY NoDumpKind DEF Sent
<1>9. \A g \in Handlers, d \in {"get", "save"} : ~Holds(box[g], d)
  BY NoDumpKind
<1>10. \A d, g : g \in Handlers => (Holds(box'[g], d) <=> Holds(box[g], d) \/ (g = h /\ c = d))
  BY <1>1, <1>2, BoxGrows
<1>11. \A d \in {"get", "save"} : Asked(d)' = IF d = c THEN {h} ELSE {}
  BY <1>9, <1>10 DEF Asked
<1> QED BY <1>7, <1>8, <1>10, <1>11

\* The master takes a piece: nothing of the dump is left.
LEMMA TakeOne ==
    ASSUME TypeOK, OneAtATime, NEW c \in {"get", "save"}, Answered(c)
    PROVE  /\ ~HasDump(inbox') /\ \A h \in Handlers : ~HasDump(box[h])
           /\ Sent(c) = {Head(inbox)} /\ Asked(c) = {} /\ Head(inbox) \in Answer
           /\ \A d \in {"get", "save"} \ {c} : Asked(d) = {} /\ Sent(d) = {}
           /\ busy /\ ~load.on
<1>0. inbox \in Seq(Answer) /\ inbox # <<>> /\ Head(inbox).control = c /\ inbox' = Tail(inbox)
  BY Queues DEF Answered, Awaits
<1>1. ~HasDump(inbox')
  BY <1>0, TailDump DEF OneAtATime
<1>2. HasDump(inbox)
  BY <1>0, HeadHolds, HoldsDump DEF Awaits
<1>3. \A h \in Handlers : ~HasDump(box[h])
  BY <1>2 DEF OneAtATime
<1>4. \A d \in {"get", "save"} : Asked(d) = {}
  BY <1>3, NoDumpKind DEF Asked
<1>5. \A d \in {"get", "save"} : OfKind(Tail(inbox), d) = {}
  BY <1>0, <1>1, NoDumpKind
<1>6. \A d \in {"get", "save"} : Sent(d) = IF d = c THEN {Head(inbox)} ELSE {}
  BY <1>0, <1>5, TailKind DEF Sent
<1>7. busy /\ ~load.on
  BY <1>2 DEF OneAtATime, Idle
<1> QED BY <1>0, <1>1, <1>3, <1>4, <1>6, <1>7, TailType

\* A handler dumps a piece.
LEMMA DumpOne ==
    ASSUME TypeOK, OneAtATime, NEW h \in Handlers, NEW c \in {"get", "save"}, NEW at,
           PhDump(h, c, at)
    PROVE  /\ OneAtATime'
           /\ Asked(c) = {h} /\ Sent(c) = {} /\ Asked(c)' = {}
           /\ Sent(c)' = {Dump(c, PieceAt(h, at), value[PieceAt(h, at)], at[h] + 1 = Pieces[h])}
           /\ \A d \in {"get", "save"} \ {c} :
                 Asked(d) = {} /\ Sent(d) = {} /\ Asked(d)' = {} /\ Sent(d)' = {}
           /\ box'[h] = <<>> /\ \A g \in Handlers \ {h} : box'[g] = box[g]
<1> DEFINE m == Dump(c, PieceAt(h, at), value[PieceAt(h, at)], at[h] + 1 = Pieces[h])
<1>1. m.control = c
  BY DEF Dump
<1>2. /\ box' = [box EXCEPT ![h] = Tail(@)] /\ inbox' = Append(inbox, m)
      /\ busy' = busy /\ load' = load
  BY DEF PhDump, HandlerUnchanged, masterVars, loadVars
<1> HIDE DEF m
<1>3. /\ inbox \in Seq(Answer) /\ box[h] \in Seq(ToHandler)
      /\ box[h] # <<>> /\ Head(box[h]).control = c
  BY Queues DEF PhDump, Awaits
<1>4. Holds(box[h], c) /\ HasDump(box[h])
  <2>1. Holds(box[h], c)
    BY <1>3, HeadHolds DEF Awaits
  <2> QED BY <2>1, HoldsDump
<1>5. ~HasDump(inbox) /\ \A g \in Handlers \ {h} : ~HasDump(box[g])
  BY <1>4 DEF OneAtATime
<1>6. box'[h] = <<>> /\ \A g \in Handlers \ {h} : box'[g] = box[g]
  <2>1. Tail(box[h]) = <<>>
    BY <1>3, TailDump DEF OneAtATime
  <2> QED BY <1>2, <2>1, Queues
<1>7. \A g \in Handlers : ~HasDump(box'[g]) /\ DumpAtEnd(box'[g])
  BY <1>5, <1>6, EmptyKind DEF HasDump, DumpAtEnd
<1>8. OneDump(inbox')
  BY <1>2, <1>3, <1>5, AppendDump
<1>9. OneAtATime'
  <2>1. busy /\ ~load.on
    BY <1>4 DEF OneAtATime, Idle
  <2> QED BY <1>2, <1>7, <1>8, <2>1 DEF OneAtATime
<1>10. \A d \in {"get", "save"} : Sent(d) = {} /\ Sent(d)' = IF d = c THEN {m} ELSE {}
  <2>1. \A d \in {"get", "save"} : OfKind(inbox, d) = {}
    BY <1>5, NoDumpKind
  <2>2. \A d : OfKind(Append(inbox, m), d) = OfKind(inbox, d) \cup (IF m.control = d THEN {m} ELSE {})
    BY <1>3, AppendKind
  <2> QED BY <1>1, <1>2, <2>1, <2>2 DEF Sent
<1>11. \A d \in {"get", "save"} : Asked(d)' = {} /\ Asked(d) = IF d = c THEN {h} ELSE {}
  <2>1. \A g \in Handlers, d \in {"get", "save"} : ~Holds(box'[g], d)
    BY <1>7, NoDumpKind
  <2>2. \A g \in Handlers \ {h}, d \in {"get", "save"} : ~Holds(box[g], d)
    BY <1>5, NoDumpKind
  <2>3. \A d \in {"get", "save"} \ {c} : ~Holds(box[h], d)
    <3>1. \A d : Holds(box[h], d) <=> Holds(Tail(box[h]), d) \/ c = d
      BY <1>3, TailHolds
    <3>2. Tail(box[h]) = box'[h]
      BY <1>2, Queues
    <3> QED BY <2>1, <3>1, <3>2
  <2> QED BY <1>4, <2>1, <2>2, <2>3 DEF Asked
<1> QED BY <1>6, <1>9, <1>10, <1>11 DEF m

\* A handler that takes a set leaves the dumps alone.
LEMMA SetOne ==
    ASSUME TypeOK, OneAtATime, NEW h \in Handlers, PhSet(h)
    PROVE  /\ OneAtATime'
           /\ \A d \in {"get", "save"} : Asked(d)' = Asked(d) /\ Sent(d)' = Sent(d)
           /\ \A g \in Handlers : Holds(box'[g], "set") => Holds(box[g], "set")
           /\ Holds(box[h], "set")
           /\ Idle => Idle'
<1>1. /\ box' = [box EXCEPT ![h] = Tail(@)] /\ inbox' = Append(inbox, Request("set"))
      /\ busy' = busy /\ load' = load
  BY DEF PhSet, HandlerUnchanged, masterVars, loadVars
<1>2. /\ inbox \in Seq(Answer) /\ box[h] \in Seq(ToHandler)
      /\ box[h] # <<>> /\ Head(box[h]).control = "set" /\ Request("set").control = "set"
  BY Queues DEF PhSet, Awaits, Request
<1>3. box'[h] = Tail(box[h]) /\ \A g \in Handlers \ {h} : box'[g] = box[g]
  BY <1>1, Queues
<1>4. DumpAtEnd(box'[h]) /\ (HasDump(box'[h]) => HasDump(box[h]))
  BY <1>2, <1>3, TailDump DEF OneAtATime
<1>5. OneDump(inbox') /\ (HasDump(inbox') <=> HasDump(inbox))
  BY <1>1, <1>2, AppendDump DEF OneAtATime
<1>6. \A g \in Handlers : DumpAtEnd(box'[g]) /\ (HasDump(box'[g]) => HasDump(box[g]))
  BY <1>3, <1>4 DEF OneAtATime
<1>7. OneAtATime'
  BY <1>1, <1>5, <1>6 DEF OneAtATime, Idle
<1>8. \A d : OfKind(Append(inbox, Request("set")), d) =
                OfKind(inbox, d) \cup (IF "set" = d THEN {Request("set")} ELSE {})
  BY <1>2, AppendKind
<1>9. \A d, g : g \in Handlers => (Holds(box[g], d) <=> Holds(box'[g], d) \/ (g = h /\ "set" = d))
  BY <1>1, <1>2, BoxShrinks
<1>10. Idle => Idle'
  BY <1>5, <1>6 DEF Idle
<1> QED BY <1>1, <1>7, <1>8, <1>9, <1>10 DEF Sent, Asked

\* What is lost is no part of a dump, or all that was left of one.
LEMMA LoseOne ==
    ASSUME TypeOK, OneAtATime, Lose
    PROVE  /\ OneAtATime'
           /\ Idle' \/ \A d \in {"get", "save"} : Asked(d)' = Asked(d) /\ Sent(d)' = Sent(d)
           /\ \A g \in Handlers : Holds(box'[g], "set") => Holds(box[g], "set")
           /\ Idle => Idle'
<1>0. busy' = busy /\ load' = load
  BY DEF Lose, masterVars, loadVars
<1>1. CASE UNCHANGED <<box, inbox>>
  BY <1>0, <1>1 DEF OneAtATime, Idle, Asked, Sent
<1>2. CASE inbox # <<>> /\ inbox' = Front(inbox) /\ UNCHANGED box
  <2>1. inbox \in Seq(Answer)
    BY Queues
  <2>2. OneDump(inbox') /\ (HasDump(inbox') => HasDump(inbox))
    BY <1>2, <2>1, FrontDump DEF OneAtATime
  <2>3. OneAtATime'
    BY <1>0, <1>2, <2>2 DEF OneAtATime, Idle
  <2>4. Idle => Idle'
    BY <1>2, <2>2 DEF Idle
  <2>5. CASE ~HasDump(inbox) \/ HasDump(inbox')
    <3>1. \A d \in {"get", "save"} : HasDump(inbox') => OfKind(inbox', d) = OfKind(inbox, d)
      BY <1>2, <2>1, FrontDump DEF OneAtATime
    <3>2. \A d \in {"get", "save"} : ~HasDump(inbox) => OfKind(inbox', d) = OfKind(inbox, d)
      BY <2>2, NoDumpKind
    <3> QED BY <1>2, <2>3, <2>4, <2>5, <3>1, <3>2 DEF Asked, Sent
  <2>6. CASE HasDump(inbox) /\ ~HasDump(inbox')
    <3>1. \A h \in Handlers : ~HasDump(box[h])
      BY <2>6 DEF OneAtATime
    <3> QED BY <1>2, <2>3, <2>4, <2>6, <3>1 DEF Idle
  <2> QED BY <2>5, <2>6
<1>3. ASSUME NEW h \in Handlers, box[h] # <<>>, box' = [box EXCEPT ![h] = Front(@)],
             UNCHANGED inbox
      PROVE  /\ OneAtATime'
             /\ Idle' \/ \A d \in {"get", "save"} : Asked(d)' = Asked(d) /\ Sent(d)' = Sent(d)
             /\ \A g \in Handlers : Holds(box'[g], "set") => Holds(box[g], "set")
             /\ Idle => Idle'
  <2>1. box[h] \in Seq(ToHandler) /\ DumpAtEnd(box[h])
    BY Queues DEF OneAtATime
  <2>2. box'[h] = Front(box[h]) /\ \A g \in Handlers \ {h} : box'[g] = box[g]
    BY <1>3, Queues
  <2>3. ~HasDump(box'[h]) /\ DumpAtEnd(box'[h])
    BY <1>3, <2>1, <2>2, FrontDump
  <2>4. OneAtATime'
    BY <1>0, <1>3, <2>2, <2>3 DEF OneAtATime, Idle
  <2>5. CASE HasDump(box[h])
    <3>1. ~HasDump(inbox) /\ \A g \in Handlers \ {h} : ~HasDump(box[g])
      BY <2>5 DEF OneAtATime
    <3>2. Idle'
      BY <1>3, <2>2, <2>3, <3>1 DEF Idle
    <3>3. Holds(box'[h], "set") => Holds(box[h], "set")
      BY <1>3, <2>1, <2>2, FrontHolds
    <3> QED BY <2>2, <2>4, <3>2, <3>3 DEF Idle
  <2>6. CASE ~HasDump(box[h])
    <3>1. \A d \in {"get", "save"} : ~Holds(box[h], d) /\ ~Holds(box'[h], d)
      BY <2>3, <2>6, NoDumpKind
    <3>2. \A d \in {"get", "save"} : Asked(d)' = Asked(d) /\ Sent(d)' = Sent(d)
      BY <1>3, <2>2, <3>1 DEF Asked, Sent
    <3>3. Holds(box'[h], "set") => Holds(box[h], "set")
      BY <1>3, <2>1, <2>2, FrontHolds
    <3>4. Idle => Idle'
      BY <1>3, <2>2, <2>3 DEF Idle
    <3> QED BY <2>2, <2>4, <3>2, <3>3, <3>4
  <2> QED BY <2>5, <2>6
<1> QED BY <1>1, <1>2, <1>3 DEF Lose

\* A get or a save that goes to a handler, or to none.
LEMMA StartOne ==
    ASSUME TypeOK, OneAtATime, NEW c \in {"get", "save"}, NEW at \in Nat,
           at < Len(registered) \/ at = 0, StartDump(c, at)
    PROVE  /\ OneAtATime' /\ Idle
           /\ \/ /\ at < Len(registered) /\ registered # <<>>
                 /\ Asked(c)' = {registered[at + 1]} /\ Sent(c)' = {}
                 /\ \A d \in {"get", "save"} \ {c} : Asked(d)' = {} /\ Sent(d)' = {}
                 /\ \A g \in Handlers : Holds(box'[g], "set") => Holds(box[g], "set")
              \/ Idle' /\ busy' /\ ~load'.on
<1>0. ~busy /\ busy' /\ ~load'.on /\ UNCHANGED inbox
  BY DEF StartDump, Accept, loadVars
<1>1. Idle
  BY <1>0 DEF OneAtATime
<1>2. CASE at < Len(registered)
  <2>1. registered[at + 1] \in Handlers /\ registered # <<>>
    BY <1>2 DEF TypeOK, MasterOK
  <2>2. Ask(registered[at + 1], c)
    BY <1>2 DEF StartDump
  <2>3. ~HasDump(inbox') /\ \A h \in Handlers : ~HasDump(box[h])
    BY <1>0, <1>1 DEF Idle
  <2> QED BY <1>0, <1>1, <1>2, <2>1, <2>2, <2>3, AskOne
<1>3. CASE ~(at < Len(registered))
  <2>1. UNCHANGED box
    BY <1>3 DEF StartDump
  <2>2. Idle'
    BY <1>0, <1>1, <2>1 DEF Idle
  <2>3. Idle' => OneAtATime'
    BY DEF Idle, OneAtATime, HasDump, OneDump, DumpAtEnd
  <2> QED BY <1>0, <1>1, <2>2, <2>3
<1> QED BY <1>2, <1>3

LEMMA SaveOne ==
    ASSUME TypeOK, Known, OneAtATime, HandleFcSave
    PROVE  /\ OneAtATime'
           /\ LastOfAll(Head(inbox), currentlySaving) => Idle' /\ ~busy'
           /\ ~LastOfAll(Head(inbox), currentlySaving) =>
                /\ Asked("save")' = {registered[currentlySaving' + 1]} /\ Sent("save")' = {}
                /\ Asked("get")' = {} /\ Sent("get")' = {}
                /\ currentlySaving' < Len(registered)
           /\ \A g \in Handlers : Holds(box'[g], "set") => Holds(box[g], "set")
<1> DEFINE m  == Head(inbox)
           at == NextHandler(m, currentlySaving)
<1>0. /\ Answered("save") /\ currentlySaving' = at /\ UNCHANGED <<registered, load>>
  BY DEF HandleFcSave, SaveUnchanged, loadVars
<1>1. ~HasDump(inbox') /\ (\A h \in Handlers : ~HasDump(box[h])) /\ busy /\ ~load.on
  BY <1>0, TakeOne
<1>2. CASE LastOfAll(m, currentlySaving)
  <2>1. UNCHANGED box /\ ~busy'
    BY <1>2 DEF HandleFcSave
  <2>2. Idle'
    BY <1>1, <2>1 DEF Idle
  <2>3. Idle' => OneAtATime'
    BY DEF Idle, OneAtATime, HasDump, OneDump, DumpAtEnd
  <2> QED BY <1>2, <2>1, <2>2, <2>3
<1>3. CASE ~LastOfAll(m, currentlySaving)
  <2>1. Ask(registered[at + 1], "save") /\ busy' /\ ~load'.on
    BY <1>0, <1>1, <1>3 DEF HandleFcSave
  <2>2. registered # <<>>
    BY <1>0, HeadHolds, Queues DEF Known, UnderWay, Answered
  <2>3. registered[at + 1] \in Handlers /\ at < Len(registered)
    <3>1. m \in Answer
      BY <1>0, AnsweredType
    <3> HIDE DEF m
    <3> QED BY <1>3, <2>2, <3>1, NextHandlerType DEF TypeOK, MasterOK
  <2> HIDE DEF m, at
  <2>4. \A d \in {"get", "save"} \ {"save"} : d = "get"
    OBVIOUS
  <2> QED BY <1>0, <1>1, <1>3, <2>1, <2>3, <2>4, AskOne DEF m
<1> QED BY <1>2, <1>3

LEMMA CutStays ==
    ASSUME [Next]_vars, cut, ~Restart
    PROVE  cut'
BY DEF Next, Tasks, Master, Loader, Answers, Handler, Gs, Faults, vars,
       HandleRefused, HandleParamSet, HandleLoad, HandleGet, HandleSave, StartDump,
       LoadMore, LoadPacket, LoadFails, LoadUnchanged, HandleFcSet, HandleFcGet,
       HandleFcSave, HandleFcSaveFull, PhSet, PhGet, PhSave, PhDump,
       HandlerUnchanged, GsProcess, GsSends, GsUnchanged, GsWrite, GsSave, GsLoad, GsRequest,
       GsCommand, HandleHasParam, PowerLoss, PowerLossInWrite, Lose, HandleFcSaveFails, histVars

LEMMA RestartIdle ==
    ASSUME Restart
    PROVE  Idle' /\ OneAtATime' /\ \A d \in {"get", "save"} : Asked(d)' = {} /\ Sent(d)' = {}
<1>1. inbox' = <<>> /\ \A h \in Handlers : box'[h] = <<>>
  BY DEF Restart
<1>2. Idle'
  BY <1>1, EmptyKind DEF Idle
<1>3. Idle' => OneAtATime'
  BY DEF Idle, OneAtATime, HasDump, OneDump, DumpAtEnd
<1>4. Idle' => \A c \in {"get", "save"} : Asked(c)' = {} /\ Sent(c)' = {}
  BY NoDumpKind DEF Idle, Asked, Sent
<1> QED BY <1>2, <1>3, <1>4

\* What the steps do that are no part of a dump.
DumpStep == \/ HandleGet \/ HandleSave \/ HandleFcGet \/ HandleFcSave
            \/ \E h \in Handlers : PhGet(h) \/ PhSave(h)

\* A master that waits for an answer that will not come.
Wedged == busy /\ ~load.on /\ Idle
Intact == ~cut /\ ~Wedged

LEMMA LoaderIdle ==
    ASSUME TypeOK, ParserBetweenLoads, OneAtATime, Loader
    PROVE  Idle /\ Idle'
<1>1. load.on
  BY DEF Loader, LoadMore, LoadPacket, LoadFails
<1>2. Idle
  BY <1>1 DEF OneAtATime
<1>3. UNCHANGED inbox
  BY DEF Loader, LoadMore, LoadPacket, LoadFails, LoadUnchanged
<1>4. CASE UNCHANGED box
  BY <1>2, <1>3, <1>4 DEF Idle
<1>5. CASE LoadPacket
  <2> DEFINE m == SetMsg({Taken.piece}, Taken.value)
  <2>1. box' = [box EXCEPT ![Taken.piece[1]] = Append(@, m)]
    BY <1>5 DEF LoadPacket
  <2>2. m.control = "set"
    BY DEF SetMsg
  <2> HIDE DEF m
  <2>3. \A h \in Handlers : box'[h] = box[h] \/ box'[h] = Append(box[h], m)
    BY <2>1, Queues
  <2> QED BY <1>2, <1>3, <2>2, <2>3, SetsOnly
<1> QED BY <1>2, <1>4, <1>5 DEF Loader, LoadMore, LoadFails

\* The queues after a step that is no part of a dump.
LEMMA OtherQueues ==
    ASSUME TypeOK, ParserBetweenLoads, OneAtATime, [Next]_vars, ~cut, ~cut', ~DumpStep, ~Restart
    PROVE  /\ OneAtATime'
           /\ \/ Idle /\ Idle'
              \/ /\ UNCHANGED <<busy, load>>
                 /\ Idle' \/ \A d \in {"get", "save"} : Asked(d)' = Asked(d) /\ Sent(d)' = Sent(d)
                 /\ \A g \in Handlers : Holds(box'[g], "set") => Holds(box[g], "set")
                 /\ Idle => Idle'
<1>0. Idle' => OneAtATime'
  BY DEF Idle, OneAtATime, HasDump, OneDump, DumpAtEnd
<1>1. CASE UNCHANGED <<box, inbox, busy, load>>
  BY <1>1 DEF OneAtATime, Idle, Asked, Sent
<1>2. CASE HandleParamSet
  <2>1. ~busy /\ UNCHANGED inbox /\ Head(toMaster).control = "set"
    BY <1>2 DEF HandleParamSet, Accept, Awaits
  <2>2. Idle
    BY <2>1 DEF OneAtATime
  <2>3. \A h \in Handlers : box'[h] = box[h] \/ box'[h] = Append(box[h], Head(toMaster))
    BY <1>2 DEF HandleParamSet
  <2> QED BY <1>0, <2>1, <2>2, <2>3, SetsOnly
<1>3. CASE HandleLoad
  <2>1. ~busy /\ UNCHANGED <<box, inbox>>
    BY <1>3 DEF HandleLoad, Accept
  <2> QED BY <1>0, <2>1 DEF OneAtATime, Idle
<1>4. CASE Loader
  BY <1>0, <1>4, LoaderIdle
<1>5. CASE HandleFcSet
  <2>1. ~busy /\ UNCHANGED box /\ inbox # <<>> /\ inbox' = Tail(inbox)
    BY <1>5 DEF HandleFcSet, Answered, Awaits
  <2>2. Idle
    BY <2>1 DEF OneAtATime
  <2>3. ~HasDump(inbox')
    BY <2>1, <2>2, Queues, TailDump DEF Idle
  <2>4. Idle'
    BY <2>1, <2>2, <2>3 DEF Idle
  <2> QED BY <1>0, <2>2, <2>4
<1>6. ASSUME NEW h \in Handlers, PhSet(h)
      PROVE  /\ OneAtATime' /\ UNCHANGED <<busy, load>>
             /\ Idle' \/ \A d \in {"get", "save"} : Asked(d)' = Asked(d) /\ Sent(d)' = Sent(d)
             /\ \A g \in Handlers : Holds(box'[g], "set") => Holds(box[g], "set")
             /\ Idle => Idle'
  BY <1>6, SetOne DEF PhSet, HandlerUnchanged, masterVars, loadVars
<1>7. CASE Lose
  BY <1>7, LoseOne DEF Lose, masterVars, loadVars
<1>8. CASE HandleFcSaveFull \/ \E n \in Torn : HandleFcSaveFails(n)
  BY <1>8 DEF HandleFcSaveFull, HandleFcSaveFails
<1>9. CASE HandleRefused \/ GsProcess \/ Gs \/ (\E h \in Handlers : HandleHasParam(h))
            \/ UNCHANGED vars
  BY <1>1, <1>9 DEF HandleRefused, GsProcess, GsSends, GsUnchanged, Gs, GsWrite, GsSave, GsLoad,
                    GsRequest, GsCommand, HandleHasParam, vars, masterVars, loadVars
<1> QED BY <1>2, <1>3, <1>4, <1>5, <1>6, <1>7, <1>8, <1>9
        DEF Next, Tasks, Master, Answers, Handler, Faults, PowerLoss, PowerLossInWrite, DumpStep

LEMMA NextOne ==
    ASSUME TypeOK, ParserBetweenLoads, Known, ~cut => OneAtATime, [Next]_vars, ~cut'
    PROVE  OneAtATime'
<1>1. CASE Restart
  BY <1>1, RestartIdle
<1> SUFFICES ASSUME ~Restart, OneAtATime, ~cut PROVE OneAtATime'
  BY <1>1, CutStays
<1>0. /\ currentlyGetting \in Nat /\ (currentlyGetting < Len(registered) \/ currentlyGetting = 0)
      /\ currentlySaving \in Nat /\ (currentlySaving < Len(registered) \/ currentlySaving = 0)
  BY DEF TypeOK, MasterOK
<1>2. CASE HandleGet \/ HandleSave
  BY <1>0, <1>2, StartOne DEF HandleGet, HandleSave
<1>3. CASE HandleFcGet
  <2>1. ~HasDump(inbox') /\ UNCHANGED box /\ \A h \in Handlers : ~HasDump(box[h])
    BY <1>3, TakeOne DEF HandleFcGet
  <2>2. Idle'
    BY <2>1 DEF Idle
  <2>3. Idle' => OneAtATime'
    BY DEF Idle, OneAtATime, HasDump, OneDump, DumpAtEnd
  <2> QED BY <2>2, <2>3
<1>4. CASE HandleFcSave
  BY <1>4, SaveOne
<1>5. ASSUME NEW h \in Handlers, PhGet(h) \/ PhSave(h)
      PROVE  OneAtATime'
  BY <1>5, DumpOne DEF PhGet, PhSave
<1>6. CASE ~DumpStep
  BY <1>6, OtherQueues
<1> QED BY <1>2, <1>3, <1>4, <1>5, <1>6 DEF DumpStep

\* A master that waits in vain goes on to, until it is started again.
LEMMA WedgedStays ==
    ASSUME TypeOK, ParserBetweenLoads, Known, OneAtATime, [Next]_vars, ~cut, ~cut', ~Restart, Wedged
    PROVE  Wedged'
<1>0. busy /\ ~load.on /\ Idle
  BY DEF Wedged
<1>1. ~DumpStep
  <2>1. ~HandleGet /\ ~HandleSave
    BY <1>0 DEF HandleGet, HandleSave, StartDump, Accept
  <2>2. \A c \in {"get", "save"} : ~Answered(c)
    <3>1. ASSUME NEW c \in {"get", "save"}, Answered(c) PROVE FALSE
      <4>1. Holds(inbox, c)
        BY <3>1, HeadHolds, Queues DEF Answered
      <4> QED BY <1>0, <4>1, HoldsDump DEF Idle
    <3> QED BY <3>1
  <2>3. \A h \in Handlers : ~PhGet(h) /\ ~PhSave(h)
    <3>1. ASSUME NEW h \in Handlers, NEW c \in {"get", "save"}, Awaits(box[h], c) PROVE FALSE
      <4>1. Holds(box[h], c)
        BY <3>1, HeadHolds, Queues
      <4> QED BY <1>0, <4>1, HoldsDump DEF Idle
    <3> QED BY <3>1 DEF PhGet, PhSave, PhDump
  <2> QED BY <2>1, <2>2, <2>3 DEF DumpStep, HandleFcGet, HandleFcSave
<1>2. Idle'
  BY <1>0, <1>1, OtherQueues
<1>3. busy' /\ ~load'.on
  <2>1. ~HandleLoad /\ ~Loader /\ ~HandleParamSet
    BY <1>0 DEF HandleLoad, HandleParamSet, Accept, Loader, LoadMore, LoadPacket, LoadFails
  <2>2. ~HandleFcSet
    BY <1>0 DEF HandleFcSet
  <2>3. UNCHANGED load
    BY <2>1, LoadStays DEF loadVars
  <2>4. UNCHANGED busy
    BY <1>1, <2>1, <2>2 DEF DumpStep, Next, Tasks, Master, Answers, Handler, Gs, Faults, vars,
       HandleRefused, HandleFcSaveFull, PhSet,
       HandlerUnchanged, GsProcess, GsSends, GsUnchanged, GsWrite, GsSave, GsLoad, GsRequest,
       GsCommand, HandleHasParam, PowerLoss, PowerLossInWrite, Lose, HandleFcSaveFails, masterVars
  <2> QED BY <1>0, <2>3, <2>4
<1> QED BY <1>2, <1>3 DEF Wedged

\* A step that is no part of a dump leaves the messages of the dumps alone, unless it
\* leaves the master wedged.
LEMMA OtherStep ==
    ASSUME TypeOK, ParserBetweenLoads, Known, OneAtATime, [Next]_vars, ~cut, ~cut',
           ~DumpStep, ~Restart, ~Wedged, ~Wedged'
    PROVE  /\ \A d \in {"get", "save"} : Asked(d)' = Asked(d) /\ Sent(d)' = Sent(d)
           /\ Idle \/ \A g \in Handlers : Holds(box'[g], "set") => Holds(box[g], "set")
           /\ Idle => Idle'
           /\ UNCHANGED <<currentlyGetting, getAt, saveAt, sequenceGet, saved>>
           /\ \/ UNCHANGED <<currentlySaving, setAddress>>
              \/ Idle /\ currentlySaving' = 0 /\ setAddress' = 0
           /\ \/ registered' = registered
              \/ \E h \in Handlers : registered' = Append(registered, h)
           /\ \A p \in Piece : value'[p] = value[p] \/ Holds(box[p[1]], "set")
<1>1. \/ Idle /\ Idle'
      \/ /\ UNCHANGED <<busy, load>>
         /\ Idle' \/ \A d \in {"get", "save"} : Asked(d)' = Asked(d) /\ Sent(d)' = Sent(d)
         /\ \A g \in Handlers : Holds(box'[g], "set") => Holds(box[g], "set")
         /\ Idle => Idle'
  BY OtherQueues
<1>2. ASSUME Idle, Idle'
      PROVE  \A d \in {"get", "save"} : Asked(d)' = Asked(d) /\ Sent(d)' = Sent(d)
  <2>1. \A d \in {"get", "save"} : Asked(d) = {} /\ Sent(d) = {}
    BY <1>2, IdleNone
  <2>2. \A d \in {"get", "save"} : Asked(d)' = {} /\ Sent(d)' = {}
    BY <1>2, NoDumpKind DEF Idle, Asked, Sent
  <2> QED BY <2>1, <2>2
<1>3. ASSUME Idle', UNCHANGED <<busy, load>> PROVE Idle
  BY <1>3 DEF OneAtATime, Wedged
<1>4. UNCHANGED <<currentlyGetting, getAt, saveAt, sequenceGet, saved>>
  BY DEF DumpStep, Next, Tasks, Master, Loader, Answers, Handler, Gs, Faults, vars,
       HandleRefused, HandleParamSet, HandleLoad,
       LoadMore, LoadPacket, LoadFails, LoadUnchanged, HandleFcSet, HandleFcSaveFull,
       SaveUnchanged, PhSet,
       HandlerUnchanged, GsProcess, GsSends, GsUnchanged, GsWrite, GsSave, GsLoad, GsRequest,
       GsCommand, HandleHasParam, PowerLoss, PowerLossInWrite, Lose, HandleFcSaveFails,
       masterVars, memoryVars, handlerVars
<1>5. CASE HandleFcSet
  <2>1. ~busy /\ currentlySaving' = 0 /\ setAddress' = 0 /\ UNCHANGED <<registered, value>>
    BY <1>5 DEF HandleFcSet, CleanUp, handlerVars
  <2>2. Idle
    BY <2>1 DEF OneAtATime
  <2> QED BY <1>1, <1>2, <1>4, <2>1, <2>2
<1>6. CASE ~HandleFcSet
  <2>1. UNCHANGED <<currentlySaving, setAddress>>
    BY <1>6 DEF DumpStep, Next, Tasks, Master, Loader, Answers, Handler, Gs, Faults, vars,
       HandleRefused, HandleParamSet, HandleLoad,
       LoadMore, LoadPacket, LoadFails, LoadUnchanged, HandleFcSaveFull, PhSet,
       HandlerUnchanged, GsProcess, GsSends, GsUnchanged, GsWrite, GsSave, GsLoad, GsRequest,
       GsCommand, HandleHasParam, PowerLoss, PowerLossInWrite, Lose, HandleFcSaveFails,
       masterVars
  <2>2. \/ registered' = registered
        \/ \E h \in Handlers : registered' = Append(registered, h)
    BY <1>6 DEF DumpStep, Next, Tasks, Master, Loader, Answers, Handler, Gs, Faults, vars,
       HandleRefused, HandleParamSet, HandleLoad,
       LoadMore, LoadPacket, LoadFails, LoadUnchanged, HandleFcSaveFull, SaveUnchanged, PhSet,
       HandlerUnchanged, GsProcess, GsSends, GsUnchanged, GsWrite, GsSave, GsLoad, GsRequest,
       GsCommand, HandleHasParam, PowerLoss, PowerLossInWrite, Lose, HandleFcSaveFails
  <2>3. \A p \in Piece : value'[p] = value[p] \/ Holds(box[p[1]], "set")
    <3>1. ASSUME NEW h \in Handlers, PhSet(h), NEW p \in Piece
          PROVE  value'[p] = value[p] \/ Holds(box[p[1]], "set")
      <4>1. Holds(box[h], "set")
        BY <3>1, SetOne
      <4>2. value' = [x \in Piece |-> IF x \in Head(box[h]).pieces /\ x[1] = h
                                      THEN Head(box[h]).value ELSE value[x]]
        BY <3>1 DEF PhSet
      <4> QED BY <4>1, <4>2
    <3>2. ASSUME \A h \in Handlers : ~PhSet(h) PROVE UNCHANGED value
      BY <1>6, <3>2 DEF DumpStep, Next, Tasks, Master, Loader, Answers, Handler, Gs, Faults, vars,
       HandleRefused, HandleParamSet, HandleLoad,
       LoadMore, LoadPacket, LoadFails, LoadUnchanged, HandleFcSaveFull, SaveUnchanged,
       GsProcess, GsSends, GsUnchanged, GsWrite, GsSave, GsLoad, GsRequest,
       GsCommand, HandleHasParam, PowerLoss, PowerLossInWrite, Lose, HandleFcSaveFails,
       handlerVars
    <3> QED BY <3>1, <3>2
  <2> QED BY <1>1, <1>2, <1>3, <1>4, <2>1, <2>2, <2>3
<1> QED BY <1>5, <1>6

-----------------------------------------------------------------------------
(* Where a dump is.                                                        *)

\* A dump of handlers hs: only the handler at index cur is asked, and answers, and
\* has dumped a part of its tree.
Placed(hs, asked, sent, cur, at) ==
    /\ \A h \in asked : cur < Len(hs) /\ h = hs[cur + 1]
    /\ \A m \in sent :
          /\ cur < Len(hs) /\ m.piece[1] = hs[cur + 1]
          /\ m.last <=> m.piece[2] = Pieces[m.piece[1]]
          /\ at[m.piece[1]] = IF m.last THEN 0 ELSE m.piece[2]
    /\ \A h \in Handlers : at[h] # 0 => cur < Len(hs) /\ h = hs[cur + 1]

LEMMA PieceForm ==
    ASSUME NEW p \in Piece
    PROVE  /\ p[1] \in Handlers /\ p[2] \in 1 .. Pieces[p[1]] /\ p = <<p[1], p[2]>>
           /\ p[2] \in Nat /\ Pieces[p[1]] \in Nat
BY Constants DEF Piece

LEMMA PlacedStays ==
    ASSUME NEW hs \in Seq(Handlers), NEW hs2,
           hs2 = hs \/ \E h \in Handlers : hs2 = Append(hs, h),
           NEW asked, NEW asked2 \in SUBSET asked, NEW sent, NEW sent2 \in SUBSET sent,
           NEW cur \in Nat, NEW at, Placed(hs, asked, sent, cur, at)
    PROVE  Placed(hs2, asked2, sent2, cur, at)
<1>1. cur < Len(hs) => cur < Len(hs2) /\ hs2[cur + 1] = hs[cur + 1]
  <2>1. ASSUME NEW h \in Handlers, hs2 = Append(hs, h), cur < Len(hs)
        PROVE  cur < Len(hs2) /\ hs2[cur + 1] = hs[cur + 1]
    <3>1. cur + 1 \in 1 .. Len(hs) /\ Len(hs2) = Len(hs) + 1 /\ Len(hs) \in Nat
      BY <2>1
    <3> QED BY <2>1, <3>1
  <2> QED BY <2>1
<1> QED BY <1>1 DEF Placed

LEMMA PlacedAsk ==
    ASSUME NEW hs, NEW asked, NEW sent, NEW cur, NEW at, Placed(hs, asked, sent, cur, at),
           cur < Len(hs)
    PROVE  Placed(hs, {hs[cur + 1]}, {}, cur, at)
BY DEF Placed

\* The piece that a handler dumps.
LEMMA PlacedDump ==
    ASSUME NEW hs, NEW sent, NEW cur, NEW at \in [Handlers -> Nat], NEW h \in Handlers,
           Placed(hs, {h}, sent, cur, at), at[h] < Pieces[h], NEW m,
           m.piece = PieceAt(h, at), m.last = (at[h] + 1 = Pieces[h])
    PROVE  Placed(hs, {}, {m}, cur, Onward(h, at))
<1>1. m.piece[1] = h /\ m.piece[2] = at[h] + 1
  BY DEF PieceAt
<1>2. Onward(h, at) = [at EXCEPT ![h] = IF @ + 1 = Pieces[h] THEN 0 ELSE @ + 1]
  BY DEF Onward
<1>3. /\ Onward(h, at)[h] = IF m.last THEN 0 ELSE at[h] + 1
      /\ \A g \in Handlers \ {h} : Onward(h, at)[g] = at[g]
  BY <1>2
<1>4. cur < Len(hs) /\ h = hs[cur + 1]
  BY DEF Placed
<1>5. Pieces[h] \in Nat
  BY Constants
<1> HIDE DEF Onward
<1>6. m.last <=> m.piece[2] = Pieces[m.piece[1]]
  BY <1>1, <1>5
<1>7. Onward(h, at)[m.piece[1]] = IF m.last THEN 0 ELSE m.piece[2]
  BY <1>1, <1>3
<1>8. ASSUME NEW g \in Handlers, Onward(h, at)[g] # 0
      PROVE  cur < Len(hs) /\ g = hs[cur + 1]
  <2>1. CASE g = h
    BY <2>1, <1>4
  <2>2. CASE g # h
    <3>1. at[g] # 0
      BY <2>2, <1>3, <1>8
    <3> QED BY <3>1 DEF Placed
  <2> QED BY <2>1, <2>2
<1> QED BY <1>1, <1>4, <1>6, <1>7, <1>8 DEF Placed

\* The master goes on from a piece: to the piece after it, or it has had the last.
LEMMA PlacedNext ==
    ASSUME registered \in Seq(Handlers), NEW cur \in Nat, NEW at, NEW m, m.piece \in Piece,
           NEW asked, NEW sent, m \in sent, Placed(registered, asked, sent, cur, at),
           m.last \in BOOLEAN
    PROVE  LET n == NextHandler(m, cur)
           IN  /\ LastOfAll(m, cur) =>
                    /\ n = 0 /\ registered # <<>> /\ \A h \in Handlers : at[h] = 0
                    /\ m.piece = <<registered[Len(registered)], Pieces[registered[Len(registered)]]>>
                    /\ cur = Len(registered) - 1
               /\ ~LastOfAll(m, cur) =>
                    /\ n < Len(registered) /\ n \in Nat
                    /\ Follows(m.piece, <<registered[n + 1], at[registered[n + 1]] + 1>>, registered)
               /\ Placed(registered, {}, {}, n, at)
<1> DEFINE n == NextHandler(m, cur)
           h == m.piece[1]
<1>1. /\ cur < Len(registered) /\ h = registered[cur + 1] /\ Len(registered) \in Nat
      /\ m.last <=> m.piece[2] = Pieces[h]
      /\ at[h] = IF m.last THEN 0 ELSE m.piece[2]
  BY DEF Placed
<1>2. /\ h \in Handlers /\ m.piece[2] \in 1 .. Pieces[h] /\ m.piece = <<h, m.piece[2]>>
      /\ m.piece[2] \in Nat /\ Pieces[h] \in Nat
  BY PieceForm
<1>3. \A g \in Handlers : at[g] # 0 => g = h
  BY <1>1 DEF Placed
<1>4. CASE LastOfAll(m, cur)
  <2>1. n = 0 /\ m.last /\ cur + 1 = Len(registered) /\ cur = Len(registered) - 1
    BY <1>1, <1>4 DEF NextHandler, LastOfAll
  <2>2. \A g \in Handlers : at[g] = 0
    BY <1>1, <1>3, <2>1
  <2>3. registered # <<>>
    BY <1>1
  <2>4. m.piece = <<registered[Len(registered)], Pieces[registered[Len(registered)]]>>
    BY <1>1, <1>2, <2>1
  <2>5. Placed(registered, {}, {}, n, at)
    BY <2>2 DEF Placed
  <2> QED BY <1>4, <2>1, <2>2, <2>3, <2>4, <2>5
<1>5. CASE ~LastOfAll(m, cur) /\ m.last
  <2>1. n = cur + 1 /\ n < Len(registered)
    BY <1>1, <1>5 DEF NextHandler, LastOfAll
  <2>2. \A g \in Handlers : at[g] = 0
    BY <1>1, <1>3, <1>5
  <2>3. registered[n + 1] \in Handlers
    BY <2>1
  <2>4. at[registered[n + 1]] + 1 = 1
    BY <2>2, <2>3
  <2>5. n \in 1 .. Len(registered) - 1 /\ h = registered[n]
    BY <1>1, <2>1
  <2>6. m.piece[2] = Pieces[h]
    BY <1>1, <1>5
  <2>7. Follows(m.piece, <<registered[n + 1], at[registered[n + 1]] + 1>>, registered)
    BY <2>4, <2>5, <2>6 DEF Follows
  <2>8. Placed(registered, {}, {}, n, at)
    BY <2>2 DEF Placed
  <2> QED BY <1>5, <2>1, <2>7, <2>8
<1>6. CASE ~LastOfAll(m, cur) /\ ~m.last
  <2>1. n = cur
    BY <1>6 DEF NextHandler
  <2>2. m.piece[2] < Pieces[h] /\ at[h] = m.piece[2]
    BY <1>1, <1>2, <1>6
  <2>3. registered[n + 1] = h
    BY <1>1, <2>1
  <2>4. <<registered[n + 1], at[registered[n + 1]] + 1>> = <<m.piece[1], m.piece[2] + 1>>
    BY <2>2, <2>3
  <2>5. Follows(m.piece, <<registered[n + 1], at[registered[n + 1]] + 1>>, registered)
    BY <2>2, <2>4 DEF Follows
  <2>6. Placed(registered, {}, {}, n, at)
    BY <2>1 DEF Placed
  <2> QED BY <1>1, <1>6, <2>1, <2>5, <2>6
<1> QED BY <1>4, <1>5, <1>6

-----------------------------------------------------------------------------
(* Sequences of pieces.                                                    *)

LEMMA FollowsGrows ==
    ASSUME NEW hs \in Seq(Handlers), NEW h \in Handlers, NEW p, NEW q, Follows(p, q, hs)
    PROVE  Follows(p, q, Append(hs, h))
<1>1. CASE p[2] < Pieces[p[1]] /\ q = <<p[1], p[2] + 1>>
  BY <1>1 DEF Follows
<1>2. ASSUME p[2] = Pieces[p[1]],
             NEW i \in 1 .. Len(hs) - 1, p[1] = hs[i], q = <<hs[i + 1], 1>>
      PROVE  Follows(p, q, Append(hs, h))
  <2>1. /\ i \in 1 .. Len(hs) /\ i + 1 \in 1 .. Len(hs)
        /\ Len(Append(hs, h)) = Len(hs) + 1 /\ Len(hs) \in Nat
    OBVIOUS
  <2>2. Append(hs, h)[i] = hs[i] /\ Append(hs, h)[i + 1] = hs[i + 1]
    BY <2>1
  <2>3. i \in 1 .. Len(Append(hs, h)) - 1
    BY <2>1
  <2> QED BY <1>2, <2>2, <2>3 DEF Follows
<1> QED BY <1>1, <1>2 DEF Follows

LEMMA BeginsGrows ==
    ASSUME NEW hs \in Seq(Handlers), NEW h \in Handlers, NEW t, BeginsTreeOf(t, hs)
    PROVE  BeginsTreeOf(t, Append(hs, h))
<1>1. Append(hs, h) # <<>> /\ Append(hs, h)[1] = hs[1]
  BY AppendNotEmpty DEF BeginsTreeOf
<1> QED BY <1>1, FollowsGrows DEF BeginsTreeOf

LEMMA BeginsFirst ==
    ASSUME NEW hs, hs # <<>>
    PROVE  BeginsTreeOf(<< <<hs[1], 1>> >>, hs)
BY DEF BeginsTreeOf

LEMMA BeginsGoesOn ==
    ASSUME NEW S, NEW t \in Seq(S), NEW hs, BeginsTreeOf(t, hs), NEW q \in S,
           Follows(t[Len(t)], q, hs)
    PROVE  BeginsTreeOf(Append(t, q), hs)
<1> DEFINE r == Append(t, q)
<1>1. /\ Len(t) \in Nat /\ DOMAIN r = 1 .. Len(t) + 1 /\ Len(r) = Len(t) + 1
      /\ r[Len(t) + 1] = q /\ \A i \in 1 .. Len(t) : r[i] = t[i]
  BY AppendAt
<1>2. r # <<>> /\ Len(t) # 0
  BY AppendNotEmpty DEF BeginsTreeOf
<1> HIDE DEF r
<1>3. r[1] = t[1]
  <2>1. 1 \in 1 .. Len(t)
    BY <1>1, <1>2
  <2> QED BY <1>1, <2>1
<1>4. ASSUME NEW i \in 1 .. Len(r) - 1 PROVE Follows(r[i], r[i + 1], hs)
  <2>1. i \in 1 .. Len(t) /\ r[i] = t[i]
    BY <1>1
  <2>2. CASE i = Len(t)
    BY <1>1, <2>1, <2>2
  <2>3. CASE i # Len(t)
    <3>1. i \in 1 .. Len(t) - 1 /\ i + 1 \in 1 .. Len(t)
      BY <1>1, <2>1, <2>3
    <3> QED BY <1>1, <2>1, <3>1 DEF BeginsTreeOf
  <2> QED BY <2>2, <2>3
<1>5. BeginsTreeOf(r, hs)
  BY <1>2, <1>3, <1>4 DEF BeginsTreeOf
<1> QED BY <1>5 DEF r

-----------------------------------------------------------------------------
(* The save.                                                               *)

\* The piece that is to be saved next, and a value that no set on its way changes.
DueToSave(p) == IF setAddress = 0 THEN registered # <<>> /\ p = <<registered[1], 1>>
                ELSE Follows(saved[Len(saved)].piece, p, registered)
Current(p, v) == value[p] = v /\ ~Holds(box[p[1]], "set")

PlacedGet  == Placed(registered, Asked("get"), Sent("get"), currentlyGetting, getAt)
PlacedSave == Placed(registered, Asked("save"), Sent("save"), currentlySaving, saveAt)

\* A save in the middle has begun the tree, with the values that the handlers have,
\* and goes on with the piece after the last; one that is not under way is at the
\* start.
Saving ==
    /\ \A m \in Sent("save") : DueToSave(m.piece) /\ Current(m.piece, m.value)
    /\ \A h \in Asked("save") : DueToSave(<<h, saveAt[h] + 1>>)
    /\ Asked("save") = {} /\ Sent("save") = {} =>
          setAddress = 0 /\ currentlySaving = 0 /\ \A h \in Handlers : saveAt[h] = 0
    /\ setAddress # 0 => /\ BeginsTreeOf(PiecesOf(saved), registered)
                         /\ \A i \in DOMAIN saved : Current(saved[i].piece, saved[i].value)

LEMMA SentType ==
    ASSUME TypeOK, NEW c \in {"get", "save"}, NEW m \in Sent(c)
    PROVE  m \in Answer /\ m.piece \in Piece /\ m.value \in Values /\ m.last \in BOOLEAN
<1>1. m \in Answer /\ m.control = c
  BY Queues DEF Sent, OfKind
<1> QED BY <1>1 DEF Answer

LEMMA Indices ==
    ASSUME TypeOK
    PROVE  /\ currentlyGetting \in Nat /\ (currentlyGetting < Len(registered) \/ currentlyGetting = 0)
           /\ currentlySaving \in Nat /\ (currentlySaving < Len(registered) \/ currentlySaving = 0)
           /\ getAt \in [Handlers -> Nat] /\ saveAt \in [Handlers -> Nat]
           /\ \A h \in Handlers : getAt[h] < Pieces[h] /\ saveAt[h] < Pieces[h]
           /\ registered \in Seq(Handlers) /\ Len(registered) \in Nat
           /\ saved \in Seq(Packet) /\ setAddress \in Nat
           /\ sequenceGet \in Nat
BY Constants DEF TypeOK, MasterOK, TreesOK, MemoryOK

LEMMA PiecesOfAppend ==
    ASSUME NEW s \in Seq(Packet), NEW p \in Packet
    PROVE  /\ PiecesOf(s) \in Seq(Piece) /\ Len(PiecesOf(s)) = Len(s)
           /\ \A i \in 1 .. Len(s) : PiecesOf(s)[i] = s[i].piece
           /\ PiecesOf(Append(s, p)) = Append(PiecesOf(s), p.piece)
<1>1. \A q \in Packet : q.piece \in Piece
  BY DEF Packet
<1>2. /\ PiecesOf(s) \in Seq(Piece) /\ Len(PiecesOf(s)) = Len(s)
      /\ \A i \in 1 .. Len(s) : PiecesOf(s)[i] = s[i].piece
  BY <1>1 DEF PiecesOf
<1>3. PiecesOf(Append(s, p)) = Append(PiecesOf(s), p.piece)
  <2>1. /\ Len(s) \in Nat /\ DOMAIN Append(s, p) = 1 .. Len(s) + 1
        /\ Append(s, p)[Len(s) + 1] = p /\ \A i \in 1 .. Len(s) : Append(s, p)[i] = s[i]
    BY AppendAt
  <2>2. PiecesOf(Append(s, p)) = [i \in 1 .. Len(s) + 1 |-> IF i = Len(s) + 1 THEN p.piece ELSE s[i].piece]
    <3>1. \A i \in 1 .. Len(s) + 1 : i \in 1 .. Len(s) \/ i = Len(s) + 1
      BY <2>1
    <3> QED BY <2>1, <3>1 DEF PiecesOf
  <2>3. Append(PiecesOf(s), p.piece) = [i \in 1 .. Len(s) + 1 |-> IF i = Len(s) + 1 THEN p.piece ELSE PiecesOf(s)[i]]
    BY <1>2
  <2>4. \A i \in 1 .. Len(s) + 1 : i = Len(s) + 1 \/ i \in 1 .. Len(s)
    BY <2>1
  <2> QED BY <1>2, <2>2, <2>3, <2>4
<1> QED BY <1>2, <1>3

\* What a save has written after a piece.
LEMMA SaveGoesOn ==
    ASSUME TypeOK, OneAtATime, PlacedSave, Saving, HandleFcSave
    PROVE  LET m == Head(inbox)
           IN  /\ m \in Sent("save") /\ m.piece \in Piece
               /\ BeginsTreeOf(PiecesOf(saved'), registered)
               /\ saved' \in Seq(Packet) /\ saved' # <<>>
               /\ saved'[Len(saved')].piece = m.piece
               /\ \A i \in DOMAIN saved' : Current(saved'[i].piece, saved'[i].value)
<1> DEFINE m == Head(inbox)
           w == Written(m)
<1>1. m \in Sent("save") /\ m.piece \in Piece /\ m.value \in Values
  <2>1. m \in Sent("save")
    BY TakeOne DEF HandleFcSave
  <2> QED BY <2>1, SentType
<1>2. DueToSave(m.piece) /\ Current(m.piece, m.value)
  BY <1>1 DEF Saving
<1>3. w \in Packet /\ w.piece = m.piece /\ w.value = m.value
  <2>1. saveSequence \in Nat /\ LastOfAll(m, currentlySaving) \in BOOLEAN
    BY DEF TypeOK, MasterOK, LastOfAll
  <2> QED BY <1>1, <2>1 DEF Written, Packet
<1>4. saved' = IF setAddress = 0 THEN <<w>> ELSE Append(saved, w)
  BY DEF HandleFcSave
<1> HIDE DEF m, w
<1>5. CASE setAddress = 0
  <2>1. saved' = <<w>> /\ registered # <<>> /\ m.piece = <<registered[1], 1>>
    BY <1>2, <1>4, <1>5 DEF DueToSave
  <2>2. PiecesOf(saved') = << m.piece >>
    BY <1>3, <2>1 DEF PiecesOf
  <2>3. BeginsTreeOf(PiecesOf(saved'), registered)
    BY <2>1, <2>2, BeginsFirst
  <2>4. Len(saved') = 1 /\ saved'[1] = w /\ DOMAIN saved' = {1} /\ saved' \in Seq(Packet)
    BY <1>3, <2>1
  <2>5. saved' # <<>>
    BY <2>4
  <2> QED BY <1>1, <1>2, <1>3, <2>3, <2>4, <2>5 DEF m
<1>6. CASE setAddress # 0
  <2>1. saved' = Append(saved, w) /\ saved \in Seq(Packet)
    BY <1>4, <1>6, Indices
  <2>2. /\ Len(saved) \in Nat /\ DOMAIN saved' = 1 .. Len(saved) + 1 /\ Len(saved') = Len(saved) + 1
        /\ saved'[Len(saved) + 1] = w /\ \A i \in 1 .. Len(saved) : saved'[i] = saved[i]
        /\ DOMAIN saved = 1 .. Len(saved)
    BY <2>1, AppendAt
  <2>3. BeginsTreeOf(PiecesOf(saved), registered) /\ Follows(saved[Len(saved)].piece, m.piece, registered)
    BY <1>2, <1>6 DEF Saving, DueToSave
  <2>4. /\ PiecesOf(saved) \in Seq(Piece) /\ Len(PiecesOf(saved)) = Len(saved)
        /\ \A i \in 1 .. Len(saved) : PiecesOf(saved)[i] = saved[i].piece
        /\ PiecesOf(saved') = Append(PiecesOf(saved), m.piece)
    BY <1>3, <2>1, PiecesOfAppend
  <2>5. Len(saved) \in 1 .. Len(saved)
    <3>1. Len(PiecesOf(saved)) # 0
      BY <2>3, <2>4 DEF BeginsTreeOf
    <3> QED BY <2>2, <2>4, <3>1
  <2>6. BeginsTreeOf(PiecesOf(saved'), registered)
    BY <1>1, <2>3, <2>4, <2>5, BeginsGoesOn
  <2>7. \A i \in DOMAIN saved' : Current(saved'[i].piece, saved'[i].value)
    <3>1. \A i \in 1 .. Len(saved) + 1 : i \in 1 .. Len(saved) \/ i = Len(saved) + 1
      BY <2>2
    <3>2. \A i \in 1 .. Len(saved) : Current(saved[i].piece, saved[i].value)
      BY <1>6, <2>2 DEF Saving
    <3> QED BY <1>2, <1>3, <2>2, <3>1, <3>2
  <2>8. saved' \in Seq(Packet) /\ saved' # <<>>
    BY <1>3, <2>1, AppendNotEmpty
  <2> QED BY <1>1, <1>3, <2>2, <2>6, <2>7, <2>8 DEF m
<1> QED BY <1>5, <1>6

\* Nothing is asked for, or answered, when no dump is under way.
LEMMA IdleSave == Idle /\ Saving => setAddress = 0 /\ currentlySaving = 0
                                    /\ \A h \in Handlers : saveAt[h] = 0
BY IdleNone DEF Saving

LEMMA NextPlaced ==
    ASSUME TypeOK, ParserBetweenLoads, Known, OneAtATime, PlacedGet, PlacedSave, Saving,
           [Next]_vars, ~cut, ~cut', ~Restart, ~Wedged, ~Wedged'
    PROVE  PlacedGet' /\ PlacedSave'
<1>0. /\ currentlyGetting \in Nat /\ (currentlyGetting < Len(registered) \/ currentlyGetting = 0)
      /\ currentlySaving \in Nat /\ (currentlySaving < Len(registered) \/ currentlySaving = 0)
      /\ getAt \in [Handlers -> Nat] /\ saveAt \in [Handlers -> Nat]
      /\ registered \in Seq(Handlers)
      /\ \A h \in Handlers : getAt[h] < Pieces[h] /\ saveAt[h] < Pieces[h]
  BY Indices
<1>a. ASSUME UNCHANGED <<registered, currentlyGetting, getAt>>, Asked("get")' = {}, Sent("get")' = {}
      PROVE  PlacedGet'
  BY <1>0, <1>a, PlacedStays DEF PlacedGet
<1>b. ASSUME UNCHANGED <<registered, currentlySaving, saveAt>>, Asked("save")' = {}, Sent("save")' = {}
      PROVE  PlacedSave'
  BY <1>0, <1>b, PlacedStays DEF PlacedSave
<1>1. CASE ~DumpStep
  <2>1. /\ \A d \in {"get", "save"} : Asked(d)' = Asked(d) /\ Sent(d)' = Sent(d)
        /\ UNCHANGED <<currentlyGetting, getAt, saveAt>>
        /\ registered' = registered \/ \E h \in Handlers : registered' = Append(registered, h)
        /\ currentlySaving' = currentlySaving
    BY <1>1, OtherStep, IdleSave
  <2>2. PlacedGet'
    BY <1>0, <2>1, PlacedStays DEF PlacedGet
  <2>3. PlacedSave'
    <3>1. Asked("save")' \in SUBSET Asked("save") /\ Sent("save")' \in SUBSET Sent("save")
      BY <2>1
    <3>2. Placed(registered', Asked("save")', Sent("save")', currentlySaving, saveAt)
      BY <1>0, <2>1, <3>1, PlacedStays DEF PlacedSave
    <3> QED BY <2>1, <3>2 DEF PlacedSave
  <2> QED BY <2>2, <2>3
<1>2. CASE HandleGet
  <2>1. UNCHANGED <<registered, currentlyGetting, currentlySaving, getAt, saveAt>>
    BY <1>2 DEF HandleGet, StartDump, handlerVars
  <2>2. /\ currentlyGetting < Len(registered)
        /\ Asked("get")' = {registered[currentlyGetting + 1]} /\ Sent("get")' = {}
        /\ Asked("save")' = {} /\ Sent("save")' = {}
    BY <1>0, <1>2, StartOne DEF HandleGet, Wedged
  <2>3. PlacedGet'
    BY <2>1, <2>2, PlacedAsk DEF PlacedGet
  <2> QED BY <1>b, <2>1, <2>2, <2>3
<1>3. CASE HandleSave
  <2>1. UNCHANGED <<registered, currentlyGetting, currentlySaving, getAt, saveAt>>
    BY <1>3 DEF HandleSave, StartDump, handlerVars
  <2>2. /\ currentlySaving < Len(registered)
        /\ Asked("save")' = {registered[currentlySaving + 1]} /\ Sent("save")' = {}
        /\ Asked("get")' = {} /\ Sent("get")' = {}
    BY <1>0, <1>3, StartOne DEF HandleSave, Wedged
  <2>3. PlacedSave'
    BY ZenonT(40), <2>1, <2>2, PlacedAsk DEF PlacedSave
  <2> QED BY <1>a, <2>1, <2>2, <2>3
<1>4. ASSUME NEW h \in Handlers, PhGet(h)
      PROVE  PlacedGet' /\ PlacedSave'
  <2> DEFINE m == Dump("get", PieceAt(h, getAt), value[PieceAt(h, getAt)], getAt[h] + 1 = Pieces[h])
  <2>1. /\ UNCHANGED <<registered, currentlyGetting, currentlySaving, saveAt>>
        /\ getAt' = Onward(h, getAt) /\ PhDump(h, "get", getAt)
    BY <1>4 DEF PhGet, PhDump, HandlerUnchanged, masterVars
  <2>2. /\ Asked("get") = {h} /\ Asked("get")' = {} /\ Sent("get")' = {m}
        /\ Asked("save")' = {} /\ Sent("save")' = {}
    BY <2>1, DumpOne
  <2>3. m.piece = PieceAt(h, getAt) /\ m.last = (getAt[h] + 1 = Pieces[h])
    BY DEF Dump
  <2> HIDE DEF m
  <2>4. Placed(registered, {}, {m}, currentlyGetting, Onward(h, getAt))
    BY <1>0, <2>2, <2>3, PlacedDump DEF PlacedGet
  <2>5. PlacedGet'
    BY <2>1, <2>2, <2>4 DEF PlacedGet
  <2> QED BY <1>b, <2>1, <2>2, <2>5
<1>5. ASSUME NEW h \in Handlers, PhSave(h)
      PROVE  PlacedGet' /\ PlacedSave'
  <2> DEFINE m == Dump("save", PieceAt(h, saveAt), value[PieceAt(h, saveAt)], saveAt[h] + 1 = Pieces[h])
  <2>1. /\ UNCHANGED <<registered, currentlyGetting, currentlySaving, getAt>>
        /\ saveAt' = Onward(h, saveAt) /\ PhDump(h, "save", saveAt)
    BY <1>5 DEF PhSave, PhDump, HandlerUnchanged, masterVars
  <2>2. /\ Asked("save") = {h} /\ Asked("save")' = {} /\ Sent("save")' = {m}
        /\ Asked("get")' = {} /\ Sent("get")' = {}
    BY <2>1, DumpOne
  <2>3. m.piece = PieceAt(h, saveAt) /\ m.last = (saveAt[h] + 1 = Pieces[h])
    BY DEF Dump
  <2> HIDE DEF m
  <2>4. Placed(registered, {}, {m}, currentlySaving, Onward(h, saveAt))
    BY <1>0, <2>2, <2>3, PlacedDump DEF PlacedSave
  <2>5. PlacedSave'
    BY <2>1, <2>2, <2>4 DEF PlacedSave
  <2> QED BY <1>a, <2>1, <2>2, <2>5
<1>6. CASE HandleFcGet
  <2> DEFINE m == Head(inbox)
  <2>1. Answered("get") /\ currentlyGetting' = NextHandler(m, currentlyGetting)
        /\ UNCHANGED <<box, registered, currentlySaving, getAt, saveAt>>
    BY <1>6 DEF HandleFcGet, handlerVars
  <2>2. ~HasDump(inbox') /\ (\A h \in Handlers : ~HasDump(box'[h])) /\ m \in Sent("get")
    BY <2>1, TakeOne
  <2>3. \A d \in {"get", "save"} : Asked(d)' = {} /\ Sent(d)' = {}
    BY <2>2, NoDumpKind DEF Asked, Sent
  <2>4. m.piece \in Piece /\ m.last \in BOOLEAN
    BY <2>2, SentType
  <2> HIDE DEF m
  <2>5. Placed(registered, {}, {}, NextHandler(m, currentlyGetting), getAt)
    BY <1>0, <2>2, <2>4, PlacedNext DEF PlacedGet
  <2>6. PlacedGet'
    BY <2>1, <2>3, <2>5 DEF PlacedGet
  <2> QED BY <1>b, <2>1, <2>3, <2>6
<1>7. CASE HandleFcSave
  <2> DEFINE m == Head(inbox)
             n == NextHandler(m, currentlySaving)
  <2>1. Answered("save") /\ currentlySaving' = n
        /\ UNCHANGED <<registered, currentlyGetting, getAt, saveAt>>
    BY <1>7 DEF HandleFcSave, SaveUnchanged, handlerVars
  <2>2. m \in Sent("save") /\ m.piece \in Piece /\ m.last \in BOOLEAN
    <3>1. m \in Sent("save")
      BY <2>1, TakeOne
    <3> QED BY <3>1, SentType
  <2>3. Placed(registered, {}, {}, n, saveAt)
    <3> HIDE DEF m
    <3> QED BY <1>0, <2>2, PlacedNext DEF PlacedSave
  <2>4. CASE LastOfAll(m, currentlySaving)
    <3>1. Idle'
      BY <1>7, <2>4, SaveOne
    <3>2. \A d \in {"get", "save"} : Asked(d)' = {} /\ Sent(d)' = {}
      BY <3>1, NoDumpKind DEF Idle, Asked, Sent
    <3>3. PlacedSave'
      BY <2>1, <2>3, <3>2 DEF PlacedSave
    <3> QED BY <1>a, <2>1, <3>2, <3>3
  <2>5. CASE ~LastOfAll(m, currentlySaving)
    <3>1. /\ Asked("save")' = {registered[n + 1]} /\ Sent("save")' = {}
          /\ Asked("get")' = {} /\ Sent("get")' = {}
          /\ n < Len(registered)
      BY <1>7, <2>1, <2>5, SaveOne
    <3>2. Placed(registered, {registered[n + 1]}, {}, n, saveAt)
      <4> HIDE DEF n
      <4> QED BY <2>3, <3>1, PlacedAsk
    <3>3. PlacedSave'
      BY <2>1, <3>1, <3>2 DEF PlacedSave
    <3> QED BY <1>a, <2>1, <3>1, <3>3
  <2> QED BY <2>4, <2>5
<1> QED BY <1>1, <1>2, <1>3, <1>4, <1>5, <1>6, <1>7 DEF DumpStep

LEMMA DueGrows ==
    ASSUME TypeOK, UNCHANGED <<saved, setAddress>>, NEW p, DueToSave(p),
           registered' = registered \/ \E h \in Handlers : registered' = Append(registered, h)
    PROVE  DueToSave(p)'
<1>0. registered \in Seq(Handlers)
  BY Indices
<1>1. ASSUME NEW h \in Handlers, registered' = Append(registered, h)
      PROVE  DueToSave(p)'
  <2>1. registered # <<>> => registered' # <<>> /\ registered'[1] = registered[1]
    BY <1>0, <1>1, AppendNotEmpty
  <2> QED BY <1>0, <1>1, <2>1, FollowsGrows DEF DueToSave
<1> QED BY <1>1 DEF DueToSave

LEMMA CurrentStays ==
    ASSUME NEW p \in Piece, NEW v, Current(p, v),
           \A q \in Piece : value'[q] = value[q] \/ Holds(box[q[1]], "set"),
           \A g \in Handlers : Holds(box'[g], "set") => Holds(box[g], "set")
    PROVE  Current(p, v)'
BY PieceForm DEF Current

LEMMA NextSaving ==
    ASSUME TypeOK, ParserBetweenLoads, Known, OneAtATime, PlacedGet, PlacedSave, Saving,
           [Next]_vars, ~cut, ~cut', ~Restart, ~Wedged, ~Wedged'
    PROVE  Saving'
<1>0. /\ currentlyGetting \in Nat /\ (currentlyGetting < Len(registered) \/ currentlyGetting = 0)
      /\ currentlySaving \in Nat /\ (currentlySaving < Len(registered) \/ currentlySaving = 0)
      /\ registered \in Seq(Handlers) /\ saved \in Seq(Packet)
      /\ \A p \in Packet : p.piece \in Piece /\ p.value \in Values
  BY Indices DEF Packet
\* Nothing of a save before nor after.
<1>a. ASSUME setAddress' = 0, currentlySaving' = 0, \A h \in Handlers : saveAt'[h] = 0,
             Asked("save")' = {}, Sent("save")' = {}
      PROVE  Saving'
  BY <1>a DEF Saving
<1>1. CASE ~DumpStep
  <2>1. /\ Asked("save")' = Asked("save") /\ Sent("save")' = Sent("save")
        /\ Idle \/ \A g \in Handlers : Holds(box'[g], "set") => Holds(box[g], "set")
        /\ UNCHANGED <<saveAt, saved, setAddress, currentlySaving>>
        /\ registered' = registered \/ \E h \in Handlers : registered' = Append(registered, h)
        /\ \A p \in Piece : value'[p] = value[p] \/ Holds(box[p[1]], "set")
    BY <1>1, OtherStep, IdleSave
  <2>2. CASE Idle
    BY <1>a, <2>1, <2>2, IdleSave, IdleNone
  <2>3. CASE ~Idle
    <3>1. \A m \in Sent("save") : Current(m.piece, m.value)' /\ DueToSave(m.piece)'
      <4>1. ASSUME NEW m \in Sent("save")
            PROVE  Current(m.piece, m.value)' /\ DueToSave(m.piece)'
        <5>1. m.piece \in Piece /\ Current(m.piece, m.value) /\ DueToSave(m.piece)
          BY SentType DEF Saving
        <5> QED BY <2>1, <2>3, <5>1, CurrentStays, DueGrows
      <4> QED BY <4>1
    <3>2. \A h \in Asked("save") : DueToSave(<<h, saveAt[h] + 1>>)'
      BY <2>1, DueGrows DEF Saving
    <3>3. ASSUME setAddress # 0
          PROVE  /\ BeginsTreeOf(PiecesOf(saved), registered')
                 /\ \A i \in DOMAIN saved : Current(saved[i].piece, saved[i].value)'
      <4>1. BeginsTreeOf(PiecesOf(saved), registered')
        BY <1>0, <2>1, <3>3, BeginsGrows DEF Saving
      <4>2. \A i \in DOMAIN saved : Current(saved[i].piece, saved[i].value)'
        <5>1. ASSUME NEW i \in DOMAIN saved PROVE Current(saved[i].piece, saved[i].value)'
          <6>1. saved[i].piece \in Piece /\ Current(saved[i].piece, saved[i].value)
            BY <1>0, <3>3 DEF Saving
          <6> QED BY <2>1, <2>3, <6>1, CurrentStays
        <5> QED BY <5>1
      <4> QED BY <4>1, <4>2
    <3> QED BY <2>1, <3>1, <3>2, <3>3 DEF Saving
  <2> QED BY <2>2, <2>3
<1>2. CASE HandleGet
  <2>1. UNCHANGED <<currentlySaving, setAddress, saveAt>>
    BY <1>2 DEF HandleGet, StartDump, handlerVars
  <2>2. Idle /\ Asked("save")' = {} /\ Sent("save")' = {}
    BY <1>0, <1>2, StartOne DEF HandleGet, Wedged
  <2> QED BY <1>a, <2>1, <2>2, IdleSave
<1>3. CASE HandleSave
  <2>1. UNCHANGED <<registered, currentlySaving, setAddress, saveAt>>
    BY <1>3 DEF HandleSave, StartDump, handlerVars
  <2>2. /\ Idle /\ registered # <<>>
        /\ Asked("save")' = {registered[currentlySaving + 1]} /\ Sent("save")' = {}
    BY <1>0, <1>3, StartOne DEF HandleSave, Wedged
  <2>3. setAddress = 0 /\ currentlySaving = 0 /\ \A h \in Handlers : saveAt[h] = 0
    BY <2>2, IdleSave
  <2>4. Asked("save")' = {registered[1]} /\ registered[1] \in Handlers
    BY <1>0, <2>2, <2>3
  <2>5. DueToSave(<<registered[1], saveAt[registered[1]] + 1>>)'
    BY <2>1, <2>2, <2>3, <2>4 DEF DueToSave
  <2> QED BY <2>1, <2>2, <2>3, <2>4, <2>5 DEF Saving
<1>4. ASSUME NEW h \in Handlers, PhGet(h)
      PROVE  Saving'
  <2>1. UNCHANGED <<currentlySaving, setAddress, saveAt>> /\ PhDump(h, "get", getAt)
    BY <1>4 DEF PhGet, PhDump, HandlerUnchanged, masterVars
  <2>2. /\ Asked("save") = {} /\ Sent("save") = {}
        /\ Asked("save")' = {} /\ Sent("save")' = {}
    BY <2>1, DumpOne
  <2> QED BY <1>a, <2>1, <2>2 DEF Saving
<1>5. ASSUME NEW h \in Handlers, PhSave(h)
      PROVE  Saving'
  <2> DEFINE at == PieceAt(h, saveAt)
             an == Dump("save", at, value[at], saveAt[h] + 1 = Pieces[h])
  <2>1. /\ UNCHANGED <<registered, currentlySaving, setAddress, saved, value>>
        /\ PhDump(h, "save", saveAt)
    BY <1>5 DEF PhSave, PhDump, HandlerUnchanged, masterVars, memoryVars
  <2>2. /\ Asked("save") = {h} /\ Asked("save")' = {} /\ Sent("save")' = {an}
        /\ box'[h] = <<>> /\ \A g \in Handlers \ {h} : box'[g] = box[g]
    BY <2>1, DumpOne
  <2>3. PICK p, m : p = <<h, saveAt[h] + 1>> /\ m = an
    OBVIOUS
  <2>4. m.piece = p /\ m.value = value[p] /\ p[1] = h
    BY <2>3 DEF Dump, PieceAt
  <2>5. DueToSave(p)'
    <3>1. DueToSave(p)
      BY <2>2, <2>3 DEF Saving
    <3> QED BY <2>1, <3>1 DEF DueToSave
  <2>6. \A g \in Handlers : Holds(box'[g], "set") => Holds(box[g], "set")
    BY <2>2, EmptyHolds
  <2>7. Current(m.piece, m.value)'
    BY <2>1, <2>2, <2>4, EmptyHolds DEF Current
  <2>8. ASSUME setAddress # 0
        PROVE  /\ BeginsTreeOf(PiecesOf(saved), registered)
               /\ \A i \in DOMAIN saved : Current(saved[i].piece, saved[i].value)'
    <3>1. ASSUME NEW i \in DOMAIN saved PROVE Current(saved[i].piece, saved[i].value)'
      <4>1. saved[i].piece \in Piece /\ Current(saved[i].piece, saved[i].value)
        BY <1>0, <2>8 DEF Saving
      <4> QED BY <2>1, <2>6, <4>1, CurrentStays
    <3> QED BY <2>8, <3>1 DEF Saving
  <2>9. Sent("save")' = {m}
    BY <2>2, <2>3
  <2> HIDE DEF at, an
  <2> QED BY <2>1, <2>2, <2>4, <2>5, <2>7, <2>8, <2>9 DEF Saving
<1>6. CASE HandleFcGet
  <2>1. Answered("get") /\ UNCHANGED <<box, currentlySaving, setAddress, saveAt>>
    BY <1>6 DEF HandleFcGet, handlerVars
  <2>2. /\ ~HasDump(inbox') /\ (\A h \in Handlers : ~HasDump(box'[h]))
        /\ Asked("save") = {} /\ Sent("save") = {}
    BY <2>1, TakeOne
  <2>3. Asked("save")' = {} /\ Sent("save")' = {}
    BY <2>2, NoDumpKind DEF Asked, Sent
  <2> QED BY <1>a, <2>1, <2>2, <2>3 DEF Saving
<1>7. CASE HandleFcSave
  <2> DEFINE m == Head(inbox)
             n == NextHandler(m, currentlySaving)
  <2>1. Answered("save") /\ currentlySaving' = n /\ UNCHANGED <<registered, saveAt, value>>
    BY <1>7 DEF HandleFcSave, SaveUnchanged, handlerVars
  <2>2. /\ m \in Sent("save") /\ m.piece \in Piece
        /\ BeginsTreeOf(PiecesOf(saved'), registered)
        /\ saved' \in Seq(Packet)
        /\ saved'[Len(saved')].piece = m.piece
        /\ \A i \in DOMAIN saved' : Current(saved'[i].piece, saved'[i].value)
    BY <1>7, SaveGoesOn
  <2>3. m.last \in BOOLEAN /\ m.value \in Values
    BY <2>2, SentType
  <2>4. CASE LastOfAll(m, currentlySaving)
    <3>1. Idle' /\ setAddress' = 0
      BY <1>7, <2>4, SaveOne DEF HandleFcSave
    <3>2. Asked("save")' = {} /\ Sent("save")' = {}
      BY <3>1, NoDumpKind DEF Idle, Asked, Sent
    <3>3. n = 0 /\ \A h \in Handlers : saveAt[h] = 0
      <4> HIDE DEF m
      <4> QED BY <1>0, <2>2, <2>3, <2>4, PlacedNext DEF PlacedSave
    <3> QED BY <1>a, <2>1, <3>1, <3>2, <3>3
  <2>5. CASE ~LastOfAll(m, currentlySaving)
    <3>1. /\ Asked("save")' = {registered[n + 1]} /\ Sent("save")' = {}
          /\ \A g \in Handlers : Holds(box'[g], "set") => Holds(box[g], "set")
      BY <1>7, <2>1, <2>5, SaveOne
    <3>2. setAddress' # 0
      <4>1. setAddress' = NextAddress(m)
        BY <1>7, <2>5 DEF HandleFcSave
      <4>2. Size[m.value] \in Nat /\ setAddress \in Nat
        BY <2>3, Constants, Indices
      <4> QED BY <4>1, <4>2 DEF NextAddress
    <3>3. PICK p : p = <<registered[n + 1], saveAt[registered[n + 1]] + 1>>
      OBVIOUS
    <3>4. Follows(m.piece, p, registered)
      <4> HIDE DEF m
      <4> QED BY <1>0, <2>2, <2>3, <2>5, <3>3, PlacedNext DEF PlacedSave
    <3>5. DueToSave(p)'
      BY <2>1, <2>2, <3>2, <3>4 DEF DueToSave
    <3>6. (\A i \in DOMAIN saved : Current(saved[i].piece, saved[i].value))'
      <4> SUFFICES ASSUME NEW i \in DOMAIN saved'
                   PROVE  /\ value'[saved'[i].piece] = saved'[i].value
                          /\ ~Holds(box'[saved'[i].piece[1]], "set")
        BY DEF Current
      <4>1. saved'[i].piece \in Piece /\ Current(saved'[i].piece, saved'[i].value)
        BY <1>0, <2>2
      <4> QED BY <2>1, <3>1, <4>1, PieceForm DEF Current
    <3>7. PICK h : h = registered[n + 1]
      OBVIOUS
    <3>8. Asked("save")' = {h} /\ p = <<h, saveAt'[h] + 1>>
      BY <2>1, <3>1, <3>3, <3>7
    <3>9. BeginsTreeOf(PiecesOf(saved), registered)'
      BY <2>1, <2>2
    <3> HIDE DEF m, n
    <3> QED BY <3>1, <3>2, <3>5, <3>6, <3>8, <3>9 DEF Saving
  <2> QED BY <2>4, <2>5
<1> QED BY <1>1, <1>2, <1>3, <1>4, <1>5, <1>6, <1>7 DEF DumpStep

-----------------------------------------------------------------------------
(* The get.                                                                *)

\* No handler registers twice.
Registered == \A i, j \in DOMAIN registered : registered[i] = registered[j] => i = j

\* The packets to the ground station are numbered, and go on from piece to piece.
SeqAfter(m) == IF m.last THEN 0 ELSE m.seq + 1
InTurn(seq, prev, p) == IF seq = 0 THEN registered # <<>> /\ p = <<registered[1], 1>>
                        ELSE Follows(prev, p, registered)

\* The last piece that was sent, taken or not, and the number after it.
LastPiece == IF toGs = <<>> THEN gsTree[Len(gsTree)] ELSE toGs[Len(toGs)].piece
SeqToGet  == IF toGs = <<>> THEN gsSeq ELSE SeqAfter(toGs[Len(toGs)])

\* The piece that is to be dumped next.
NextPiece == <<registered[currentlyGetting + 1], getAt[registered[currentlyGetting + 1]] + 1>>

Getting ==
    /\ \A m \in Sent("get") : InTurn(sequenceGet, LastPiece, m.piece)
    /\ Sent("get") = {} /\ registered # <<>> => InTurn(sequenceGet, LastPiece, NextPiece)

\* What is on its way to the ground station.
OnTheWay ==
    /\ sequenceGet = SeqToGet
    /\ toGs # <<>> => toGs[1].seq = gsSeq /\ InTurn(gsSeq, gsTree[Len(gsTree)], toGs[1].piece)
    /\ \A i \in 1 .. Len(toGs) - 1 :
          /\ toGs[i + 1].seq = SeqAfter(toGs[i])
          /\ InTurn(toGs[i + 1].seq, toGs[i].piece, toGs[i + 1].piece)
    /\ \A i \in DOMAIN toGs : toGs[i].last => toGs[i].piece[2] = Pieces[toGs[i].piece[1]]

\* What it has got: the pieces of the first n handlers, of the last of them perhaps
\* not all.
GotSoFar(n) ==
    /\ gsTree[Len(gsTree)][1] = registered[n]
    /\ BeginsTreeOf(gsTree, SubSeq(registered, 1, n))
    /\ gsSeq = 0 => gsTree[Len(gsTree)][2] = Pieces[registered[n]]

Got == /\ gsSeq # 0 => gsTree # <<>>
       /\ gsTree # <<>> => \E n \in 1 .. Len(registered) : GotSoFar(n)

LEMMA SubSeqAt ==
    ASSUME NEW S, NEW q \in Seq(S), NEW n \in 0 .. Len(q)
    PROVE  /\ SubSeq(q, 1, n) \in Seq(S) /\ Len(SubSeq(q, 1, n)) = n
           /\ DOMAIN SubSeq(q, 1, n) = 1 .. n
           /\ \A i \in 1 .. n : SubSeq(q, 1, n)[i] = q[i]
OBVIOUS

LEMMA SubSeqOfAppend ==
    ASSUME NEW S, NEW q \in Seq(S), NEW x \in S, NEW n \in 0 .. Len(q)
    PROVE  SubSeq(Append(q, x), 1, n) = SubSeq(q, 1, n)
OBVIOUS

LEMMA SubSeqGrows ==
    ASSUME NEW S, NEW q \in Seq(S), NEW n \in 0 .. Len(q) - 1
    PROVE  SubSeq(q, 1, n + 1) = Append(SubSeq(q, 1, n), q[n + 1])
OBVIOUS

LEMMA GsTypes ==
    ASSUME TypeOK
    PROVE  /\ toGs \in Seq([piece : Piece, seq : Nat, last : BOOLEAN])
           /\ \A i \in DOMAIN toGs : /\ toGs[i].piece \in Piece /\ toGs[i].seq \in Nat
                                     /\ toGs[i].last \in BOOLEAN
           /\ gsSeq \in Nat /\ gsTree \in Seq(Piece)
<1> DEFINE T == [piece : Piece, seq : Nat, last : BOOLEAN]
<1>1. toGs \in Seq(T)
  BY DEF TypeOK, QueuesOK
<1>2. \A i \in DOMAIN toGs : toGs[i] \in T
  <2> HIDE DEF T
  <2> QED BY <1>1
<1> QED BY <1>1, <1>2 DEF TypeOK, GsOK

LEMMA NextRegistered ==
    ASSUME TypeOK, Registered, [Next]_vars
    PROVE  Registered'
<1>1. CASE Restart
  BY <1>1 DEF Restart, Registered
<1>2. ASSUME NEW h \in Handlers, HandleHasParam(h) PROVE Registered'
  <2>1. registered' = Append(registered, h) /\ h \notin ToSet(registered)
    BY <1>2 DEF HandleHasParam
  <2>2. /\ Len(registered) \in Nat /\ DOMAIN registered = 1 .. Len(registered)
        /\ DOMAIN registered' = 1 .. Len(registered) + 1
        /\ registered'[Len(registered) + 1] = h
        /\ \A i \in 1 .. Len(registered) : registered'[i] = registered[i]
    BY <2>1, Indices, AppendAt
  <2>3. \A i \in 1 .. Len(registered) : registered[i] # h
    BY <2>1, <2>2 DEF ToSet
  <2>4. \A i \in 1 .. Len(registered) + 1 : i \in 1 .. Len(registered) \/ i = Len(registered) + 1
    BY <2>2
  <2> QED BY <2>2, <2>3, <2>4 DEF Registered
<1>3. CASE UNCHANGED registered
  BY <1>3 DEF Registered
<1>4. ~Restart /\ (\A h \in Handlers : ~HandleHasParam(h)) => UNCHANGED registered
  BY DEF Next, Tasks, Master, Loader, Answers, Handler, Gs, Faults, vars,
       HandleRefused, HandleParamSet, HandleLoad, HandleGet, HandleSave, StartDump,
       LoadMore, LoadPacket, LoadFails, LoadUnchanged, HandleFcSet, HandleFcGet,
       HandleFcSave, HandleFcSaveFull, SaveUnchanged, PhSet, PhGet, PhSave, PhDump,
       HandlerUnchanged, GsProcess, GsSends, GsUnchanged, GsWrite, GsSave, GsLoad, GsRequest,
       GsCommand, PowerLoss, PowerLossInWrite, Lose, HandleFcSaveFails
<1> QED BY <1>1, <1>2, <1>3, <1>4

LEMMA InTurnGrows ==
    ASSUME TypeOK, NEW h \in Handlers, registered' = Append(registered, h),
           NEW seq, NEW prev, NEW p, InTurn(seq, prev, p)
    PROVE  InTurn(seq, prev, p)'
<1>0. registered \in Seq(Handlers)
  BY Indices
<1>1. registered # <<>> => registered' # <<>> /\ registered'[1] = registered[1]
  BY <1>0, AppendNotEmpty
<1> QED BY <1>0, <1>1, FollowsGrows DEF InTurn

\* With no handler known nothing was sent.
LEMMA NothingGot ==
    ASSUME TypeOK, OnTheWay, Got, registered = <<>>
    PROVE  toGs = <<>> /\ gsSeq = 0 /\ gsTree = <<>> /\ sequenceGet = 0
<1>1. Len(registered) = 0 /\ 1 .. Len(registered) = {}
  OBVIOUS
<1>2. gsTree = <<>> /\ gsSeq = 0
  BY <1>1 DEF Got
<1>3. toGs = <<>>
  BY <1>2 DEF OnTheWay, InTurn
<1> QED BY <1>2, <1>3 DEF OnTheWay, SeqToGet

\* A handler more: what was in turn stays so.
LEMMA HasParamGot ==
    ASSUME TypeOK, OnTheWay, Got, NEW h \in Handlers, HandleHasParam(h)
    PROVE  /\ OnTheWay' /\ Got'
           /\ PlacedGet /\ Getting => Getting'
<1>0. /\ registered' = Append(registered, h) /\ registered \in Seq(Handlers)
      /\ UNCHANGED <<toGs, gsSeq, gsTree, sequenceGet, currentlyGetting, getAt, inbox>>
  BY Indices DEF HandleHasParam, masterVars, handlerVars, gsVars
<1>a. /\ Len(registered) \in Nat /\ Len(registered') = Len(registered) + 1
      /\ DOMAIN registered = 1 .. Len(registered)
      /\ \A i \in 1 .. Len(registered) : registered'[i] = registered[i]
      /\ registered'[Len(registered) + 1] = h
  BY <1>0, AppendAt
<1>1. OnTheWay'
  <2>1. sequenceGet' = SeqToGet'
    BY <1>0 DEF OnTheWay, SeqToGet
  <2>2. toGs # <<>> => toGs[1].seq = gsSeq /\ InTurn(gsSeq, gsTree[Len(gsTree)], toGs[1].piece)'
    <3>1. PICK seq, prev, p : seq = gsSeq /\ prev = gsTree[Len(gsTree)] /\ p = toGs[1].piece
      OBVIOUS
    <3>2. toGs # <<>> => InTurn(seq, prev, p)'
      BY <1>0, <3>1, InTurnGrows DEF OnTheWay
    <3> QED BY <1>0, <3>1, <3>2 DEF OnTheWay
  <2>3. ASSUME NEW i \in 1 .. Len(toGs) - 1
        PROVE  /\ toGs[i + 1].seq = SeqAfter(toGs[i])
               /\ InTurn(toGs[i + 1].seq, toGs[i].piece, toGs[i + 1].piece)'
    <3>1. PICK seq, prev, p : seq = toGs[i + 1].seq /\ prev = toGs[i].piece /\ p = toGs[i + 1].piece
      OBVIOUS
    <3>2. InTurn(seq, prev, p)'
      BY <1>0, <3>1, InTurnGrows DEF OnTheWay
    <3> QED BY <1>0, <3>1, <3>2 DEF OnTheWay
  <2> QED BY <1>0, <2>1, <2>2, <2>3 DEF OnTheWay
<1>2. Got'
  <2>1. ASSUME gsTree # <<>> PROVE \E n \in 1 .. Len(registered') : GotSoFar(n)'
    <3>1. PICK n \in 1 .. Len(registered) : GotSoFar(n)
      BY <2>1 DEF Got
    <3>2. n \in 1 .. Len(registered') /\ registered'[n] = registered[n] /\ n \in 0 .. Len(registered)
      BY <1>a
    <3>3. SubSeq(registered', 1, n) = SubSeq(registered, 1, n)
      BY <1>0, <3>2, SubSeqOfAppend
    <3>4. GotSoFar(n)'
      BY <1>0, <3>1, <3>2, <3>3 DEF GotSoFar
    <3> QED BY <3>2, <3>4
  <2> QED BY <1>0, <2>1 DEF Got
<1>3. ASSUME PlacedGet, Getting PROVE Getting'
  <2>0. Sent("get")' = Sent("get") /\ LastPiece' = LastPiece
    BY <1>0 DEF Sent, LastPiece
  <2>1. PICK seq, prev : seq = sequenceGet /\ prev = LastPiece
    OBVIOUS
  <2>2. \A m \in Sent("get") : InTurn(seq, prev, m.piece)'
    BY <1>0, <1>3, <2>1, InTurnGrows DEF Getting
  <2>3. ASSUME Sent("get") = {}, NEW p, p = NextPiece'
        PROVE  InTurn(seq, prev, p)'
    <3>1. CASE registered = <<>>
      <4>1. registered'[1] = h /\ Len(registered) = 0
        BY <1>a, <3>1
      <4>2. currentlyGetting = 0
        BY <4>1, Indices
      <4>3. getAt[h] = 0
        BY <1>3, <4>1, <4>2 DEF PlacedGet, Placed
      <4>4. NextPiece' = <<registered'[1], 1>>
        BY <1>0, <4>1, <4>2, <4>3 DEF NextPiece
      <4>5. sequenceGet = 0
        BY <3>1, NothingGot
      <4>6. registered' # <<>>
        BY <1>0, AppendNotEmpty
      <4> QED BY <2>1, <2>3, <4>4, <4>5, <4>6 DEF InTurn
    <3>2. CASE registered # <<>>
      <4>1. currentlyGetting < Len(registered) /\ currentlyGetting \in Nat
        BY <1>0, <3>2, Indices
      <4>2. registered'[currentlyGetting + 1] = registered[currentlyGetting + 1]
        BY <1>a, <4>1
      <4>3. NextPiece' = NextPiece
        BY <1>0, <4>2 DEF NextPiece
      <4>4. InTurn(seq, prev, p)
        BY <1>3, <2>1, <2>3, <3>2, <4>3 DEF Getting
      <4> QED BY <1>0, <4>4, InTurnGrows
    <3> QED BY <3>1, <3>2
  <2>4. seq = sequenceGet' /\ prev = LastPiece'
    BY <1>0, <2>0, <2>1
  <2>5. \A p : InTurn(seq, prev, p)' => InTurn(sequenceGet, LastPiece, p)'
    BY <2>4 DEF InTurn
  <2>6. (\A m \in Sent("get") : InTurn(sequenceGet, LastPiece, m.piece))'
    BY <2>0, <2>2, <2>5
  <2>7. (Sent("get") = {} /\ registered # <<>> => InTurn(sequenceGet, LastPiece, NextPiece))'
    BY <2>0, <2>3, <2>4 DEF InTurn
  <2> QED BY <2>6, <2>7 DEF Getting
<1> QED BY <1>1, <1>2, <1>3

\* The master sends a piece on.
LEMMA FcGetGot ==
    ASSUME TypeOK, OneAtATime, PlacedGet, Getting, OnTheWay, Got, HandleFcGet
    PROVE  OnTheWay' /\ Got' /\ Getting'
<1> DEFINE m   == Head(inbox)
           pkt == [piece |-> m.piece, seq |-> sequenceGet, last |-> LastOfAll(m, currentlyGetting)]
           n   == NextHandler(m, currentlyGetting)
<1>0. /\ toGs' = Append(toGs, pkt) /\ Answered("get") /\ currentlyGetting' = n
      /\ sequenceGet' = IF LastOfAll(m, currentlyGetting) THEN 0 ELSE sequenceGet + 1
      /\ UNCHANGED <<registered, gsSeq, gsTree, getAt>>
  BY DEF HandleFcGet, handlerVars, gsVars
<1>1. m \in Sent("get") /\ m.piece \in Piece /\ m.last \in BOOLEAN /\ ~HasDump(inbox')
  <2>1. m \in Sent("get") /\ ~HasDump(inbox')
    BY <1>0, TakeOne
  <2> QED BY <2>1, SentType
<1>2. InTurn(sequenceGet, LastPiece, m.piece)
  BY <1>1 DEF Getting
<1>3. /\ LastOfAll(m, currentlyGetting) =>
            /\ n = 0 /\ registered # <<>> /\ \A h \in Handlers : getAt[h] = 0
            /\ m.piece = <<registered[Len(registered)], Pieces[registered[Len(registered)]]>>
      /\ ~LastOfAll(m, currentlyGetting) =>
            Follows(m.piece, <<registered[n + 1], getAt[registered[n + 1]] + 1>>, registered)
  <2> HIDE DEF m
  <2> QED BY <1>1, Indices, PlacedNext DEF PlacedGet
<1>4. /\ pkt.piece = m.piece /\ pkt.seq = sequenceGet /\ pkt.last = LastOfAll(m, currentlyGetting)
      /\ SeqAfter(pkt) = sequenceGet'
  BY <1>0 DEF SeqAfter
<1>5. /\ Len(toGs) \in Nat /\ DOMAIN toGs = 1 .. Len(toGs)
      /\ DOMAIN toGs' = 1 .. Len(toGs) + 1 /\ Len(toGs') = Len(toGs) + 1
      /\ toGs'[Len(toGs) + 1] = pkt /\ \A i \in 1 .. Len(toGs) : toGs'[i] = toGs[i]
      /\ toGs' # <<>>
  <2> HIDE DEF pkt
  <2> QED BY SMTT(30), <1>0, GsTypes, AppendAt, AppendNotEmpty
<1>6. sequenceGet' = SeqToGet' /\ LastPiece' = m.piece
  BY <1>4, <1>5 DEF SeqToGet, LastPiece, SeqAfter
<1> HIDE DEF pkt
<1>7. OnTheWay'
  <2>1. toGs'[1].seq = gsSeq /\ InTurn(gsSeq, gsTree[Len(gsTree)], toGs'[1].piece)
    <3>1. CASE toGs = <<>>
      <4>1. toGs'[1] = pkt
        BY <1>5, <3>1
      <4>2. sequenceGet = gsSeq /\ LastPiece = gsTree[Len(gsTree)]
        BY <3>1 DEF OnTheWay, SeqToGet, LastPiece
      <4> QED BY <1>2, <1>4, <4>1, <4>2
    <3>2. CASE toGs # <<>>
      <4>1. 1 \in 1 .. Len(toGs)
        BY <3>2, GsTypes
      <4> QED BY <1>5, <3>2, <4>1 DEF OnTheWay
    <3> QED BY <3>1, <3>2
  <2>2. ASSUME NEW i \in 1 .. Len(toGs') - 1
        PROVE  /\ toGs'[i + 1].seq = SeqAfter(toGs'[i])
               /\ InTurn(toGs'[i + 1].seq, toGs'[i].piece, toGs'[i + 1].piece)
    <3>1. i \in 1 .. Len(toGs) /\ toGs'[i] = toGs[i]
      BY <1>5
    <3>2. CASE i = Len(toGs)
      <4>1. toGs # <<>>
        BY <3>1
      <4>2. sequenceGet = SeqAfter(toGs[i]) /\ LastPiece = toGs[i].piece
        BY <3>2, <4>1 DEF OnTheWay, SeqToGet, LastPiece
      <4> QED BY <1>2, <1>4, <1>5, <3>1, <3>2, <4>2
    <3>3. CASE i # Len(toGs)
      <4>0. Len(toGs) \in Nat /\ i \in 1 .. Len(toGs)
        BY <1>5, <3>1
      <4>1. i \in 1 .. Len(toGs) - 1 /\ i + 1 \in 1 .. Len(toGs)
        BY <4>0, <3>3
      <4> QED BY <1>5, <3>1, <4>1 DEF OnTheWay
    <3> QED BY <3>2, <3>3
  <2>3. ASSUME NEW i \in DOMAIN toGs', toGs'[i].last
        PROVE  toGs'[i].piece[2] = Pieces[toGs'[i].piece[1]]
    <3>1. CASE i \in 1 .. Len(toGs)
      BY <1>5, <2>3, <3>1 DEF OnTheWay
    <3>2. CASE i = Len(toGs) + 1
      BY <1>3, <1>4, <1>5, <2>3, <3>2
    <3>3. i \in 1 .. Len(toGs) \/ i = Len(toGs) + 1
      BY <1>5
    <3> QED BY <3>1, <3>2, <3>3
  <2>4. \A seq, prev, p : InTurn(seq, prev, p) => InTurn(seq, prev, p)'
    BY <1>0 DEF InTurn
  <2>5. (toGs # <<>> => toGs[1].seq = gsSeq /\ InTurn(gsSeq, gsTree[Len(gsTree)], toGs[1].piece))'
    BY <1>0, <2>1 DEF InTurn
  <2>6. (\A i \in 1 .. Len(toGs) - 1 :
           /\ toGs[i + 1].seq = SeqAfter(toGs[i])
           /\ InTurn(toGs[i + 1].seq, toGs[i].piece, toGs[i + 1].piece))'
    BY <1>0, <2>2 DEF InTurn, SeqAfter
  <2> QED BY <1>6, <2>3, <2>5, <2>6 DEF OnTheWay
<1>8. Got'
  BY <1>0 DEF Got, GotSoFar
<1>9. Getting'
  <2>1. Sent("get")' = {}
    BY <1>1, NoDumpKind DEF Sent
  <2>2. InTurn(sequenceGet, LastPiece, NextPiece)'
    <3>1. NextPiece' = <<registered[n + 1], getAt[registered[n + 1]] + 1>>
      BY <1>0 DEF NextPiece
    <3>2. CASE LastOfAll(m, currentlyGetting)
      <4>1. registered[1] \in Handlers
        BY <1>3, <3>2, Indices
      <4>2. NextPiece' = <<registered[1], 1>>
        BY <1>3, <3>1, <3>2, <4>1
      <4> QED BY <1>0, <1>3, <3>2, <4>2 DEF InTurn
    <3>3. CASE ~LastOfAll(m, currentlyGetting)
      <4>1. sequenceGet' # 0
        BY <1>0, <3>3, Indices
      <4>2. Follows(LastPiece', NextPiece', registered')
        BY <1>0, <1>3, <1>6, <3>1, <3>3
      <4> QED BY <4>1, <4>2 DEF InTurn
    <3> QED BY <3>2, <3>3
  <2> QED BY <2>1, <2>2 DEF Getting
<1> QED BY <1>7, <1>8, <1>9

\* The ground station takes a packet.
LEMMA ProcessGot ==
    ASSUME TypeOK, Registered, OnTheWay, Got, GsProcess
    PROVE  OnTheWay' /\ Got' /\ LastPiece' = LastPiece
<1> DEFINE m == Head(toGs)
<1>0. /\ toGs # <<>> /\ toGs' = Tail(toGs) /\ gsSeq' = SequenceAfter(m)
      /\ gsTree' = IF m.seq # gsSeq THEN <<>>
                   ELSE IF gsSeq = 0 THEN <<m.piece>> ELSE Append(gsTree, m.piece)
      /\ UNCHANGED <<registered, sequenceGet>>
  BY DEF GsProcess, GsSends, GsUnchanged, masterVars
<1>1. /\ Len(toGs) \in Nat \ {0} /\ DOMAIN toGs = 1 .. Len(toGs)
      /\ DOMAIN toGs' = 1 .. Len(toGs) - 1 /\ Len(toGs') = Len(toGs) - 1
      /\ m = toGs[1] /\ \A i \in 1 .. Len(toGs) - 1 : toGs'[i] = toGs[i + 1]
      /\ 1 \in 1 .. Len(toGs)
      /\ toGs' \in Seq([piece : Piece, seq : Nat, last : BOOLEAN])
  <2> DEFINE T == [piece : Piece, seq : Nat, last : BOOLEAN]
  <2>1. toGs \in Seq(T)
    BY GsTypes
  <2> HIDE DEF T
  <2>2. toGs' \in Seq(T)
    BY <1>0, <2>1
  <2>3. /\ Len(toGs) \in Nat \ {0} /\ DOMAIN toGs = 1 .. Len(toGs)
        /\ DOMAIN toGs' = 1 .. Len(toGs) - 1 /\ Len(toGs') = Len(toGs) - 1
        /\ m = toGs[1] /\ \A i \in 1 .. Len(toGs) - 1 : toGs'[i] = toGs[i + 1]
    BY <1>0, <2>1, TailAt
  <2>4. 1 \in 1 .. Len(toGs)
    BY <2>3
  <2> QED BY <2>2, <2>3, <2>4 DEF T
<1>2. /\ m.piece \in Piece /\ m.seq \in Nat /\ m.last \in BOOLEAN
      /\ gsSeq \in Nat /\ gsTree \in Seq(Piece)
  BY <1>1, GsTypes
<1>3. m.seq = gsSeq /\ InTurn(gsSeq, gsTree[Len(gsTree)], m.piece)
  BY <1>0, <1>1 DEF OnTheWay
<1>4. /\ gsSeq' = SeqAfter(m)
      /\ gsTree' = IF gsSeq = 0 THEN <<m.piece>> ELSE Append(gsTree, m.piece)
  BY <1>0, <1>3 DEF SequenceAfter, SeqAfter
<1>5. gsTree' # <<>> /\ gsTree'[Len(gsTree')] = m.piece
  <2>1. CASE gsSeq = 0
    <3>1. gsTree' = <<m.piece>>
      BY <1>4, <2>1
    <3> HIDE DEF m
    <3> QED BY <3>1
  <2>2. CASE gsSeq # 0
    <3>1. gsTree' = Append(gsTree, m.piece)
      BY <1>4, <2>2
    <3> HIDE DEF m
    <3> QED BY <1>2, <3>1, AppendAt, AppendNotEmpty
  <2> QED BY <2>1, <2>2
<1>6. LastPiece' = LastPiece /\ SeqToGet' = SeqToGet
  <2>1. CASE Len(toGs) = 1
    <3>1. toGs' = <<>>
      BY <1>1, <2>1
    <3>2. toGs[Len(toGs)] = m
      BY <1>1, <2>1
    <3> QED BY <1>0, <1>4, <1>5, <3>1, <3>2 DEF LastPiece, SeqToGet
  <2>2. CASE Len(toGs) # 1
    <3>1. Len(toGs) - 1 \in 1 .. Len(toGs) - 1 /\ (Len(toGs) - 1) + 1 = Len(toGs)
      BY <1>1, <2>2
    <3>2. toGs'[Len(toGs')] = toGs[Len(toGs)]
      BY <1>1, <3>1
    <3>3. toGs' # <<>>
      BY <1>1, <3>1
    <3> QED BY <1>0, <3>2, <3>3 DEF LastPiece, SeqToGet, SeqAfter
  <2> QED BY <2>1, <2>2
<1>7. OnTheWay'
  <2>1. ASSUME toGs' # <<>>
        PROVE  toGs'[1].seq = gsSeq' /\ InTurn(gsSeq', gsTree'[Len(gsTree')], toGs'[1].piece)
    <3>1. Len(toGs') # 0
      BY <1>1, <2>1
    <3>2. 1 \in 1 .. Len(toGs) - 1
      BY <1>1, <3>1
    <3>3. /\ toGs[1 + 1].seq = SeqAfter(toGs[1])
          /\ InTurn(toGs[1 + 1].seq, toGs[1].piece, toGs[1 + 1].piece)
      BY <3>2 DEF OnTheWay
    <3> QED BY <1>1, <1>4, <1>5, <3>2, <3>3
  <2>2. ASSUME NEW i \in 1 .. Len(toGs') - 1
        PROVE  /\ toGs'[i + 1].seq = SeqAfter(toGs'[i])
               /\ InTurn(toGs'[i + 1].seq, toGs'[i].piece, toGs'[i + 1].piece)
    <3>1. /\ i \in 1 .. Len(toGs) - 1 /\ i + 1 \in 1 .. Len(toGs) - 1
      BY <1>1
    <3> QED BY <1>1, <3>1 DEF OnTheWay
  <2>3. ASSUME NEW i \in DOMAIN toGs', toGs'[i].last
        PROVE  toGs'[i].piece[2] = Pieces[toGs'[i].piece[1]]
    <3>1. i \in 1 .. Len(toGs) - 1 /\ i + 1 \in 1 .. Len(toGs)
      BY <1>1
    <3> QED BY <1>1, <2>3, <3>1 DEF OnTheWay
  <2>4. (toGs # <<>> => toGs[1].seq = gsSeq /\ InTurn(gsSeq, gsTree[Len(gsTree)], toGs[1].piece))'
    BY <1>0, <2>1 DEF InTurn
  <2>5. (\A i \in 1 .. Len(toGs) - 1 :
           /\ toGs[i + 1].seq = SeqAfter(toGs[i])
           /\ InTurn(toGs[i + 1].seq, toGs[i].piece, toGs[i + 1].piece))'
    BY <1>0, <2>2 DEF InTurn, SeqAfter
  <2>6. sequenceGet' = SeqToGet'
    BY <1>0, <1>6 DEF OnTheWay
  <2> QED BY <2>3, <2>4, <2>5, <2>6 DEF OnTheWay
<1>8. Got'
  <2>0. registered \in Seq(Handlers) /\ Len(registered) \in Nat
    BY Indices
  <2>1. gsSeq' = 0 => m.piece[2] = Pieces[m.piece[1]]
    <3>1. gsSeq' = 0 => m.last
      BY <1>2, <1>3, <1>4 DEF SeqAfter
    <3> QED BY <1>1, <3>1 DEF OnTheWay
  <2>2. CASE gsSeq = 0
    <3>1. registered # <<>> /\ m.piece = <<registered[1], 1>> /\ gsTree' = <<m.piece>>
      BY <1>3, <1>4, <2>2 DEF InTurn
    <3>2. 1 \in 1 .. Len(registered)
      BY <2>0, <3>1
    <3>3. SubSeq(registered, 1, 1) # <<>> /\ SubSeq(registered, 1, 1)[1] = registered[1]
      <4>1. 1 \in 0 .. Len(registered)
        BY <3>2
      <4>2. PICK r : r = SubSeq(registered, 1, 1)
        OBVIOUS
      <4>3. Len(r) = 1 /\ r[1] = registered[1]
        BY <2>0, <4>1, <4>2, SubSeqAt
      <4>4. r # <<>>
        BY <4>3
      <4> QED BY <4>2, <4>3, <4>4
    <3>4. BeginsTreeOf(gsTree', SubSeq(registered, 1, 1))
      BY <3>1, <3>3, BeginsFirst
    <3>5. GotSoFar(1)'
      BY <1>0, <1>5, <2>1, <3>1, <3>4 DEF GotSoFar
    <3> QED BY <1>0, <1>5, <3>2, <3>5 DEF Got
  <2>3. CASE gsSeq # 0
    <3>1. gsTree # <<>> /\ gsTree' = Append(gsTree, m.piece)
      BY <1>4, <2>3 DEF Got
    <3>2. PICK n \in 1 .. Len(registered) : GotSoFar(n)
      BY <3>1 DEF Got
    <3> DEFINE p == gsTree[Len(gsTree)]
               q == m.piece
    <3>3. Follows(p, q, registered) /\ p[1] = registered[n]
      BY <1>3, <2>3, <3>2 DEF InTurn, GotSoFar
    <3>4. n \in 0 .. Len(registered) /\ n \in Nat
      BY <3>2
    <3>5. BeginsTreeOf(gsTree, SubSeq(registered, 1, n))
      BY <3>2 DEF GotSoFar
    <3>6. CASE p[2] < Pieces[p[1]] /\ q = <<p[1], p[2] + 1>>
      <4>1. Follows(p, q, SubSeq(registered, 1, n))
        BY <3>6 DEF Follows
      <4>2. BeginsTreeOf(gsTree', SubSeq(registered, 1, n))
        <5> HIDE DEF m
        <5> QED BY <1>2, <3>1, <3>5, <4>1, BeginsGoesOn
      <4>3. q[1] = registered[n]
        BY <3>3, <3>6
      <4>4. GotSoFar(n)'
        BY <1>0, <1>5, <2>1, <4>2, <4>3 DEF GotSoFar
      <4> QED BY <1>0, <1>5, <3>2, <4>4 DEF Got
    <3>7. ASSUME p[2] = Pieces[p[1]], NEW i \in 1 .. Len(registered) - 1, p[1] = registered[i],
                 q = <<registered[i + 1], 1>>
          PROVE  Got'
      <4>1. i = n
        <5>1. i \in DOMAIN registered /\ n \in DOMAIN registered /\ registered[i] = registered[n]
          BY <2>0, <3>2, <3>3, <3>7
        <5> QED BY <5>1 DEF Registered
      <4>2. n \in 0 .. Len(registered) - 1 /\ n + 1 \in 1 .. Len(registered) /\ n + 1 \in 0 .. Len(registered)
        BY <2>0, <4>1
      <4>3. SubSeq(registered, 1, n + 1) = Append(SubSeq(registered, 1, n), registered[n + 1])
        BY <2>0, <4>2, SubSeqGrows
      <4>4. BeginsTreeOf(gsTree, SubSeq(registered, 1, n + 1))
        <5>1. SubSeq(registered, 1, n) \in Seq(Handlers) /\ registered[n + 1] \in Handlers
          BY <2>0, <3>4, <4>2, SubSeqAt
        <5> QED BY <3>5, <4>3, <5>1, BeginsGrows
      <4>5. Follows(p, q, SubSeq(registered, 1, n + 1))
        <5>1. /\ Len(SubSeq(registered, 1, n + 1)) = n + 1
              /\ \A j \in 1 .. n + 1 : SubSeq(registered, 1, n + 1)[j] = registered[j]
          BY <2>0, <4>2, SubSeqAt
        <5>2. n \in 1 .. (n + 1) - 1 /\ n \in 1 .. n + 1 /\ n + 1 \in 1 .. n + 1
          BY <3>2, <3>4
        <5> HIDE DEF p, q
        <5> QED BY <3>7, <4>1, <5>1, <5>2 DEF Follows
      <4>6. BeginsTreeOf(gsTree', SubSeq(registered, 1, n + 1))
        <5> HIDE DEF m
        <5> QED BY <1>2, <3>1, <4>4, <4>5, BeginsGoesOn
      <4>7. q[1] = registered[n + 1]
        BY <3>7, <4>1
      <4>8. GotSoFar(n + 1)'
        BY <1>0, <1>5, <2>1, <4>6, <4>7 DEF GotSoFar
      <4> QED BY <1>0, <1>5, <4>2, <4>8 DEF Got
    <3> QED BY <3>3, <3>6, <3>7 DEF Follows
  <2> QED BY <2>2, <2>3
<1> QED BY <1>6, <1>7, <1>8

\* A step that brings no piece to the ground station leaves in turn what was.
LEMMA OtherGot ==
    ASSUME TypeOK, Registered, OnTheWay, Got, [Next]_vars, ~Restart, ~HandleFcGet, lost' = lost
    PROVE  /\ OnTheWay' /\ Got'
           /\ (\A h \in Handlers : ~HandleHasParam(h)) =>
                 UNCHANGED <<registered, sequenceGet>> /\ LastPiece' = LastPiece
<1>1. CASE GsProcess
  BY <1>1, ProcessGot DEF GsProcess, GsSends, GsUnchanged, masterVars
<1>2. ASSUME NEW h \in Handlers, HandleHasParam(h) PROVE OnTheWay' /\ Got'
  BY <1>2, HasParamGot
<1>3. CASE UNCHANGED <<toGs, gsSeq, gsTree, registered, sequenceGet>>
  BY <1>3 DEF OnTheWay, InTurn, SeqToGet, SeqAfter, Got, GotSoFar, LastPiece
<1>4. ~Lose /\ \A n : ~HandleFcSaveFails(n)
  BY DEF Lose, HandleFcSaveFails, TypeOK, CountsOK
<1>5. ~GsProcess /\ (\A h \in Handlers : ~HandleHasParam(h)) =>
         UNCHANGED <<toGs, gsSeq, gsTree, registered, sequenceGet>>
  BY <1>4 DEF Next, Tasks, Master, Loader, Answers, Handler, Gs, Faults, vars,
       HandleRefused, HandleParamSet, HandleLoad, HandleGet, HandleSave, StartDump,
       LoadMore, LoadPacket, LoadFails, LoadUnchanged, HandleFcSet,
       HandleFcSave, HandleFcSaveFull, SaveUnchanged, PhSet, PhGet, PhSave, PhDump,
       HandlerUnchanged, GsSends, GsUnchanged, GsWrite, GsSave, GsLoad, GsRequest,
       GsCommand, PowerLoss, PowerLossInWrite, masterVars, gsVars
<1> QED BY <1>1, <1>2, <1>3, <1>5

\* The next piece stays the one in turn, while it is asked for, dumped and sent.
LEMMA NextGetting ==
    ASSUME TypeOK, ParserBetweenLoads, Known, Registered, OneAtATime, PlacedGet, Getting,
           OnTheWay, Got, [Next]_vars, ~cut, ~cut', ~Restart, ~Wedged, ~Wedged', lost' = lost
    PROVE  Getting'
<1>0. /\ currentlyGetting \in Nat /\ (currentlyGetting < Len(registered) \/ currentlyGetting = 0)
      /\ currentlySaving \in Nat /\ (currentlySaving < Len(registered) \/ currentlySaving = 0)
  BY Indices
\* A step that sends no piece, takes none and registers no handler.
<1>a. ASSUME UNCHANGED <<registered, sequenceGet, currentlyGetting, getAt>>, LastPiece' = LastPiece,
             Sent("get")' = Sent("get")
      PROVE  Getting'
  BY <1>a DEF Getting, InTurn, NextPiece
<1>b. ~HandleFcGet /\ (\A h \in Handlers : ~HandleHasParam(h)) =>
         UNCHANGED <<registered, sequenceGet>> /\ LastPiece' = LastPiece
  BY OtherGot
<1>1. CASE HandleFcGet
  BY <1>1, FcGetGot
<1>2. ASSUME NEW h \in Handlers, HandleHasParam(h) PROVE Getting'
  BY <1>2, HasParamGot
<1>3. CASE ~DumpStep /\ \A h \in Handlers : ~HandleHasParam(h)
  <2>1. Sent("get")' = Sent("get") /\ UNCHANGED <<currentlyGetting, getAt>>
    BY <1>3, OtherStep
  <2> QED BY <1>a, <1>b, <1>3, <2>1 DEF DumpStep
<1>4. CASE HandleGet \/ HandleSave
  <2>1. Idle /\ UNCHANGED <<registered, sequenceGet, currentlyGetting, getAt, inbox, toGs, gsTree>>
    BY <1>0, <1>4, StartOne DEF HandleGet, HandleSave, StartDump, handlerVars, gsVars
  <2> QED BY <1>a, <2>1 DEF Sent, LastPiece
<1>5. ASSUME NEW h \in Handlers, PhGet(h) PROVE Getting'
  <2> DEFINE m == Dump("get", PieceAt(h, getAt), value[PieceAt(h, getAt)], getAt[h] + 1 = Pieces[h])
  <2>1. PhDump(h, "get", getAt) /\ UNCHANGED <<registered, sequenceGet, toGs, gsTree>>
    BY <1>5 DEF PhGet, PhDump, HandlerUnchanged, masterVars, gsVars
  <2>2. Asked("get") = {h} /\ Sent("get") = {} /\ Sent("get")' = {m}
    BY <2>1, DumpOne
  <2>3. m.piece = <<h, getAt[h] + 1>>
    BY DEF Dump, PieceAt
  <2> HIDE DEF m
  <2>4. h = registered[currentlyGetting + 1] /\ registered # <<>>
    <3>1. h = registered[currentlyGetting + 1] /\ currentlyGetting < Len(registered)
      BY <2>2 DEF PlacedGet, Placed
    <3>2. Len(registered) # 0
      BY <1>0, <3>1, Indices
    <3> QED BY <3>1, <3>2
  <2>5. m.piece = NextPiece
    BY <2>3, <2>4 DEF NextPiece
  <2>6. InTurn(sequenceGet, LastPiece, m.piece)
    BY <2>2, <2>4, <2>5 DEF Getting
  <2> QED BY <2>1, <2>2, <2>6 DEF Getting, InTurn, LastPiece
<1>6. ASSUME NEW h \in Handlers, PhSave(h) PROVE Getting'
  <2>1. /\ PhDump(h, "save", saveAt)
        /\ UNCHANGED <<registered, sequenceGet, currentlyGetting, getAt, toGs, gsTree>>
    BY <1>6 DEF PhSave, PhDump, HandlerUnchanged, masterVars, gsVars
  <2>2. Sent("get") = {} /\ Sent("get")' = {}
    BY <2>1, DumpOne
  <2> QED BY <1>a, <2>1, <2>2 DEF LastPiece
<1>7. CASE HandleFcSave
  <2>1. /\ Answered("save")
        /\ UNCHANGED <<registered, sequenceGet, currentlyGetting, getAt, toGs, gsTree>>
    BY <1>7 DEF HandleFcSave, SaveUnchanged, handlerVars, gsVars
  <2>2. Sent("get") = {} /\ ~HasDump(inbox')
    BY <2>1, TakeOne
  <2>3. Sent("get")' = {}
    BY <2>2, NoDumpKind DEF Sent
  <2> QED BY <1>a, <2>1, <2>2, <2>3 DEF LastPiece
<1> QED BY <1>1, <1>2, <1>3, <1>4, <1>5, <1>6, <1>7 DEF DumpStep

-----------------------------------------------------------------------------
(* What holds of the dumps.                                                *)

\* A get or save that was cut short, and a master that waits in vain, leave the
\* indices where they were; from then on nothing is said of a save, and of what the
\* ground station has got only that nothing more comes.
DumpInv ==
    /\ Registered
    /\ ~cut => OneAtATime
    /\ Intact => PlacedGet /\ PlacedSave /\ Saving
    /\ ~cut /\ lost = 0 /\ restarts = 0 => OnTheWay /\ Got /\ (~Wedged => Getting)

LEMMA InitDumps == Init => DumpInv
<1> SUFFICES ASSUME Init PROVE DumpInv
  OBVIOUS
<1>0. /\ inbox = <<>> /\ (\A h \in Handlers : box[h] = <<>>) /\ toGs = <<>> /\ registered = <<>>
      /\ currentlyGetting = 0 /\ currentlySaving = 0 /\ sequenceGet = 0 /\ setAddress = 0
      /\ gsSeq = 0 /\ gsTree = <<>>
      /\ \A h \in Handlers : getAt[h] = 0 /\ saveAt[h] = 0
  BY DEF Init
<1>1. Idle
  BY <1>0, EmptyKind DEF Idle
<1>2. \A c \in {"get", "save"} : Asked(c) = {} /\ Sent(c) = {}
  BY <1>1, IdleNone
<1>3. Registered
  BY <1>0 DEF Registered
<1>4. PlacedGet /\ PlacedSave
  BY <1>0, <1>2 DEF PlacedGet, PlacedSave, Placed
<1>5. Saving
  BY <1>0, <1>2 DEF Saving
<1>6. OnTheWay /\ Got /\ Getting
  BY <1>0, <1>2 DEF OnTheWay, SeqToGet, Got, Getting
<1> QED BY <1>1, <1>3, <1>4, <1>5, <1>6, IdleOne DEF DumpInv

LEMMA NextDumps == IInv /\ DumpInv /\ [Next]_vars => DumpInv'
<1> SUFFICES ASSUME IInv, DumpInv, [Next]_vars PROVE DumpInv'
  OBVIOUS
<1>0. TypeOK /\ ParserBetweenLoads /\ Known
  BY DEF IInv
<1>1. Registered'
  BY <1>0, NextRegistered DEF DumpInv
<1>2. ~cut' => OneAtATime'
  BY <1>0, NextOne DEF DumpInv
<1>3. CASE Restart
  <2>1. /\ Idle' /\ \A c \in {"get", "save"} : Asked(c)' = {} /\ Sent(c)' = {}
        /\ currentlyGetting' = 0 /\ currentlySaving' = 0 /\ setAddress' = 0
        /\ \A h \in Handlers : getAt'[h] = 0 /\ saveAt'[h] = 0
    BY <1>3, RestartIdle DEF Restart
  <2>2. PlacedGet' /\ PlacedSave' /\ Saving'
    BY <2>1 DEF PlacedGet, PlacedSave, Placed, Saving
  <2>3. restarts' # 0
    BY <1>0, <1>3 DEF Restart, TypeOK, CountsOK
  <2> QED BY <1>1, <1>2, <2>2, <2>3 DEF DumpInv
<1>4. CASE ~Restart
  <2>1. Intact' => Intact
    BY <1>0, <1>4, CutStays, WedgedStays DEF Intact, DumpInv
  <2>2. Intact' => PlacedGet' /\ PlacedSave' /\ Saving'
    BY <1>0, <1>4, <2>1, NextPlaced, NextSaving DEF Intact, DumpInv
  <2>3. ASSUME ~cut', lost' = 0, restarts' = 0
        PROVE  OnTheWay' /\ Got' /\ (~Wedged' => Getting')
    <3>1. ~cut /\ lost = 0 /\ restarts = 0
      <4>1. lost \in Nat /\ restarts \in Nat
        BY <1>0 DEF TypeOK, CountsOK
      <4>2. lost' = lost \/ lost' = lost + 1
        BY <1>4 DEF Next, Tasks, Master, Loader, Answers, Handler, Gs, Faults, vars,
       HandleRefused, HandleParamSet, HandleLoad, HandleGet, HandleSave, StartDump,
       LoadMore, LoadPacket, LoadFails, LoadUnchanged, HandleFcSet, HandleFcGet,
       HandleFcSave, HandleFcSaveFull, SaveUnchanged, PhSet, PhGet, PhSave, PhDump,
       HandlerUnchanged, GsProcess, GsSends, GsUnchanged, GsWrite, GsSave, GsLoad, GsRequest,
       GsCommand, HandleHasParam, PowerLoss, PowerLossInWrite, Lose, HandleFcSaveFails, boundVars
      <4>3. restarts' = restarts
        BY <1>4 DEF Next, Tasks, Master, Loader, Answers, Handler, Gs, Faults, vars,
       HandleRefused, HandleParamSet, HandleLoad, HandleGet, HandleSave, StartDump,
       LoadMore, LoadPacket, LoadFails, LoadUnchanged, HandleFcSet, HandleFcGet,
       HandleFcSave, HandleFcSaveFull, SaveUnchanged, PhSet, PhGet, PhSave, PhDump,
       HandlerUnchanged, GsProcess, GsSends, GsUnchanged, GsWrite, GsSave, GsLoad, GsRequest,
       GsCommand, HandleHasParam, PowerLoss, PowerLossInWrite, Lose, HandleFcSaveFails, boundVars
      <4> QED BY <1>4, <2>3, <4>1, <4>2, <4>3, CutStays
    <3>2. OneAtATime /\ OnTheWay /\ Got /\ Registered /\ lost' = lost
      BY <2>3, <3>1 DEF DumpInv
    <3>3. ASSUME HandleFcGet PROVE ~Wedged
      <4>1. Sent("get") = {Head(inbox)}
        BY <1>0, <3>2, <3>3, TakeOne DEF HandleFcGet
      <4> QED BY <4>1, IdleNone DEF Wedged
    <3>4. OnTheWay' /\ Got'
      <4>1. CASE HandleFcGet
        <5>1. PlacedGet /\ Getting
          BY <3>1, <3>3, <4>1 DEF DumpInv, Intact
        <5> QED BY <1>0, <3>2, <4>1, <5>1, FcGetGot
      <4>2. CASE ~HandleFcGet
        BY <1>0, <1>4, <3>2, <4>2, OtherGot
      <4> QED BY <4>1, <4>2
    <3>5. ASSUME ~Wedged' PROVE Getting'
      <4>1. ~Wedged /\ PlacedGet /\ Getting
        BY <2>1, <2>3, <3>1, <3>5 DEF Intact, DumpInv
      <4> QED BY <1>0, <1>4, <2>3, <3>1, <3>2, <3>5, <4>1, NextGetting
    <3> QED BY <3>4, <3>5
  <2> QED BY <1>1, <1>2, <2>2, <2>3 DEF DumpInv
<1> QED BY <1>3, <1>4

LEMMA Dumps == Spec => []DumpInv
<1>1. Init => DumpInv
  BY InitDumps
<1>2. IInv /\ DumpInv /\ [Next]_vars => DumpInv'
  BY NextDumps
<1>3. Spec => []IInv
  BY Invariance
<1> QED BY <1>1, <1>2, <1>3, PTL DEF Spec

-----------------------------------------------------------------------------
(* The theorems.                                                           *)

LEMMA SaveEnds ==
    ASSUME IInv, DumpInv, Next, saved' # saved, whole', ~cut'
    PROVE  /\ IsTreeOf(PiecesOf(saved'), registered)
           /\ \A i \in DOMAIN saved' : saved'[i].value = value[saved'[i].piece]
<1>0. TypeOK /\ ParserBetweenLoads /\ Known
  BY DEF IInv
<1>1. HandleFcSave
  <2>1. \A n : ~PowerLossInWrite(n) /\ ~HandleFcSaveFails(n)
    BY DEF PowerLossInWrite, HandleFcSaveFails
  <2> QED BY <2>1 DEF Next, Tasks, Master, Loader, Answers, Handler, Gs, Faults,
       HandleRefused, HandleParamSet, HandleLoad, HandleGet, HandleSave, StartDump,
       LoadMore, LoadPacket, LoadFails, LoadUnchanged, HandleFcSet, HandleFcGet,
       HandleFcSaveFull, PhSet, PhGet, PhSave, PhDump,
       HandlerUnchanged, GsProcess, GsSends, GsUnchanged, GsWrite, GsSave, GsLoad, GsRequest,
       GsCommand, HandleHasParam, PowerLoss, Lose, memoryVars
<1> DEFINE m == Head(inbox)
<1>2. Answered("save") /\ UNCHANGED cut /\ LastOfAll(m, currentlySaving)
  BY <1>1 DEF HandleFcSave
<1>3. ~cut /\ OneAtATime /\ PlacedSave /\ Saving
  <2>1. ~cut /\ OneAtATime
    BY <1>2 DEF DumpInv
  <2>2. m \in Sent("save")
    BY <1>0, <1>2, <2>1, TakeOne
  <2>3. ~Wedged
    BY <2>2, IdleNone DEF Wedged
  <2> QED BY <2>1, <2>3 DEF DumpInv, Intact
<1>4. /\ m \in Sent("save") /\ m.piece \in Piece
      /\ BeginsTreeOf(PiecesOf(saved'), registered)
      /\ saved' \in Seq(Packet) /\ saved' # <<>>
      /\ saved'[Len(saved')].piece = m.piece
      /\ \A i \in DOMAIN saved' : Current(saved'[i].piece, saved'[i].value)
  BY <1>0, <1>1, <1>3, SaveGoesOn
<1>5. m.piece = <<registered[Len(registered)], Pieces[registered[Len(registered)]]>>
  <2>1. m.last \in BOOLEAN
    BY <1>0, <1>4, SentType
  <2> HIDE DEF m
  <2> QED BY <1>0, <1>2, <1>3, <1>4, <2>1, Indices, PlacedNext DEF PlacedSave
<1>6. PiecesOf(saved')[Len(PiecesOf(saved'))] = m.piece
  <2>1. PICK s : s = saved'
    OBVIOUS
  <2>2. s \in Seq(Packet) /\ s # <<>> /\ s[Len(s)].piece = m.piece
    BY <1>4, <2>1
  <2>3. Len(s) \in DOMAIN s /\ DOMAIN PiecesOf(s) = DOMAIN s /\ DOMAIN s = 1 .. Len(s)
    BY <2>2 DEF PiecesOf
  <2>4. Len(PiecesOf(s)) = Len(s)
    BY <2>3
  <2>5. PiecesOf(s)[Len(s)] = s[Len(s)].piece
    BY <2>3 DEF PiecesOf
  <2> QED BY <2>1, <2>2, <2>4, <2>5
<1> QED BY <1>4, <1>5, <1>6 DEF IsTreeOf, Current

\* A save that no one cut short ends with the whole tree in the memory, each piece
\* of each known handler once, in order, with the value it has at the end.
THEOREM SavedTree == Spec => SavedIsTheTree
<1>1. ASSUME IInv, DumpInv, [Next]_vars
      PROVE  [saved' # saved /\ whole' /\ ~cut' =>
                /\ IsTreeOf(PiecesOf(saved'), registered)
                /\ \A i \in DOMAIN saved' : saved'[i].value = value[saved'[i].piece]]_vars
  BY <1>1, SaveEnds
<1>2. Spec => []IInv /\ []DumpInv
  BY Invariance, Dumps
<1> QED BY <1>1, <1>2, PTL DEF Spec, SavedIsTheTree

LEMMA GotTree == DumpInv /\ TypeOK => GetInOrder
<1> SUFFICES ASSUME DumpInv, TypeOK, gsSeq = 0, gsTree # <<>>, ~cut, lost = 0, restarts = 0
             PROVE  \E n \in 1 .. Len(registered) : IsTreeOf(gsTree, SubSeq(registered, 1, n))
  BY DEF GetInOrder
<1>1. PICK n \in 1 .. Len(registered) : GotSoFar(n)
  BY DEF DumpInv, Got
<1>2. PICK r : r = SubSeq(registered, 1, n)
  OBVIOUS
<1>3. registered \in Seq(Handlers) /\ Len(registered) \in Nat
  BY Indices
<1>4. n \in Nat /\ n \in 1 .. n /\ n \in 0 .. Len(registered)
  BY <1>1, <1>3
<1>5. Len(r) = n /\ r[n] = registered[n]
  BY <1>2, <1>3, <1>4, SubSeqAt
<1> DEFINE p == gsTree[Len(gsTree)]
<1>6. p \in Piece
  <2>1. gsTree \in Seq(Piece)
    BY GsTypes
  <2>2. Len(gsTree) \in DOMAIN gsTree
    BY <2>1
  <2> QED BY <2>1, <2>2
<1>7. p[1] = registered[n] /\ p[2] = Pieces[registered[n]] /\ BeginsTreeOf(gsTree, r)
  BY <1>1, <1>2 DEF GotSoFar
<1>8. p = <<r[Len(r)], Pieces[r[Len(r)]]>>
  <2> HIDE DEF p
  <2> QED BY <1>5, <1>6, <1>7, PieceForm
<1> QED BY <1>2, <1>7, <1>8 DEF IsTreeOf

\* What a ground station has got when it has taken the last packet are the trees of
\* the first handlers, all of each, in order, unless a get was cut short, a message
\* was lost or the flight controller was started again.
THEOREM GetsInOrder == Spec => []GetInOrder
<1>1. IInv /\ DumpInv => GetInOrder
  BY GotTree DEF IInv
<1> QED BY <1>1, Invariance, Dumps, PTL
=============================================================================
