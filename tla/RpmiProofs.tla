------------------------------- MODULE RpmiProofs -------------------------------
(***************************************************************************)
(* That the rings of the RPMI shared memory transport are queues, for any  *)
(* numbers of slots, harts and messages and any width of the tokens.       *)
(*                                                                         *)
(* RingIsFifo needs the bounds of the two indices, and the fact that every *)
(* slot holds a message, to be inductive.  One ring is looked at first:    *)
(* what a put, a take and the end of a call do to what it holds.           *)
(***************************************************************************)
EXTENDS Rpmi, SequenceTheorems, TLAPS

Ring(S) == [head : 0 .. S - 1, tail : 0 .. S - 1, slot : [0 .. S - 1 -> RpmiMsg]]
Count(x, S) == (x.tail + S - x.head) % S
Content(x, S) == [i \in 1 .. Count(x, S) |-> x.slot[(x.head + i - 1) % S]]

\* One turn of the ring at most.
LEMMA ModOnce ==
  ASSUME NEW S \in Nat \ {0}, NEW a \in 0 .. 2 * S - 1
  PROVE  a % S = IF a < S THEN a ELSE a - S
<1> DEFINE d == a \div S
           m == a % S
<1>1. d \in Int /\ m \in 0 .. S - 1 /\ a = S * d + m
  OBVIOUS
<1> HIDE DEF d, m
<1>2. ASSUME d >= 2 PROVE FALSE
  <2>1. S * (d - 2) >= 0 /\ S * (d - 2) = S * d - 2 * S
    BY <1>1, <1>2
  <2> QED
    BY <1>1, <2>1
<1>3. ASSUME d <= -1 PROVE FALSE
  <2>1. S * (-1 - d) >= 0 /\ S * (-1 - d) = -S - S * d
    BY <1>1, <1>3
  <2> QED
    BY <1>1, <2>1
<1>4. d = 0 \/ d = 1
  BY <1>1, <1>2, <1>3
<1>5. m = IF a < S THEN a ELSE a - S
  BY <1>1, <1>4
<1> QED
  BY <1>5 DEF m

\* What a ring holds is a sequence of messages, as long as its indices are apart.
LEMMA ContentType ==
  ASSUME NEW S \in Nat \ {0}, NEW x \in Ring(S)
  PROVE  /\ Count(x, S) = IF x.tail < x.head THEN x.tail + S - x.head ELSE x.tail - x.head
         /\ Count(x, S) \in 0 .. S - 1
         /\ \A i \in 1 .. Count(x, S) :
              /\ (x.head + i - 1) % S = IF x.head + i - 1 < S THEN x.head + i - 1 ELSE x.head + i - 1 - S
              /\ (x.head + i - 1) % S \in 0 .. S - 1
         /\ Content(x, S) \in Seq(RpmiMsg) /\ Len(Content(x, S)) = Count(x, S)
<1>1. x.head \in 0 .. S - 1 /\ x.tail \in 0 .. S - 1 /\ x.slot \in [0 .. S - 1 -> RpmiMsg]
  BY DEF Ring
<1>2. x.tail + S - x.head \in 0 .. 2 * S - 1
  BY <1>1
<1>3. Count(x, S) = IF x.tail < x.head THEN x.tail + S - x.head ELSE x.tail - x.head
  <2> DEFINE a == x.tail + S - x.head
  <2>1. a \in 0 .. 2 * S - 1 /\ Count(x, S) = a % S
    BY <1>2 DEF Count
  <2> HIDE DEF a
  <2>2. a % S = IF a < S THEN a ELSE a - S
    BY <2>1, ModOnce
  <2> QED
    BY <1>1, <2>1, <2>2 DEF a
<1>4. Count(x, S) \in 0 .. S - 1
  BY <1>1, <1>3
<1>5. ASSUME NEW i \in 1 .. Count(x, S)
      PROVE  /\ (x.head + i - 1) % S = IF x.head + i - 1 < S THEN x.head + i - 1 ELSE x.head + i - 1 - S
             /\ (x.head + i - 1) % S \in 0 .. S - 1
  <2> DEFINE a == x.head + i - 1
  <2>1. a \in 0 .. 2 * S - 1
    BY <1>1, <1>4
  <2> HIDE DEF a
  <2>2. a % S = IF a < S THEN a ELSE a - S
    BY <2>1, ModOnce
  <2>3. a % S \in 0 .. S - 1
    BY <2>1
  <2> QED
    BY <1>1, <1>4, <2>1, <2>2, <2>3 DEF a
<1>6. Content(x, S) \in [1 .. Count(x, S) -> RpmiMsg]
  BY <1>1, <1>5 DEF Content
<1>7. Content(x, S) \in Seq(RpmiMsg) /\ Len(Content(x, S)) = Count(x, S)
  BY <1>4, <1>6
<1> QED
  BY <1>3, <1>4, <1>5, <1>7

\* Put(), of a ring that is not full, appends.
LEMMA PutAppends ==
  ASSUME NEW S \in Nat \ {0}, NEW x \in Ring(S), NEW m \in RpmiMsg, (x.tail + 1) % S # x.head,
         NEW y, y = [head |-> x.head, tail |-> (x.tail + 1) % S, slot |-> [x.slot EXCEPT ![x.tail] = m]]
  PROVE  y \in Ring(S) /\ Content(y, S) = Append(Content(x, S), m)
<1>1. x.head \in 0 .. S - 1 /\ x.tail \in 0 .. S - 1 /\ x.slot \in [0 .. S - 1 -> RpmiMsg]
  BY DEF Ring
<1>2. y.tail = (IF x.tail + 1 < S THEN x.tail + 1 ELSE 0) /\ y.tail # x.head /\ y.head = x.head
  <2> DEFINE a == x.tail + 1
  <2>1. a \in 0 .. 2 * S - 1
    BY <1>1
  <2> HIDE DEF a
  <2>2. a % S = IF a < S THEN a ELSE a - S
    BY <2>1, ModOnce
  <2> QED
    BY <1>1, <2>1, <2>2 DEF a
<1>3. y.slot \in [0 .. S - 1 -> RpmiMsg] /\ y.slot[x.tail] = m
      /\ \A j \in 0 .. S - 1 : j # x.tail => y.slot[j] = x.slot[j]
  BY <1>1
<1>4. y \in Ring(S)
  BY <1>1, <1>2, <1>3 DEF Ring
<1> HIDE DEF Ring
<1> DEFINE c == Content(x, S)
           n == Count(x, S)
<1>5. /\ n \in 0 .. S - 1 /\ c \in Seq(RpmiMsg) /\ Len(c) = n
      /\ n = IF x.tail < x.head THEN x.tail + S - x.head ELSE x.tail - x.head
  BY ContentType
<1>6. /\ (IF y.tail < x.head THEN y.tail + S - x.head ELSE y.tail - x.head) = n + 1
      /\ \A i \in 1 .. n + 1 :
           (IF x.head + i - 1 < S THEN x.head + i - 1 ELSE x.head + i - 1 - S) = x.tail <=> i = n + 1
  <2> DEFINE h == x.head
             t == x.tail
             u == y.tail
  <2>1. /\ h \in 0 .. S - 1 /\ t \in 0 .. S - 1 /\ u = (IF t + 1 < S THEN t + 1 ELSE 0) /\ u # h
        /\ n = IF t < h THEN t + S - h ELSE t - h
    BY <1>1, <1>2, <1>5
  <2> HIDE DEF h, t, u, n
  <2>2. /\ (IF u < h THEN u + S - h ELSE u - h) = n + 1
        /\ \A i \in 1 .. n + 1 :
             (IF h + i - 1 < S THEN h + i - 1 ELSE h + i - 1 - S) = t <=> i = n + 1
    BY <2>1
  <2> QED
    BY <2>2 DEF h, t, u
<1>7. Count(y, S) = n + 1
  <2>1. Count(y, S) = IF y.tail < y.head THEN y.tail + S - y.head ELSE y.tail - y.head
    BY <1>4, ContentType
  <2> QED
    BY <1>2, <2>1, <1>6
<1>8. /\ Append(c, m) \in Seq(RpmiMsg) /\ Len(Append(c, m)) = n + 1
      /\ \A i \in 1 .. n : Append(c, m)[i] = c[i]
      /\ Append(c, m)[n + 1] = m
  BY <1>5, AppendProperties
<1>9. Content(y, S) \in Seq(RpmiMsg) /\ Len(Content(y, S)) = n + 1
  BY <1>4, <1>7, ContentType
<1>10. ASSUME NEW i \in 1 .. n + 1 PROVE Content(y, S)[i] = Append(c, m)[i]
  <2>1. Content(y, S)[i] = y.slot[(y.head + i - 1) % S]
    BY <1>7, <1>5 DEF Content
  <2>2. (y.head + i - 1) % S = IF y.head + i - 1 < S THEN y.head + i - 1 ELSE y.head + i - 1 - S
    BY <1>4, <1>7, ContentType
  <2>3. CASE i = n + 1
    <3>1. (y.head + i - 1) % S = x.tail
      BY <1>6, <1>2, <2>2, <2>3
    <3> QED
      BY <1>3, <1>8, <2>1, <2>3, <3>1
  <2>4. CASE i # n + 1
    <3>1. i \in 1 .. n
      BY <1>5, <2>4
    <3>2. c[i] = x.slot[(x.head + i - 1) % S]
      BY <3>1 DEF Content
    <3>3. (x.head + i - 1) % S \in 0 .. S - 1 /\ (x.head + i - 1) % S # x.tail
      <4>1. (x.head + i - 1) % S \in 0 .. S - 1
        BY <3>1, ContentType
      <4>2. (x.head + i - 1) % S = IF x.head + i - 1 < S THEN x.head + i - 1 ELSE x.head + i - 1 - S
        BY <3>1, ContentType
      <4> QED
        BY <1>6, <2>4, <4>1, <4>2
    <3> QED
      BY <1>2, <1>3, <1>8, <2>1, <3>1, <3>2, <3>3
  <2> QED
    BY <2>3, <2>4
<1> QED
  BY <1>4, <1>5, <1>8, <1>9, <1>10, SeqEqual

\* Take(), of a ring that is not empty, drops the first.
LEMMA TakeDrops ==
  ASSUME NEW S \in Nat \ {0}, NEW x \in Ring(S), x.head # x.tail, NoMsg \in RpmiMsg,
         NEW y, y = [head |-> (x.head + 1) % S, tail |-> x.tail, slot |-> [x.slot EXCEPT ![x.head] = NoMsg]]
  PROVE  y \in Ring(S) /\ Content(y, S) = Tail(Content(x, S))
<1>1. x.head \in 0 .. S - 1 /\ x.tail \in 0 .. S - 1 /\ x.slot \in [0 .. S - 1 -> RpmiMsg]
  BY DEF Ring
<1>2. y.head = (IF x.head + 1 < S THEN x.head + 1 ELSE 0) /\ y.tail = x.tail
  <2> DEFINE a == x.head + 1
  <2>1. a \in 0 .. 2 * S - 1
    BY <1>1
  <2> HIDE DEF a
  <2>2. a % S = IF a < S THEN a ELSE a - S
    BY <2>1, ModOnce
  <2> QED
    BY <1>1, <2>1, <2>2 DEF a
<1>3. y.slot \in [0 .. S - 1 -> RpmiMsg]
      /\ \A j \in 0 .. S - 1 : j # x.head => y.slot[j] = x.slot[j]
  BY <1>1
<1>4. y \in Ring(S)
  BY <1>1, <1>2, <1>3 DEF Ring
<1> DEFINE c == Content(x, S)
           n == Count(x, S)
<1>5. /\ n \in 0 .. S - 1 /\ c \in Seq(RpmiMsg) /\ Len(c) = n
      /\ n = IF x.tail < x.head THEN x.tail + S - x.head ELSE x.tail - x.head
  BY ContentType
<1>6. /\ n >= 1
      /\ (IF x.tail < y.head THEN x.tail + S - y.head ELSE x.tail - y.head) = n - 1
      /\ \A i \in 1 .. n - 1 :
           /\ (IF y.head + i - 1 < S THEN y.head + i - 1 ELSE y.head + i - 1 - S) # x.head
           /\ (IF y.head + i - 1 < S THEN y.head + i - 1 ELSE y.head + i - 1 - S)
                = IF x.head + i < S THEN x.head + i ELSE x.head + i - S
  <2> DEFINE h == x.head
             t == x.tail
             u == y.head
  <2>1. /\ h \in 0 .. S - 1 /\ t \in 0 .. S - 1 /\ u = (IF h + 1 < S THEN h + 1 ELSE 0) /\ h # t
        /\ n = IF t < h THEN t + S - h ELSE t - h
    BY <1>1, <1>2, <1>5
  <2> HIDE DEF h, t, u, n
  <2>2. /\ n >= 1
        /\ (IF t < u THEN t + S - u ELSE t - u) = n - 1
        /\ \A i \in 1 .. n - 1 :
             /\ (IF u + i - 1 < S THEN u + i - 1 ELSE u + i - 1 - S) # h
             /\ (IF u + i - 1 < S THEN u + i - 1 ELSE u + i - 1 - S)
                  = IF h + i < S THEN h + i ELSE h + i - S
    BY <2>1
  <2> QED
    BY <2>2 DEF h, t, u
<1>7. Count(y, S) = n - 1
  <2>1. Count(y, S) = IF y.tail < y.head THEN y.tail + S - y.head ELSE y.tail - y.head
    BY <1>4, ContentType
  <2> QED
    BY <1>2, <1>6, <2>1
<1>8. /\ Tail(c) \in Seq(RpmiMsg) /\ Len(Tail(c)) = n - 1
      /\ \A i \in 1 .. n - 1 : Tail(c)[i] = c[i + 1]
  <2>1. c # <<>>
    BY <1>5, <1>6, EmptySeq
  <2> HIDE DEF c, n
  <2> QED
    BY <1>5, <2>1, HeadTailProperties
<1>9. Content(y, S) \in Seq(RpmiMsg) /\ Len(Content(y, S)) = n - 1
  BY <1>4, <1>7, ContentType
<1>10. ASSUME NEW i \in 1 .. n - 1 PROVE Content(y, S)[i] = Tail(c)[i]
  <2>1. Content(y, S)[i] = y.slot[(y.head + i - 1) % S]
    BY <1>5, <1>7 DEF Content
  <2>2. /\ (y.head + i - 1) % S = IF y.head + i - 1 < S THEN y.head + i - 1 ELSE y.head + i - 1 - S
        /\ (y.head + i - 1) % S \in 0 .. S - 1
    BY <1>4, <1>7, ContentType
  <2>3. i + 1 \in 1 .. n
    <3> HIDE DEF n
    <3> QED
      BY <1>5
  <2>4. c[i + 1] = x.slot[(x.head + (i + 1) - 1) % S]
    BY <2>3 DEF Content
  <2>5. (x.head + (i + 1) - 1) % S
          = IF x.head + (i + 1) - 1 < S THEN x.head + (i + 1) - 1 ELSE x.head + (i + 1) - 1 - S
    BY <2>3, ContentType
  <2>6. x.head + (i + 1) - 1 = x.head + i
    <3> HIDE DEF n
    <3> QED
      BY <1>1, <1>5
  <2>7. (y.head + i - 1) % S = (x.head + (i + 1) - 1) % S /\ (y.head + i - 1) % S # x.head
    BY <1>6, <2>2, <2>5, <2>6
  <2> QED
    BY <1>3, <1>8, <2>1, <2>2, <2>4, <2>7
<1> QED
  BY <1>4, <1>8, <1>9, <1>10, SeqEqual

\* The end of a call marks the messages that are held, and moves none.
LEMMA AgedMarks ==
  ASSUME NEW S \in Nat \ {0}, NEW x \in Ring(S), \A m \in RpmiMsg : Old(m) \in RpmiMsg,
         NEW y, y = [x EXCEPT !.slot = [i \in DOMAIN @ |-> Old(@[i])]]
  PROVE  y \in Ring(S) /\ Content(y, S) = [i \in DOMAIN Content(x, S) |-> Old(Content(x, S)[i])]
<1>1. /\ x.head \in 0 .. S - 1 /\ x.tail \in 0 .. S - 1 /\ x.slot \in [0 .. S - 1 -> RpmiMsg]
      /\ y = [head |-> x.head, tail |-> x.tail, slot |-> [i \in DOMAIN x.slot |-> Old(x.slot[i])]]
  BY DEF Ring
<1>2. y.head = x.head /\ y.tail = x.tail /\ y.slot \in [0 .. S - 1 -> RpmiMsg]
      /\ \A j \in 0 .. S - 1 : y.slot[j] = Old(x.slot[j])
  BY <1>1
<1>3. y \in Ring(S)
  BY <1>1, <1>2 DEF Ring
<1>4. Count(y, S) = Count(x, S)
  BY <1>2 DEF Count
<1>5. \A i \in 1 .. Count(x, S) : (x.head + i - 1) % S \in 0 .. S - 1
  BY ContentType
<1>6. \A i \in 1 .. Count(x, S) :
         y.slot[(y.head + i - 1) % S] = Old(x.slot[(x.head + i - 1) % S])
  BY <1>2, <1>5
<1> QED
  BY <1>3, <1>4, <1>6 DEF Content
-------------------------------------------------------------------------------
\* The four rings.
RingsHold(r, f) ==
  /\ r = [q \in RpmiQueue |-> r[q]] /\ f = [q \in RpmiQueue |-> f[q]]
  /\ \A q \in RpmiQueue : r[q] \in Ring(MsgSlots[q]) /\ f[q] = Content(r[q], MsgSlots[q])

\* What is sent is a message.
CallsHold ==
  /\ call \in [RpmiHart -> RpmiMsg] /\ next_token \in 0 .. TokenMod - 1
  /\ puc = [todo |-> puc.todo, msg |-> puc.msg, target |-> puc.target, enabled |-> puc.enabled]
  /\ puc.msg \in RpmiMsg

RpmiInv == RingsHold(ring, fifo) /\ CallsHold

\* What can be made of a message, and of none, is a message.
LEMMA Messages ==
  /\ NoMsg \in RpmiMsg
  /\ \A m \in RpmiMsg : Old(m) \in RpmiMsg
  /\ \A m \in RpmiMsg : \A k \in {"ack", "nack", "note", "request", "misfit"} :
       [m EXCEPT !.type = k] \in RpmiMsg
  /\ \A m \in RpmiMsg : \A n \in 0 .. TokenMod - 1 : [m EXCEPT !.tok = n] \in RpmiMsg
  /\ \A s \in {"none", "target", "state", "again"} : [NoMsg EXCEPT !.svc = s] \in RpmiMsg
  /\ \A s \in {"user", "target", "state"} :
       [type |-> "request", svc |-> s, tok |-> 0, live |-> TRUE] \in RpmiMsg
  /\ [type |-> "posted", svc |-> "user", tok |-> 0, live |-> FALSE] \in RpmiMsg
<1>1. 0 \in 0 .. TokenMod - 1
  BY RpmiAssumption
<1>2. NoMsg \in RpmiMsg
  BY <1>1, Zenon DEF NoMsg, RpmiMsg
<1>3. ASSUME NEW m \in RpmiMsg PROVE Old(m) \in RpmiMsg
  BY DEF Old, RpmiMsg
<1>4. ASSUME NEW m \in RpmiMsg, NEW k \in {"ack", "nack", "note", "request", "misfit"}
      PROVE [m EXCEPT !.type = k] \in RpmiMsg
  BY DEF RpmiMsg
<1>5. ASSUME NEW m \in RpmiMsg, NEW n \in 0 .. TokenMod - 1
      PROVE [m EXCEPT !.tok = n] \in RpmiMsg
  BY DEF RpmiMsg
<1>6. ASSUME NEW s \in {"none", "target", "state", "again"}
      PROVE [NoMsg EXCEPT !.svc = s] \in RpmiMsg
  BY <1>2 DEF RpmiMsg
<1>7. ASSUME NEW s \in {"user", "target", "state"}
      PROVE [type |-> "request", svc |-> s, tok |-> 0, live |-> TRUE] \in RpmiMsg
  BY <1>1, Zenon DEF RpmiMsg
<1>8. [type |-> "posted", svc |-> "user", tok |-> 0, live |-> FALSE] \in RpmiMsg
  BY <1>1, Zenon DEF RpmiMsg
<1> QED
  BY <1>2, <1>3, <1>4, <1>5, <1>6, <1>7, <1>8, Zenon

\* A send on any of the four rings.
LEMMA SendKeeps ==
  ASSUME NEW q \in RpmiQueue, NEW m \in RpmiMsg, RingsHold(ring, fifo), SendMsg(q, m)
  PROVE  RingsHold(ring', fifo')
<1> DEFINE S == MsgSlots[q]
           x == ring[q]
           y == [head |-> x.head, tail |-> (x.tail + 1) % S, slot |-> [x.slot EXCEPT ![x.tail] = m]]
<1>1. S \in Nat \ {0} /\ x \in Ring(S) /\ (x.tail + 1) % S # x.head /\ fifo[q] = Content(x, S)
  BY RpmiAssumption DEF RingsHold, SendMsg, RingFull
<1>2. y \in Ring(S) /\ Content(y, S) = Append(Content(x, S), m)
  <2> HIDE DEF S, x
  <2> QED
    BY <1>1, PutAppends
<1>3. ring' = [ring EXCEPT ![q] = y] /\ fifo' = [fifo EXCEPT ![q] = Append(fifo[q], m)]
  BY Zenon DEF SendMsg, Put
<1> HIDE DEF y
<1> QED
  BY <1>1, <1>2, <1>3 DEF RingsHold

\* A receipt, of rings and contents that need not be those of the state.
LEMMA TakeKeeps ==
  ASSUME NEW q \in RpmiQueue, NEW r, NEW f, RingsHold(r, f), r[q].head # r[q].tail
  PROVE  RingsHold(Take(r, q), [f EXCEPT ![q] = Tail(@)]) /\ r[q].slot[r[q].head] \in RpmiMsg
<1> DEFINE S == MsgSlots[q]
           x == r[q]
           y == [head |-> (x.head + 1) % S, tail |-> x.tail, slot |-> [x.slot EXCEPT ![x.head] = NoMsg]]
<1>1. S \in Nat \ {0} /\ x \in Ring(S) /\ x.head # x.tail /\ f[q] = Content(x, S)
  BY RpmiAssumption DEF RingsHold
<1>2. y \in Ring(S) /\ Content(y, S) = Tail(Content(x, S))
  <2> HIDE DEF S, x
  <2> QED
    BY <1>1, Messages, TakeDrops
<1>3. Take(r, q) = [r EXCEPT ![q] = y]
  BY Zenon DEF Take
<1>4. x.slot[x.head] \in RpmiMsg
  BY <1>1 DEF Ring
<1> HIDE DEF y
<1> QED
  BY <1>1, <1>2, <1>3, <1>4 DEF RingsHold

\* The receipt of the first message, which is one.
LEMMA RecvKeeps ==
  ASSUME NEW q \in RpmiQueue, RingsHold(ring, fifo), RecvMsg(q)
  PROVE  RingsHold(ring', fifo') /\ RingFirst(q) \in RpmiMsg
  BY TakeKeeps DEF RecvMsg, RingEmpty, RingFirst

\* The end of a call, of any rings and contents.
LEMMA AgedKeeps ==
  ASSUME NEW r, NEW f, RingsHold(r, f)
  PROVE  RingsHold(Aged(r), AgedFifo(f))
<1> SUFFICES ASSUME NEW q \in RpmiQueue
             PROVE  Aged(r)[q] \in Ring(MsgSlots[q])
                    /\ AgedFifo(f)[q] = Content(Aged(r)[q], MsgSlots[q])
  BY DEF RingsHold, Aged, AgedFifo
<1> DEFINE S == MsgSlots[q]
           x == r[q]
           y == [x EXCEPT !.slot = [i \in DOMAIN @ |-> Old(@[i])]]
<1>1. S \in Nat \ {0} /\ x \in Ring(S) /\ f[q] = Content(x, S)
  BY RpmiAssumption DEF RingsHold
<1>2. y \in Ring(S) /\ Content(y, S) = [i \in DOMAIN Content(x, S) |-> Old(Content(x, S)[i])]
  <2> HIDE DEF S, x
  <2> QED
    BY <1>1, Messages, AgedMarks
<1>3. Aged(r)[q] = y /\ AgedFifo(f)[q] = [i \in DOMAIN f[q] |-> Old(f[q][i])]
  BY DEF Aged, AgedFifo
<1> QED
  BY <1>1, <1>2, <1>3
-------------------------------------------------------------------------------
\* The rings are empty.
LEMMA InitRpmiInv == RpmiInit => RpmiInv
<1> SUFFICES ASSUME RpmiInit PROVE RpmiInv
  OBVIOUS
<1>1. ASSUME NEW q \in RpmiQueue
      PROVE  ring[q] \in Ring(MsgSlots[q]) /\ fifo[q] = Content(ring[q], MsgSlots[q])
  <2> DEFINE S == MsgSlots[q]
             x == [head |-> 0, tail |-> 0, slot |-> [i \in 0 .. S - 1 |-> NoMsg]]
  <2>1. ring[q] = x /\ fifo[q] = <<>> /\ S \in Nat \ {0}
    BY RpmiAssumption DEF RpmiInit
  <2> HIDE DEF S
  <2>2. x \in Ring(S)
    <3>1. 0 \in 0 .. S - 1
      BY <2>1
    <3>2. [i \in 0 .. S - 1 |-> NoMsg] \in [0 .. S - 1 -> RpmiMsg]
      BY Messages, Zenon
    <3> QED
      BY <3>1, <3>2, Zenon DEF Ring
  <2>3. Len(Content(x, S)) = 0 /\ Content(x, S) \in Seq(RpmiMsg)
    <3>1. x.head = 0 /\ x.tail = 0
      OBVIOUS
    <3> HIDE DEF x
    <3>2. /\ Content(x, S) \in Seq(RpmiMsg) /\ Len(Content(x, S)) = Count(x, S)
          /\ Count(x, S) = IF x.tail < x.head THEN x.tail + S - x.head ELSE x.tail - x.head
      BY <2>1, <2>2, ContentType
    <3> QED
      BY <3>1, <3>2
  <2>4. Content(x, S) = <<>>
    BY <2>3, EmptySeq
  <2> QED
    BY <2>1, <2>2, <2>4 DEF S
<1>2. RingsHold(ring, fifo)
  BY <1>1 DEF RingsHold, RpmiInit
<1>3. CallsHold
  <2>1. call \in [RpmiHart -> RpmiMsg]
    BY Messages, Zenon DEF RpmiInit
  <2>2. next_token \in 0 .. TokenMod - 1
    BY RpmiAssumption DEF RpmiInit
  <2>3. puc = [todo |-> "poll", msg |-> NoMsg, target |-> tried, enabled |-> tried]
    BY DEF RpmiInit
  <2>4. /\ puc = [todo |-> puc.todo, msg |-> puc.msg, target |-> puc.target, enabled |-> puc.enabled]
        /\ puc.msg = NoMsg
    BY <2>3
  <2> QED
    BY <2>1, <2>2, <2>4, Messages DEF CallsHold
<1> QED
  BY <1>2, <1>3 DEF RpmiInv

\* One step per action: a send, a receipt, the end of a call, or none of these.
LEMMA NextRpmiInv == RpmiInv /\ [RpmiNext]_rpmiVars => RpmiInv'
<1> SUFFICES ASSUME RpmiInv, [RpmiNext]_rpmiVars PROVE RpmiInv'
  OBVIOUS
<1> USE DEF RpmiInv
<1>q. /\ "A2P_REQ" \in RpmiQueue /\ "P2A_ACK" \in RpmiQueue
      /\ "P2A_REQ" \in RpmiQueue /\ "A2P_ACK" \in RpmiQueue
  BY DEF RpmiQueue
<1>s. ASSUME UNCHANGED <<ring, fifo>> PROVE RingsHold(ring, fifo)'
  BY <1>s DEF RingsHold
<1>c. ASSUME UNCHANGED <<call, next_token, puc>> PROVE CallsHold'
  BY <1>c DEF CallsHold
<1>t. next_token \in 0 .. TokenMod - 1 /\ (next_token + 1) % TokenMod \in 0 .. TokenMod - 1
  BY RpmiAssumption DEF CallsHold
<1>1. ASSUME NEW h \in RpmiHart, RpmiCalled(h) PROVE RpmiInv'
  <2>1. CallsHold'
    BY <1>1, Messages DEF CallsHold, RpmiCalled, RpmiRequest, RpmiPost, RpmiPoll
  <2> QED
    BY <1>1, <1>s, <2>1 DEF RpmiCalled
<1>2. ASSUME NEW h \in RpmiHart, ContextLock(h) PROVE RpmiInv'
  <2>1. CallsHold'
    <3>1. [call[h] EXCEPT !.tok = next_token] \in RpmiMsg
      BY <1>t, Messages DEF CallsHold
    <3> QED
      BY <1>2, <1>t, <3>1 DEF CallsHold, ContextLock
  <2> QED
    BY <1>2, <1>s, <2>1 DEF ContextLock
<1>3. ASSUME NEW h \in RpmiHart, SendRequest(h) PROVE RpmiInv'
  <2>1. call[h] \in RpmiMsg
    BY DEF CallsHold
  <2> QED
    BY <1>3, <1>c, <1>q, <2>1, SendKeeps DEF SendRequest
<1>4. ASSUME NEW h \in RpmiHart, RequestExpires(h) PROVE RpmiInv'
  <2>1. CallsHold'
    BY <1>4, Messages DEF CallsHold, RequestExpires
  <2>2. ring' = Aged(ring) /\ fifo' = AgedFifo(fifo)
    BY <1>4 DEF RequestExpires
  <2> QED
    BY <2>1, <2>2, AgedKeeps
<1>5. ASSUME NEW h \in RpmiHart, WaitAck(h) PROVE RpmiInv'
  <2>1. CallsHold'
    BY <1>5, Messages DEF CallsHold, WaitAck
  <2>2. \/ /\ ~RingEmpty("P2A_ACK")
           /\ ring' = Aged(Take(ring, "P2A_ACK"))
           /\ fifo' = AgedFifo([fifo EXCEPT !["P2A_ACK"] = Tail(@)])
        \/ RecvMsg("P2A_ACK")
    BY <1>5 DEF WaitAck
  <2>3. CASE RecvMsg("P2A_ACK")
    BY <1>q, <2>1, <2>3, RecvKeeps
  <2>4. CASE /\ ~RingEmpty("P2A_ACK")
             /\ ring' = Aged(Take(ring, "P2A_ACK"))
             /\ fifo' = AgedFifo([fifo EXCEPT !["P2A_ACK"] = Tail(@)])
    <3>1. RingsHold(Take(ring, "P2A_ACK"), [fifo EXCEPT !["P2A_ACK"] = Tail(@)])
      BY <1>q, <2>4, TakeKeeps DEF RingEmpty
    <3> QED
      BY <2>1, <2>4, <3>1, AgedKeeps
  <2> QED
    BY <2>2, <2>3, <2>4
<1>6. ASSUME NEW h \in RpmiHart, AfterRequest(h) PROVE RpmiInv'
  <2>1. CallsHold'
    BY <1>6, Messages DEF CallsHold, AfterRequest, RpmiRequest, RpmiPoll
  <2> QED
    BY <1>6, <1>s, <2>1 DEF AfterRequest
<1>7. ASSUME NEW h \in RpmiHart, AfterSetupCall(h) PROVE RpmiInv'
  <2>1. CallsHold'
    BY <1>7, Messages DEF CallsHold, AfterSetupCall, RpmiPoll
  <2> QED
    BY <1>7, <1>s, <2>1 DEF AfterSetupCall
<1>8. ASSUME NEW h \in RpmiHart, AfterPoll(h) PROVE RpmiInv'
  <2>1. CallsHold'
    BY <1>8, Messages DEF CallsHold, AfterPoll, RpmiRequest, RpmiPoll, RpmiReturns
  <2> QED
    BY <1>8, <1>s, <2>1 DEF AfterPoll
<1>9. ASSUME NEW h \in RpmiHart, DoorbellIrq(h) \/ DoorbellIrqNested(h) PROVE RpmiInv'
  BY <1>9, <1>s, <1>c DEF DoorbellIrq, DoorbellIrqNested
<1>10. ASSUME NEW t \in RpmiThread,
              UnlockFlag(t) \/ UnlockRelease(t) \/ UnlockRecheck(t) \/ UnlockRetry(t)
       PROVE  RpmiInv'
  BY <1>10, <1>s, <1>c DEF UnlockFlag, UnlockRelease, UnlockRecheck, UnlockRetry
<1>11. ASSUME NEW t \in RpmiThread, DrainStep(t) PROVE RpmiInv'
  <2>1. RecvMsg("P2A_REQ") \/ UNCHANGED <<ring, fifo>>
    BY <1>11 DEF DrainStep
  <2>2. CallsHold'
    BY <1>11, <1>c DEF DrainStep
  <2> QED
    BY <1>q, <1>s, <2>1, <2>2, RecvKeeps
<1>12. ASSUME NEW t \in RpmiThread, DrainAck(t) PROVE RpmiInv'
  <2>1. [NoMsg EXCEPT !.type = "ack"] \in RpmiMsg
    BY Messages
  <2>2. CallsHold'
    BY <1>12, <1>c DEF DrainAck
  <2>3. RingsHold(ring, fifo)'
    BY <1>12, <1>q, <1>s, <2>1, SendKeeps DEF DrainAck
  <2> QED
    BY <2>2, <2>3
<1>13. ASSUME PucPoll PROVE RpmiInv'
  <2>1. RingsHold(ring, fifo)' /\ RingFirst("A2P_REQ") \in RpmiMsg
    BY <1>13, <1>q, RecvKeeps DEF PucPoll
  <2>2. CallsHold'
    BY <1>13, <2>1, Messages DEF CallsHold, PucPoll, clientVars
  <2> QED
    BY <2>1, <2>2
<1>14. ASSUME PucAnswer PROVE RpmiInv'
  <2>1. \A type \in {"ack", "nack", "misfit"} : [puc.msg EXCEPT !.type = type] \in RpmiMsg
    BY Messages DEF CallsHold
  <2>2. RingsHold(ring, fifo)'
    BY <1>14, <1>q, <1>s, <2>1, SendKeeps DEF PucAnswer
  <2>3. CallsHold'
    BY <1>14, Messages DEF CallsHold, PucAnswer, clientVars
  <2> QED
    BY <2>2, <2>3
<1>15. ASSUME PucNotify PROVE RpmiInv'
  <2>1. \A type \in {"note", "request", "misfit"} : [NoMsg EXCEPT !.type = type] \in RpmiMsg
    BY Messages
  <2>2. RingsHold(ring, fifo)'
    BY <1>15, <1>q, <1>s, <2>1, SendKeeps DEF PucNotify
  <2>3. CallsHold'
    BY <1>15 DEF CallsHold, PucNotify, clientVars
  <2> QED
    BY <2>2, <2>3
<1>16. ASSUME PucRing PROVE RpmiInv'
  <2>1. CallsHold'
    BY <1>16 DEF CallsHold, PucRing, clientVars
  <2> QED
    BY <1>16, <1>s, <2>1 DEF PucRing
<1>17. ASSUME PucTakeAck PROVE RpmiInv'
  BY <1>17, <1>c, <1>q, RecvKeeps DEF PucTakeAck, clientVars
<1>18. CASE UNCHANGED rpmiVars
  BY <1>18, <1>s, <1>c DEF rpmiVars
<1> HIDE DEF RpmiInv
<1> QED
  BY <1>1, <1>2, <1>3, <1>4, <1>5, <1>6, <1>7, <1>8, <1>9, <1>10, <1>11, <1>12, <1>13, <1>14,
     <1>15, <1>16, <1>17, <1>18, Zenon DEF RpmiNext, RpmiClientStep, RpmiUnlockStep

(***************************************************************************)
(* A ring of the shared memory transport holds what was sent on it and not *)
(* yet received, in order, however often its indices have come round:      *)
(* rpmi_shmem_send() overwrites nothing and rpmi_shmem_recv() skips        *)
(* nothing, whatever the harts, the doorbell and the PuC do meanwhile.     *)
(***************************************************************************)
THEOREM RingsAreQueues == RpmiSpec => []RingIsFifo
<1>1. RpmiInv => RingIsFifo
  BY DEF RpmiInv, RingsHold, Content, Count, RingIsFifo
<1> QED
  BY <1>1, InitRpmiInv, NextRpmiInv, PTL DEF RpmiSpec
================================================================================
