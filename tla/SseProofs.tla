------------------------------- MODULE SseProofs -------------------------------
(***************************************************************************)
(* Proofs about Sse, for any number of harts, any events and any           *)
(* priorities: the RUNNING events of a hart are the handlers S-mode is in, *)
(* each outranking the ones it interrupted, and an event that can be       *)
(* delivered is not forgotten.                                             *)
(*                                                                         *)
(* The invariant adds to the two properties what they rest on.  A stopped  *)
(* hart is in no handler, no hart runs before the global events are ready, *)
(* and no global event runs on a stopped hart unless the domain stops.  A  *)
(* hart that has an event due has kick set wherever it is in the monitor,  *)
(* not only in S-mode and asleep.                                          *)
(***************************************************************************)
EXTENDS Sse, SequenceTheorems, WellFoundedInduction, TLAPS

-------------------------------------------------------------------------------
(* The order of the events *)

\* The smallest of a set of naturals, which is how global_target() picks a hart.
LEMMA LeastNatural ==
  ASSUME NEW S \in SUBSET Nat, S # {}
  PROVE  \E n \in S : \A m \in S : n <= m
<1> DEFINE R == OpToRel(<, Nat)
<1>1. \E n \in S : \A m \in S : ~(<<m, n>> \in R)
  <2>1. IsWellFoundedOn(R, Nat)
    BY NatLessThanWellFounded
  <2> HIDE DEF R
  <2> QED
    BY <2>1, WFMin
<1>2. \A m, n \in Nat : m < n => <<m, n>> \in R
  BY DEF OpToRel
<1> HIDE DEF R
<1>3. PICK n \in S : \A m \in S : ~(<<m, n>> \in R)
  BY <1>1
<1>4. \A m \in S : n <= m
  <2> TAKE m \in S
  <2>1. m \in Nat /\ n \in Nat /\ ~(<<m, n>> \in R)
    BY <1>3
  <2>2. ~(m < n)
    BY <1>2, <2>1
  <2> QED
    BY <2>1, <2>2
<1> QED
  BY <1>4

\* Harts are naturals, the first of them 0, and no hart is NoHart.
LEMMA HartFacts == Hart \subseteq Nat /\ 0 \in Hart /\ NoHart \notin Hart
BY SseAssumption DEF Hart, NoHart

\* An event is its id and its hart, which a global one has none of.
LEMMA EventFacts ==
  /\ \A i \in LocalId, h \in Hart :
       <<i, h>> \in Event /\ ~IsGlobal(<<i, h>>) /\ EventOf(i, h) = <<i, h>>
  /\ \A i \in LocalId \cup GlobalId, h \in Hart : EventOf(i, h) \in Event
  /\ \A e \in Event : /\ Id(e) \in Nat
                      /\ IsGlobal(e) => e[2] \notin Hart
                      /\ ~IsGlobal(e) => e[2] \in Hart
  /\ \A e, f \in Event : Id(e) = Id(f) /\ (IsGlobal(e) \/ e[2] = f[2]) => e = f
<1> USE SseAssumption, HartFacts
<1>1. ASSUME NEW i \in LocalId, NEW h \in Hart
      PROVE  <<i, h>> \in Event /\ ~IsGlobal(<<i, h>>) /\ EventOf(i, h) = <<i, h>>
  BY DEF Event, IsGlobal, EventOf, Id
<1>2. ASSUME NEW i \in LocalId \cup GlobalId, NEW h \in Hart
      PROVE  EventOf(i, h) \in Event
  BY DEF Event, EventOf
<1>3. ASSUME NEW e \in Event
      PROVE  /\ Id(e) \in Nat
             /\ IsGlobal(e) => e[2] \notin Hart
             /\ ~IsGlobal(e) => e[2] \in Hart
  BY DEF Event, IsGlobal, Id
<1>4. ASSUME NEW e \in Event, NEW f \in Event, Id(e) = Id(f), IsGlobal(e) \/ e[2] = f[2]
      PROVE  e = f
  <2>1. \A g \in Event : g = <<g[1], g[2]>> /\ (IsGlobal(g) => g[2] = NoHart)
    <3> TAKE g \in Event
    <3>1. g = <<g[1], g[2]>>
      BY DEF Event
    <3>2. CASE g \in LocalId \X Hart
      BY <3>1, <3>2 DEF IsGlobal, Id
    <3>3. CASE g \in GlobalId \X {NoHart}
      BY <3>1, <3>3
    <3> QED
      BY <3>1, <3>2, <3>3 DEF Event
  <2>2. IsGlobal(e) => IsGlobal(f)
    BY <1>4 DEF IsGlobal
  <2>3. e[1] = f[1] /\ e[2] = f[2]
    BY <1>4, <2>1, <2>2 DEF Id
  <2> QED
    BY <2>1, <2>3
<1> QED
  BY <1>1, <1>2, <1>3, <1>4

\* top_event() compares priorities, then ids: a strict order, in which any two
\* events of one hart compare.
LEMMA RankIsOrder ==
  ASSUME TypeOK
  PROVE  /\ \A a \in Event : ~Outranks(a, a)
         /\ \A a, b \in Event : Outranks(a, b) => ~Outranks(b, a)
         /\ \A a, b, c \in Event : Outranks(a, b) /\ Outranks(b, c) => Outranks(a, c)
         /\ \A a, b \in Event : a # b /\ hart[a] = hart[b] => Outranks(a, b) \/ Outranks(b, a)
<1>1. \A a \in Event : prio[a] \in Nat /\ Id(a) \in Nat
  BY SseAssumption, EventFacts DEF TypeOK
<1>2. ASSUME NEW a \in Event, NEW b \in Event, a # b, hart[a] = hart[b]
      PROVE  Id(a) # Id(b)
  <2>1. SUFFICES ASSUME Id(a) = Id(b) PROVE FALSE
    OBVIOUS
  <2>2. CASE IsGlobal(a)
    BY <1>2, <2>1, <2>2, EventFacts
  <2>3. CASE ~IsGlobal(a)
    <3>1. ~IsGlobal(b)
      BY <2>1, <2>3 DEF IsGlobal
    <3>2. a[2] = b[2]
      BY <1>2, <2>3, <3>1 DEF TypeOK
    <3> QED
      BY <1>2, <2>1, <3>2, EventFacts
  <2> QED
    BY <2>2, <2>3
<1>3. \A a \in Event : ~Outranks(a, a)
  BY <1>1 DEF Outranks
<1>4. \A a, b \in Event : Outranks(a, b) => ~Outranks(b, a)
  BY <1>1 DEF Outranks
<1>5. \A a, b, c \in Event : Outranks(a, b) /\ Outranks(b, c) => Outranks(a, c)
  BY <1>1 DEF Outranks
<1>6. \A a, b \in Event : a # b /\ hart[a] = hart[b] => Outranks(a, b) \/ Outranks(b, a)
  BY <1>1, <1>2 DEF Outranks
<1> QED
  BY <1>3, <1>4, <1>5, <1>6

\* global_target() is a hart of the domain.
LEMMA GlobalTargetIsHart ==
  ASSUME TypeOK, NEW e \in Event, NEW h \in Hart
  PROVE  GlobalTarget(e, h) \in Hart
<1> DEFINE others == {t \in Hart : Listens(t)}
           least == CHOOSE t \in others : \A u \in others : t <= u
<1>1. others # {} => least \in Hart
  <2>1. others \in SUBSET Nat
    BY HartFacts
  <2>2. others \subseteq Hart
    OBVIOUS
  <2> HIDE DEF others
  <2> QED
    BY <2>1, <2>2, LeastNatural
<1>2. pref[e] \in Hart
  BY DEF TypeOK
<1>3. GlobalTarget(e, h) \in {pref[e], h, IF others = {} THEN pref[e] ELSE least}
  <2> HIDE DEF others
  <2> QED
    BY DEF GlobalTarget, others
<1> QED
  BY <1>1, <1>2, <1>3

-------------------------------------------------------------------------------
(* The invariant *)

\* A stopped hart is in no handler, harts run only once sse_hart_init() has set up
\* the global events, and none of these is left RUNNING on a stopped hart, except
\* until the domain's stop is over.
StoppedHasNoHandler ==
  /\ \A h \in Hart : pc[h] = "stopped" => stack[h] = <<>>
  /\ ~ready => \A h \in Hart : pc[h] = "stopped"
  /\ ready /\ ~stopping =>
       \A e \in Event : IsGlobal(e) /\ status[e] = "RUNNING" => pc[hart[e]] # "stopped"

\* A hart with an event due has kick set, anywhere but stopped or away; where it
\* may stay, an IPI or its late entry into S-mode is there to be followed.
DueIsKicked ==
  \A h \in Hart :
    /\ Due(h) /\ pc[h] \notin {"stopped", "away"} => kick[h]
    /\ Due(h) /\ pc[h] \in {"smode", "wfi"} => ipi[h] \/ late[h]

SseInv == TypeOK /\ HandlersNest /\ StoppedHasNoHandler /\ DueIsKicked

\* The handlers hart h is in are its RUNNING events, in their order.
Nests(h) ==
  /\ Candidates(h, "RUNNING") = Range(stack[h])
  /\ \A i, j \in DOMAIN stack[h] : i < j => Outranks(stack[h][j], stack[h][i])

\* The top RUNNING event is the innermost handler.
LEMMA TopIsInnermost ==
  ASSUME TypeOK, NEW h \in Hart, Nests(h)
  PROVE  /\ \A e \in TopEvent(h, "RUNNING") : stack[h] # <<>> /\ e = stack[h][Len(stack[h])]
         /\ stack[h] # <<>> => stack[h][Len(stack[h])] \in TopEvent(h, "RUNNING")
<1>1. stack[h] \in Seq(Event)
  BY DEF TypeOK
<1> DEFINE s == stack[h]
           n == Len(s)
<1>2. n \in Nat /\ DOMAIN s = 1 .. n /\ s \in [1 .. n -> Event]
  BY <1>1, LenProperties
<1>3. Candidates(h, "RUNNING") = {s[i] : i \in 1 .. n}
  BY <1>2 DEF Nests, Range
<1>4. \A i, j \in 1 .. n : i < j => Outranks(s[j], s[i])
  BY <1>2 DEF Nests
<1>5. \A i \in 1 .. n : s[i] \in Event
  BY <1>2
<1>6. s # <<>> => n \in 1 .. n
  BY <1>1, <1>2, EmptySeq
<1>7. s[Len(s)] = s[n]
  BY DEF n
<1> HIDE DEF s, n
<1>8. ASSUME NEW e \in TopEvent(h, "RUNNING") PROVE s # <<>> /\ e = s[n]
  <2>1. PICK i \in 1 .. n : e = s[i]
    BY <1>3 DEF TopEvent
  <2>2. s # <<>> /\ n \in 1 .. n
    BY <1>2, <2>1 DEF n
  <2>3. SUFFICES ASSUME i < n PROVE FALSE
    BY <1>2, <2>1, <2>2
  <2>4. Outranks(s[n], e) /\ s[n] \in Event /\ e \in Event
    BY <1>4, <1>5, <2>1, <2>2, <2>3
  <2>5. s[n] # e
    BY <2>4, RankIsOrder
  <2>6. s[n] \in Candidates(h, "RUNNING") \ {e}
    BY <1>3, <2>2, <2>5
  <2>7. Outranks(e, s[n])
    BY <2>6 DEF TopEvent
  <2> QED
    BY <2>4, <2>7, RankIsOrder
<1>9. ASSUME s # <<>> PROVE s[n] \in TopEvent(h, "RUNNING")
  <2>1. n \in 1 .. n
    BY <1>6, <1>9
  <2>2. s[n] \in Candidates(h, "RUNNING")
    BY <1>3, <2>1
  <2>3. ASSUME NEW f \in Candidates(h, "RUNNING") \ {s[n]} PROVE Outranks(s[n], f)
    <3>1. PICK i \in 1 .. n : f = s[i]
      BY <1>3, <2>3
    <3>2. i < n
      BY <1>2, <2>3, <3>1
    <3> QED
      BY <1>4, <2>1, <3>1, <3>2
  <2> QED
    BY <2>2, <2>3 DEF TopEvent
<1> QED
  BY <1>7, <1>8, <1>9 DEF s

\* An event that stops waiting makes no other one due: the next one is outranked by
\* it, or was the first already.
LEMMA DueOnlyFades ==
  ASSUME TypeOK, NEW k \in Hart, NEW d,
         unmasked'[k] => unmasked[k],
         Candidates(k, "RUNNING")' = Candidates(k, "RUNNING"),
         Candidates(k, "ENABLED")' \subseteq Candidates(k, "ENABLED"),
         Candidates(k, "ENABLED") \subseteq Candidates(k, "ENABLED")' \cup {d},
         \A e \in Candidates(k, "RUNNING") \cup Candidates(k, "ENABLED") : prio'[e] = prio[e],
         Due(k)'
  PROVE  Due(k)
<1> DEFINE E == Candidates(k, "ENABLED")
           R == Candidates(k, "RUNNING")
<1>1. \A e \in E \cup R : e \in Event /\ hart[e] = k
  BY DEF Candidates
<1>2. \A e, f \in E \cup R : Outranks(e, f)' <=> Outranks(e, f)
  BY DEF Outranks
<1>3. TopEvent(k, "RUNNING")' = TopEvent(k, "RUNNING") /\ TopEvent(k, "RUNNING") \subseteq R
  BY <1>2 DEF TopEvent
<1>4. PICK f \in E' :
        (\A g \in E' \ {f} : Outranks(f, g)') /\ (\A r \in TopEvent(k, "RUNNING")' : Outranks(f, r)')
  BY DEF Due, TopEvent
<1>5. /\ unmasked[k] /\ f \in E
      /\ \A g \in E \ {f, d} : Outranks(f, g)
      /\ \A r \in TopEvent(k, "RUNNING") : Outranks(f, r)
  <2>1. unmasked[k] /\ f \in E
    BY <1>4 DEF Due
  <2>2. \A g \in E \ {f, d} : Outranks(f, g)
    BY <1>2, <1>4, <2>1
  <2>3. \A r \in TopEvent(k, "RUNNING") : Outranks(f, r)
    BY <1>2, <1>3, <1>4, <2>1
  <2> QED
    BY <2>1, <2>2, <2>3
<1> HIDE DEF E, R
<1>6. CASE d \notin E \/ d = f \/ Outranks(f, d)
  <2>1. f \in TopEvent(k, "ENABLED")
    BY <1>5, <1>6 DEF TopEvent, E
  <2> QED
    BY <1>5, <2>1 DEF Due
<1>7. CASE d \in E /\ d # f /\ ~Outranks(f, d)
  <2>1. Outranks(d, f) /\ d \in Event /\ f \in Event
    BY <1>1, <1>5, <1>7, RankIsOrder
  <2>2. ASSUME NEW g \in E \ {d} PROVE Outranks(d, g)
    <3>1. CASE g = f
      BY <2>1, <3>1
    <3>2. CASE g # f
      <4>1. Outranks(f, g) /\ g \in Event
        BY <1>1, <1>5, <2>2, <3>2
      <4> QED
        BY <2>1, <4>1, RankIsOrder
    <3> QED
      BY <3>1, <3>2
  <2>3. d \in TopEvent(k, "ENABLED")
    BY <1>7, <2>2 DEF TopEvent, E
  <2>4. ASSUME NEW r \in TopEvent(k, "RUNNING") PROVE Outranks(d, r)
    <3>1. Outranks(f, r) /\ r \in Event
      BY <1>1, <1>3, <1>5, <2>4
    <3> QED
      BY <2>1, <3>1, RankIsOrder
  <2> QED
    BY <1>5, <2>3, <2>4 DEF Due
<1> QED
  BY <1>6, <1>7

-------------------------------------------------------------------------------
(* Steps that leave the handlers alone *)

\* Who is RUNNING where, and in what order, stays as it is; so does who is stopped.
Unnested ==
  /\ UNCHANGED <<ready, stopping, stack>>
  /\ \A e \in Event : status'[e] = "RUNNING" <=> status[e] = "RUNNING"
  /\ \A e \in Event : status[e] = "RUNNING" => hart'[e] = hart[e] /\ prio'[e] = prio[e]
  /\ \A h \in Hart : pc'[h] = "stopped" <=> pc[h] = "stopped"

LEMMA UnnestedRunning ==
  ASSUME Unnested, NEW h \in Hart
  PROVE  /\ Candidates(h, "RUNNING")' = Candidates(h, "RUNNING")
         /\ \A e \in Candidates(h, "RUNNING") : prio'[e] = prio[e]
BY DEF Unnested, Candidates

LEMMA UnnestedStep ==
  ASSUME TypeOK, HandlersNest, StoppedHasNoHandler, Unnested
  PROVE  HandlersNest' /\ StoppedHasNoHandler'
<1>1. ASSUME NEW h \in Hart, pc'[h] # "stopped" PROVE Nests(h)'
  <2>1. Nests(h) /\ stack' = stack
    BY <1>1 DEF HandlersNest, Nests, Unnested
  <2>2. stack[h] \in Seq(Event)
    BY DEF TypeOK
  <2>3. \A i \in DOMAIN stack[h] : stack[h][i] \in Candidates(h, "RUNNING")
    BY <2>1 DEF Nests, Range
  <2>4. ASSUME NEW i \in DOMAIN stack[h], NEW j \in DOMAIN stack[h], i < j
        PROVE  Outranks(stack[h][j], stack[h][i])'
    <3>1. Outranks(stack[h][j], stack[h][i])
      BY <2>1, <2>4 DEF Nests
    <3>2. prio'[stack[h][j]] = prio[stack[h][j]] /\ prio'[stack[h][i]] = prio[stack[h][i]]
      BY <2>3, UnnestedRunning
    <3> QED
      BY <2>1, <3>1, <3>2 DEF Outranks
  <2>5. Candidates(h, "RUNNING")' = Range(stack[h])'
    BY <2>1, UnnestedRunning DEF Nests
  <2> QED
    BY <2>1, <2>4, <2>5 DEF Nests
<1>2. HandlersNest'
  BY <1>1 DEF HandlersNest, Nests
<1>3. \A e \in Event : status[e] = "RUNNING" => hart'[e] = hart[e] /\ hart[e] \in Hart
  BY DEF TypeOK, Unnested
<1>4. StoppedHasNoHandler'
  BY <1>3 DEF StoppedHasNoHandler, Unnested
<1> QED
  BY <1>2, <1>4

\* What a hart does with itself: its own flags and where it is.  kick is kept, or
\* set, or not needed; and where the hart is to stay it has nothing due or is late.
HartMoves(h) ==
  /\ TypeOK' /\ UNCHANGED <<events, stack>>
  /\ \A k \in Hart \ {h} :
       /\ pc'[k] = pc[k] /\ unmasked'[k] = unmasked[k]
       /\ kick'[k] = kick[k] /\ ipi'[k] = ipi[k] /\ late'[k] = late[k]
  /\ pc'[h] = "stopped" <=> pc[h] = "stopped"
  /\ \/ pc'[h] \in {"stopped", "away"}
     \/ kick'[h] /\ (pc'[h] \in {"smode", "wfi"} => late'[h])
     \/ ~unmasked'[h]
     \/ /\ unmasked'[h] => unmasked[h]
        /\ pc[h] \notin {"stopped", "away"}
        /\ \/ ~kick[h] \/ ~Due(h)
           \/ kick'[h] /\ (pc'[h] \in {"smode", "wfi"} => late'[h])

LEMMA HartStep ==
  ASSUME SseInv, NEW h \in Hart, HartMoves(h)
  PROVE  SseInv'
<1>1. /\ TypeOK /\ HandlersNest /\ StoppedHasNoHandler /\ DueIsKicked
      /\ TypeOK' /\ UNCHANGED <<status, pending, hart, prio, ready, stopping, stack>>
  BY DEF SseInv, HartMoves, events, attrs
<1>2. Unnested
  BY <1>1 DEF Unnested, HartMoves
<1>3. \A k \in Hart : /\ Candidates(k, "RUNNING")' = Candidates(k, "RUNNING")
                      /\ Candidates(k, "ENABLED")' = Candidates(k, "ENABLED")
  BY <1>1 DEF Candidates
<1>4. ASSUME NEW k \in Hart, unmasked'[k] => unmasked[k], Due(k)' PROVE Due(k)
  <2>1. \A e \in Candidates(k, "RUNNING") \cup Candidates(k, "ENABLED") : prio'[e] = prio[e]
    BY <1>1
  <2> QED
    BY <1>1, <1>3, <1>4, <2>1, DueOnlyFades
<1>5. ASSUME NEW k \in Hart, Due(k)', pc'[k] \notin {"stopped", "away"}
      PROVE  kick'[k] /\ (pc'[k] \in {"smode", "wfi"} => ipi'[k] \/ late'[k])
  <2>1. CASE k # h
    <3>1. Due(k) /\ pc[k] \notin {"stopped", "away"}
      BY <1>4, <1>5, <2>1 DEF HartMoves
    <3>2. kick[k] /\ (pc[k] \in {"smode", "wfi"} => ipi[k] \/ late[k])
      BY <1>1, <3>1 DEF DueIsKicked
    <3> QED
      BY <2>1, <3>2 DEF HartMoves
  <2>2. CASE k = h
    <3>1. unmasked'[h]
      BY <1>5, <2>2 DEF Due
    <3>2. CASE kick'[h] /\ (pc'[h] \in {"smode", "wfi"} => late'[h])
      BY <2>2, <3>2
    <3>3. CASE ~(kick'[h] /\ (pc'[h] \in {"smode", "wfi"} => late'[h]))
      <4>1. /\ (unmasked'[h] => unmasked[h]) /\ pc[h] \notin {"stopped", "away"}
            /\ ~kick[h] \/ ~Due(h)
        BY <1>5, <2>2, <3>1, <3>3 DEF HartMoves
      <4>2. Due(h)
        BY <1>4, <1>5, <2>2, <4>1
      <4> QED
        BY <1>1, <4>1, <4>2 DEF DueIsKicked
    <3> QED
      BY <3>2, <3>3
  <2> QED
    BY <2>1, <2>2
<1>6. DueIsKicked'
  BY <1>5 DEF DueIsKicked
<1>7. HandlersNest' /\ StoppedHasNoHandler'
  BY <1>1, <1>2, UnnestedStep
<1> QED
  BY <1>1, <1>6, <1>7 DEF SseInv

\* What hart h does with the events, in a trap or on its way through the monitor,
\* short of entering or leaving a handler: every hart is kicked, or it has no event
\* more to take than before and at most one, d, less.
EventMoves(h, d) ==
  /\ TypeOK' /\ Unnested /\ UNCHANGED unmasked
  /\ \A k \in Hart \ {h} : pc'[k] = pc[k] /\ late'[k] = late[k]
  /\ pc'[h] \notin {"smode", "wfi"} /\ (pc'[h] = "away" <=> pc[h] = "away")
  /\ \A k \in Hart : (kick[k] => kick'[k]) /\ (ipi[k] => ipi'[k])
  /\ \A k \in Hart :
       \/ kick'[k] /\ (k = h \/ ipi'[k])
       \/ /\ Candidates(k, "ENABLED")' \subseteq Candidates(k, "ENABLED")
          /\ Candidates(k, "ENABLED") \subseteq Candidates(k, "ENABLED")' \cup {d}
          /\ \A e \in Candidates(k, "ENABLED") : prio'[e] = prio[e]

LEMMA EventStep ==
  ASSUME SseInv, NEW h \in Hart, NEW d, EventMoves(h, d)
  PROVE  SseInv'
<1>1. /\ TypeOK /\ HandlersNest /\ StoppedHasNoHandler /\ DueIsKicked
      /\ TypeOK' /\ Unnested /\ UNCHANGED unmasked
  BY DEF SseInv, EventMoves
<1>2. ASSUME NEW k \in Hart, Due(k)', pc'[k] \notin {"stopped", "away"}
      PROVE  kick'[k] /\ (pc'[k] \in {"smode", "wfi"} => ipi'[k] \/ late'[k])
  <2>1. CASE kick'[k] /\ (k = h \/ ipi'[k])
    BY <2>1 DEF EventMoves
  <2>2. CASE ~(kick'[k] /\ (k = h \/ ipi'[k]))
    <3>1. /\ Candidates(k, "ENABLED")' \subseteq Candidates(k, "ENABLED")
          /\ Candidates(k, "ENABLED") \subseteq Candidates(k, "ENABLED")' \cup {d}
          /\ \A e \in Candidates(k, "ENABLED") : prio'[e] = prio[e]
      BY <2>2 DEF EventMoves
    <3>2. /\ Candidates(k, "RUNNING")' = Candidates(k, "RUNNING")
          /\ \A e \in Candidates(k, "RUNNING") : prio'[e] = prio[e]
      BY <1>1, UnnestedRunning
    <3>3. /\ \A e \in Candidates(k, "RUNNING") \cup Candidates(k, "ENABLED") : prio'[e] = prio[e]
          /\ unmasked'[k] => unmasked[k]
      BY <1>1, <3>1, <3>2
    <3>4. Due(k)
      BY <1>1, <1>2, <3>1, <3>2, <3>3, DueOnlyFades
    <3>5. pc[k] \notin {"stopped", "away"}
      BY <1>1, <1>2 DEF EventMoves, Unnested
    <3>6. kick[k] /\ (pc[k] \in {"smode", "wfi"} => ipi[k] \/ late[k])
      BY <1>1, <3>4, <3>5 DEF DueIsKicked
    <3> QED
      BY <3>6 DEF EventMoves
  <2> QED
    BY <2>1, <2>2
<1>3. DueIsKicked'
  BY <1>2 DEF DueIsKicked
<1>4. HandlersNest' /\ StoppedHasNoHandler'
  BY <1>1, UnnestedStep
<1> QED
  BY <1>1, <1>3, <1>4 DEF SseInv

-------------------------------------------------------------------------------
(* The steps of one hart *)

\* A field of a hart that one step sets.
LEMMA PutHart ==
  ASSUME NEW R, NEW f \in [Hart -> R], NEW h \in Hart, NEW v \in R,
         NEW g, g = [f EXCEPT ![h] = v]
  PROVE  g \in [Hart -> R] /\ g[h] = v /\ \A k \in Hart \ {h} : g[k] = f[k]
OBVIOUS

\* Where the hart goes.
LEMMA GotoFacts ==
  ASSUME TypeOK, NEW h \in Hart, NEW from, NEW to \in Label, Goto(h, from, to)
  PROVE  /\ pc[h] = from /\ pc' \in [Hart -> Label] /\ pc'[h] = to
         /\ \A k \in Hart \ {h} : pc'[k] = pc[k]
BY DEF Goto, TypeOK

\* A trap from S-mode.
LEMMA CallFacts ==
  ASSUME TypeOK, NEW h \in Hart, Call(h)
  PROVE  /\ pc[h] = "smode" /\ pc' \in [Hart -> Label] /\ pc'[h] = "tail"
         /\ late' \in [Hart -> BOOLEAN]
         /\ \A k \in Hart \ {h} : pc'[k] = pc[k] /\ late'[k] = late[k]
<1>1. Goto(h, "smode", "tail") /\ late' = [late EXCEPT ![h] = FALSE]
  BY DEF Call
<1>2. "tail" \in Label
  BY DEF Label
<1>3. late \in [Hart -> BOOLEAN]
  BY DEF TypeOK
<1>4. late' \in [Hart -> BOOLEAN] /\ \A k \in Hart \ {h} : late'[k] = late[k]
  BY <1>1, <1>3
<1> QED
  BY <1>1, <1>2, <1>4, GotoFacts

\* The types, when only a hart's own fields change.
LEMMA HartTypes ==
  ASSUME TypeOK, UNCHANGED <<events, stack>>, pc' \in [Hart -> Label],
         unmasked' \in [Hart -> BOOLEAN], kick' \in [Hart -> BOOLEAN],
         ipi' \in [Hart -> BOOLEAN], late' \in [Hart -> BOOLEAN]
  PROVE  TypeOK'
BY DEF TypeOK, events, attrs

\* Traps and the calls that change a flag.
LEMMA TrapSteps ==
  ASSUME SseInv, NEW h \in Hart,
         Trap(h) \/ TrapIpi(h) \/ HartUnmask(h) \/ HartMask(h)
  PROVE  SseInv'
<1>1. TypeOK
  BY DEF SseInv
<1>2. /\ unmasked \in [Hart -> BOOLEAN] /\ kick \in [Hart -> BOOLEAN]
      /\ ipi \in [Hart -> BOOLEAN]
  BY <1>1 DEF TypeOK
<1>3. Call(h) /\ UNCHANGED <<events, stack>>
  BY DEF Trap, TrapIpi, HartUnmask, HartMask
<1>4. /\ pc[h] = "smode" /\ pc' \in [Hart -> Label] /\ pc'[h] = "tail"
      /\ late' \in [Hart -> BOOLEAN]
      /\ \A k \in Hart \ {h} : pc'[k] = pc[k] /\ late'[k] = late[k]
  BY <1>1, <1>3, CallFacts
<1>5. /\ unmasked' \in [Hart -> BOOLEAN] /\ kick' \in [Hart -> BOOLEAN]
      /\ ipi' \in [Hart -> BOOLEAN]
      /\ \A k \in Hart \ {h} : /\ unmasked'[k] = unmasked[k]
                               /\ kick'[k] = kick[k] /\ ipi'[k] = ipi[k]
  BY <1>2 DEF Trap, TrapIpi, HartUnmask, HartMask
<1>6. \/ kick'[h] \/ ~unmasked'[h]
      \/ unmasked' = unmasked /\ kick' = kick
  BY <1>2 DEF Trap, TrapIpi, HartUnmask, HartMask
<1>7. TypeOK'
  BY <1>1, <1>3, <1>4, <1>5, HartTypes
<1>8. HartMoves(h)
  BY <1>3, <1>4, <1>5, <1>6, <1>7 DEF HartMoves
<1> QED
  BY <1>8, HartStep

\* The way out of the monitor with nothing to do, and the steps of a suspended hart.
LEMMA SuspendSteps ==
  ASSUME SseInv, NEW h \in Hart,
         \/ TrapExit(h) \/ Suspend(h) \/ Suspended(h) \/ SleepCheck(h) \/ WfiEnds(h)
         \/ Wake(h) \/ Resume(h) \/ ResumeNonRetentive(h)
  PROVE  SseInv'
<1>1. TypeOK
  BY DEF SseInv
<1>2. ipi \in [Hart -> BOOLEAN] /\ late \in [Hart -> BOOLEAN] /\ kick \in [Hart -> BOOLEAN]
  BY <1>1 DEF TypeOK
<1>3. UNCHANGED <<events, stack, unmasked, kick>>
  BY DEF TrapExit, Suspend, Suspended, SleepCheck, WfiEnds, Wake, Resume, ResumeNonRetentive
<1>4. /\ ipi' \in [Hart -> BOOLEAN] /\ late' \in [Hart -> BOOLEAN]
      /\ \A k \in Hart \ {h} : ipi'[k] = ipi[k] /\ late'[k] = late[k]
  BY <1>2 DEF TrapExit, Suspend, Suspended, SleepCheck, WfiEnds, Wake, Resume, ResumeNonRetentive
<1>5. \E from, to \in Label :
        /\ Goto(h, from, to) /\ from \notin {"stopped", "away"} /\ to \notin {"stopped", "away"}
        /\ to \in {"smode", "wfi"} => ~kick[h] \/ late'[h]
  <2>1. CASE TrapExit(h) \/ SleepCheck(h)
    BY <2>1 DEF TrapExit, SleepCheck, Label
  <2>2. CASE Suspend(h) \/ Suspended(h) \/ WfiEnds(h) \/ Wake(h) \/ Resume(h)
    BY <2>2 DEF Suspend, Suspended, WfiEnds, Wake, Resume, Label
  <2>3. CASE ResumeNonRetentive(h)
    BY <1>2, <2>3 DEF ResumeNonRetentive, Label
  <2> QED
    BY <2>1, <2>2, <2>3
<1>6. PICK from, to \in Label :
        /\ Goto(h, from, to) /\ from \notin {"stopped", "away"} /\ to \notin {"stopped", "away"}
        /\ to \in {"smode", "wfi"} => ~kick[h] \/ late'[h]
  BY <1>5
<1>7. /\ pc[h] = from /\ pc' \in [Hart -> Label] /\ pc'[h] = to
      /\ \A k \in Hart \ {h} : pc'[k] = pc[k]
  BY <1>1, <1>6, GotoFacts
<1>8. TypeOK'
  <2>1. unmasked' \in [Hart -> BOOLEAN] /\ kick' \in [Hart -> BOOLEAN]
    BY <1>1, <1>3 DEF TypeOK
  <2> QED
    BY <1>1, <1>3, <1>4, <1>7, <2>1, HartTypes
<1>9. HartMoves(h)
  BY <1>3, <1>4, <1>6, <1>7, <1>8 DEF HartMoves
<1> QED
  BY <1>9, HartStep

\* To another domain and back.
LEMMA AwaySteps ==
  ASSUME SseInv, NEW h \in Hart,
         Leave(h) \/ AwayTrap(h) \/ Return(h) \/ ReturnStopped(h)
  PROVE  SseInv'
<1>1. TypeOK
  BY DEF SseInv
<1>2. ipi \in [Hart -> BOOLEAN] /\ late \in [Hart -> BOOLEAN] /\ kick \in [Hart -> BOOLEAN]
  BY <1>1 DEF TypeOK
<1>3. UNCHANGED <<events, stack, unmasked>>
  BY DEF Leave, AwayTrap, Return, ReturnStopped
<1>4. /\ ipi' \in [Hart -> BOOLEAN] /\ late' \in [Hart -> BOOLEAN] /\ kick' \in [Hart -> BOOLEAN]
      /\ \A k \in Hart \ {h} : ipi'[k] = ipi[k] /\ late'[k] = late[k] /\ kick'[k] = kick[k]
  BY <1>2 DEF Leave, AwayTrap, Return, ReturnStopped
<1>5. /\ pc[h] # "stopped" /\ pc' \in [Hart -> Label] /\ pc'[h] # "stopped"
      /\ \A k \in Hart \ {h} : pc'[k] = pc[k]
      /\ pc'[h] = "away" \/ (kick'[h] /\ (pc'[h] \in {"smode", "wfi"} => late'[h]))
  <2>1. CASE Leave(h)
    <3>1. Goto(h, "smode", "away") /\ "away" \in Label
      BY <2>1 DEF Leave, Label
    <3> QED
      BY <1>1, <3>1, GotoFacts
  <2>2. CASE AwayTrap(h)
    BY <1>1, <2>2 DEF AwayTrap, TypeOK
  <2>3. CASE Return(h)
    <3>1. Goto(h, "away", "tail") /\ "tail" \in Label /\ kick'[h]
      BY <1>2, <2>3 DEF Return, Label
    <3> QED
      BY <1>1, <3>1, GotoFacts
  <2>4. CASE ReturnStopped(h)
    <3>1. Goto(h, "away", "smode") /\ "smode" \in Label /\ kick'[h] /\ late'[h]
      BY <1>2, <2>4 DEF ReturnStopped, Label
    <3> QED
      BY <1>1, <3>1, GotoFacts
  <2> QED
    BY <2>1, <2>2, <2>3, <2>4
<1>6. TypeOK'
  <2>1. unmasked' \in [Hart -> BOOLEAN]
    BY <1>1, <1>3 DEF TypeOK
  <2> QED
    BY <1>1, <1>3, <1>4, <1>5, <2>1, HartTypes
<1>7. HartMoves(h)
  BY <1>3, <1>4, <1>5, <1>6 DEF HartMoves
<1> QED
  BY <1>7, HartStep

-------------------------------------------------------------------------------
(* The steps on events *)

\* sse_register(), sse_unregister(), sse_disable() and sse_write_attrs(): only an
\* event that is not being handled changes, and none becomes ENABLED.
LEMMA QuietSteps ==
  ASSUME SseInv, NEW h \in Hart, NEW e \in Event, TypeOK', Call(h),
         UNCHANGED <<ready, stopping, stack, unmasked, kick, ipi>>,
         status[e] # "RUNNING", status'[e] \notin {"ENABLED", "RUNNING"},
         \A f \in Event \ {e} : /\ status'[f] = status[f] /\ pending'[f] = pending[f]
                               /\ hart'[f] = hart[f] /\ prio'[f] = prio[f],
         status[e] = "ENABLED" => prio'[e] = prio[e]
  PROVE  SseInv'
<1>1. TypeOK
  BY DEF SseInv
<1>2. /\ pc[h] = "smode" /\ pc'[h] = "tail"
      /\ \A k \in Hart \ {h} : pc'[k] = pc[k] /\ late'[k] = late[k]
  BY <1>1, CallFacts
<1>3. Unnested
  BY <1>2 DEF Unnested
<1>4. ASSUME NEW k \in Hart
      PROVE  /\ Candidates(k, "ENABLED")' \subseteq Candidates(k, "ENABLED")
             /\ Candidates(k, "ENABLED") \subseteq Candidates(k, "ENABLED")' \cup {e}
             /\ \A f \in Candidates(k, "ENABLED") : prio'[f] = prio[f]
  BY DEF Candidates
<1>5. EventMoves(h, e)
  BY <1>2, <1>3, <1>4 DEF EventMoves
<1> QED
  BY <1>5, EventStep

LEMMA RegisterStep ==
  ASSUME SseInv, NEW h \in Hart, NEW i \in LocalId \cup GlobalId,
         Register(h, i) \/ Disable(h, i)
  PROVE  SseInv'
<1> DEFINE e == EventOf(i, h)
<1>1. e \in Event
  BY EventFacts
<1>2. TypeOK
  BY DEF SseInv
<1>3. /\ Call(h) /\ status[e] \in {"UNUSED", "ENABLED"}
      /\ status' = [status EXCEPT ![e] = "REGISTERED"]
      /\ UNCHANGED <<pending, hart, prio, oneshot, pref, ready, stopping, unmasked, kick, ipi, stack>>
  BY DEF Register, Disable, attrs
<1> HIDE DEF e
<1>4. pc' \in [Hart -> Label] /\ late' \in [Hart -> BOOLEAN]
  BY <1>2, <1>3, CallFacts
<1>5. /\ status' \in [Event -> Status] /\ status'[e] = "REGISTERED"
      /\ \A f \in Event \ {e} : status'[f] = status[f]
  BY <1>1, <1>2, <1>3 DEF TypeOK, Status
<1>6. TypeOK'
  BY <1>2, <1>3, <1>4, <1>5 DEF TypeOK
<1> QED
  BY <1>1, <1>3, <1>5, <1>6, QuietSteps

LEMMA UnregisterStep ==
  ASSUME SseInv, NEW h \in Hart, NEW i \in LocalId \cup GlobalId, Unregister(h, i)
  PROVE  SseInv'
<1> DEFINE e == EventOf(i, h)
<1>1. e \in Event
  BY EventFacts
<1>2. TypeOK
  BY DEF SseInv
<1>3. /\ Call(h) /\ status[e] = "REGISTERED" /\ Reset({e}, hart[e])
      /\ UNCHANGED <<ready, stopping, unmasked, kick, ipi, stack>>
  BY DEF Unregister
<1> HIDE DEF e
<1>4. pc' \in [Hart -> Label] /\ late' \in [Hart -> BOOLEAN]
  BY <1>2, <1>3, CallFacts
<1>5. TypeOK'
  <2>1. status' \in [Event -> Status] /\ hart' \in [Event -> Hart] /\ pref' \in [Event -> Hart]
    BY <1>1, <1>2, <1>3 DEF TypeOK, Reset, Status
  <2>2. prio' \in [Event -> Priority]
    BY <1>2, <1>3, SseAssumption DEF TypeOK, Reset
  <2>3. pending' \in [Event -> BOOLEAN] /\ oneshot' \in [Event -> BOOLEAN]
    BY <1>2, <1>3 DEF TypeOK, Reset
  <2>4. \A f \in Event : ~IsGlobal(f) => hart'[f] = f[2] /\ pref'[f] = f[2]
    BY <1>2, <1>3 DEF TypeOK, Reset
  <2> QED
    BY <1>2, <1>3, <1>4, <2>1, <2>2, <2>3, <2>4 DEF TypeOK
<1>6. /\ status'[e] = "UNUSED"
      /\ \A f \in Event \ {e} : /\ status'[f] = status[f] /\ pending'[f] = pending[f]
                                /\ hart'[f] = hart[f] /\ prio'[f] = prio[f]
  <2>1. \A f \in Event \ {e} : pending'[f] = pending[f]
    BY <1>2, <1>3 DEF TypeOK, Reset
  <2> QED
    BY <1>1, <1>3, <2>1 DEF Reset
<1> QED
  BY <1>1, <1>3, <1>5, <1>6, QuietSteps

LEMMA WriteAttrsStep ==
  ASSUME SseInv, NEW h \in Hart, NEW i \in LocalId \cup GlobalId, WriteAttrs(h, i)
  PROVE  SseInv'
<1> DEFINE e == EventOf(i, h)
<1>1. e \in Event
  BY EventFacts
<1>2. TypeOK
  BY DEF SseInv
<1>3. /\ Call(h) /\ status[e] \in {"UNUSED", "REGISTERED"}
      /\ UNCHANGED <<status, pending, hart, ready, stopping, unmasked, kick, ipi, stack>>
  BY DEF WriteAttrs
<1>4. \/ (\E p \in Priority : prio' = [prio EXCEPT ![e] = p]) /\ UNCHANGED <<oneshot, pref>>
      \/ oneshot' = [oneshot EXCEPT ![e] = ~oneshot[e]] /\ UNCHANGED <<prio, pref>>
      \/ IsGlobal(e) /\ (\E t \in Hart : pref' = [pref EXCEPT ![e] = t]) /\ UNCHANGED <<prio, oneshot>>
  BY DEF WriteAttrs
<1> HIDE DEF e
<1>5. pc' \in [Hart -> Label] /\ late' \in [Hart -> BOOLEAN]
  BY <1>2, <1>3, CallFacts
<1>6. /\ prio' \in [Event -> Priority]
      /\ \A f \in Event \ {e} : prio'[f] = prio[f]
  BY <1>1, <1>2, <1>4 DEF TypeOK
<1>7. pref' \in [Event -> Hart] /\ \A f \in Event : ~IsGlobal(f) => pref'[f] = pref[f]
  BY <1>1, <1>2, <1>4 DEF TypeOK
<1>8. oneshot' \in [Event -> BOOLEAN]
  BY <1>1, <1>2, <1>4 DEF TypeOK
<1>9. TypeOK'
  BY <1>2, <1>3, <1>5, <1>6, <1>7, <1>8 DEF TypeOK
<1> QED
  BY <1>1, <1>3, <1>6, <1>9, QuietSteps

\* make_pending(): the event has a hart, which is kicked, by an IPI if it is another
\* one.  An event that is being handled stays on its hart.
LEMMA MakePendingFacts ==
  ASSUME TypeOK, NEW e \in Event, NEW h \in Hart, MakePending(e, h)
  PROVE  \E t \in Hart :
           /\ pending' = [pending EXCEPT ![e] = TRUE]
           /\ hart' = [hart EXCEPT ![e] = t]
           /\ kick' = [kick EXCEPT ![t] = TRUE]
           /\ ipi' = [ipi EXCEPT ![t] = ipi[t] \/ t # h]
           /\ ~IsGlobal(e) \/ status[e] = "RUNNING" => t = hart[e]
<1> DEFINE t == IF IsGlobal(e) /\ status[e] # "RUNNING" THEN GlobalTarget(e, h) ELSE hart[e]
<1>1. t \in Hart
  <2>1. hart[e] \in Hart /\ GlobalTarget(e, h) \in Hart
    BY GlobalTargetIsHart DEF TypeOK
  <2> QED
    BY <2>1
<1>2. /\ pending' = [pending EXCEPT ![e] = TRUE]
      /\ hart' = [hart EXCEPT ![e] = t]
      /\ kick' = [kick EXCEPT ![t] = TRUE]
      /\ ipi' = [ipi EXCEPT ![t] = ipi[t] \/ t # h]
  BY DEF MakePending
<1>3. ~IsGlobal(e) \/ status[e] = "RUNNING" => t = hart[e]
  OBVIOUS
<1> HIDE DEF t
<1> QED
  BY <1>1, <1>2, <1>3

\* A hart that makes an event pending, which may be one it enables.
LEMMA RaiseStep ==
  ASSUME SseInv, NEW h \in Hart, NEW e \in Event, MakePending(e, h),
         UNCHANGED <<attrs, ready, stopping, unmasked, stack>>,
         \/ UNCHANGED status
         \/ status[e] = "REGISTERED" /\ status' = [status EXCEPT ![e] = "ENABLED"],
         Call(h) \/ (pc[h] \in {"sleep", "stopped", "away"} /\ UNCHANGED <<pc, late>>)
  PROVE  SseInv'
<1>1. TypeOK
  BY DEF SseInv
<1>2. PICK t \in Hart :
        /\ pending' = [pending EXCEPT ![e] = TRUE]
        /\ hart' = [hart EXCEPT ![e] = t]
        /\ kick' = [kick EXCEPT ![t] = TRUE]
        /\ ipi' = [ipi EXCEPT ![t] = ipi[t] \/ t # h]
        /\ ~IsGlobal(e) \/ status[e] = "RUNNING" => t = hart[e]
  BY <1>1, MakePendingFacts
<1>3. /\ pc' \in [Hart -> Label] /\ late' \in [Hart -> BOOLEAN]
      /\ \A k \in Hart \ {h} : pc'[k] = pc[k] /\ late'[k] = late[k]
      /\ pc'[h] \notin {"smode", "wfi"} /\ (pc'[h] = "away" <=> pc[h] = "away")
      /\ pc'[h] = "stopped" <=> pc[h] = "stopped"
  <2>1. CASE Call(h)
    BY <1>1, <2>1, CallFacts
  <2>2. CASE pc[h] \in {"sleep", "stopped", "away"} /\ UNCHANGED <<pc, late>>
    BY <1>1, <2>2 DEF TypeOK
  <2> QED
    BY <2>1, <2>2
<1>4. /\ status' \in [Event -> Status] /\ \A f \in Event \ {e} : status'[f] = status[f]
      /\ status'[e] = "RUNNING" <=> status[e] = "RUNNING"
  BY <1>1 DEF TypeOK, Status
<1>5. /\ hart' \in [Event -> Hart] /\ hart'[e] = t
      /\ \A f \in Event \ {e} : hart'[f] = hart[f]
  BY <1>1, <1>2 DEF TypeOK
<1>6. pending' \in [Event -> BOOLEAN] /\ \A f \in Event \ {e} : pending'[f] = pending[f]
  BY <1>1, <1>2 DEF TypeOK
<1>7. /\ kick' \in [Hart -> BOOLEAN] /\ kick'[t]
      /\ \A k \in Hart : kick[k] => kick'[k]
  BY <1>1, <1>2 DEF TypeOK
<1>8. /\ ipi' \in [Hart -> BOOLEAN] /\ (t = h \/ ipi'[t])
      /\ \A k \in Hart : ipi[k] => ipi'[k]
  BY <1>1, <1>2 DEF TypeOK
<1>9. TypeOK'
  BY <1>1, <1>2, <1>3, <1>4, <1>5, <1>6, <1>7, <1>8 DEF TypeOK, attrs
<1>10. Unnested
  <2>1. \A f \in Event : status'[f] = "RUNNING" <=> status[f] = "RUNNING"
    BY <1>4
  <2>2. \A f \in Event : status[f] = "RUNNING" => hart'[f] = hart[f]
    BY <1>2, <1>5
  <2>3. \A k \in Hart : pc'[k] = "stopped" <=> pc[k] = "stopped"
    BY <1>3
  <2> QED
    BY <2>1, <2>2, <2>3 DEF Unnested, attrs
<1>11. ASSUME NEW k \in Hart \ {t}
       PROVE  /\ Candidates(k, "ENABLED")' \subseteq Candidates(k, "ENABLED")
              /\ Candidates(k, "ENABLED") \subseteq Candidates(k, "ENABLED")' \cup {e}
              /\ \A f \in Candidates(k, "ENABLED") : prio'[f] = prio[f]
  BY <1>4, <1>5, <1>6 DEF Candidates, attrs
<1>12. EventMoves(h, e)
  BY <1>3, <1>7, <1>8, <1>9, <1>10, <1>11 DEF EventMoves
<1> QED
  BY <1>12, EventStep

\* sse_enable(), sse_inject() and the sources in the monitor.
LEMMA RaiseSteps ==
  ASSUME SseInv, NEW h \in Hart
  PROVE  /\ \A i \in LocalId \cup GlobalId, t \in Hart : Inject(h, i, t) => SseInv'
         /\ \A i \in LocalId : RaiseLocal(h, i) => SseInv'
         /\ \A i \in GlobalId : RaiseGlobal(h, i) => SseInv'
<1>1. ASSUME NEW i \in LocalId \cup GlobalId, NEW t \in Hart, Inject(h, i, t) PROVE SseInv'
  <2>1. EventOf(i, t) \in Event
    BY EventFacts
  <2>2. /\ Call(h) /\ MakePending(EventOf(i, t), h)
        /\ UNCHANGED <<status, attrs, ready, stopping, unmasked, stack>>
    BY <1>1 DEF Inject
  <2> QED
    BY <2>1, <2>2, RaiseStep
<1>2. ASSUME NEW i \in LocalId, RaiseLocal(h, i) PROVE SseInv'
  <2>1. <<i, h>> \in Event
    BY EventFacts
  <2>2. /\ Call(h) /\ MakePending(<<i, h>>, h)
        /\ UNCHANGED <<status, attrs, ready, stopping, unmasked, stack>>
    BY <1>2 DEF RaiseLocal
  <2> QED
    BY <2>1, <2>2, RaiseStep
<1>3. ASSUME NEW i \in GlobalId, RaiseGlobal(h, i) PROVE SseInv'
  <2>1. EventOf(i, h) \in Event
    BY EventFacts
  <2>2. /\ Call(h) \/ (pc[h] \in {"sleep", "stopped", "away"} /\ UNCHANGED <<pc, late>>)
        /\ MakePending(EventOf(i, h), h)
        /\ UNCHANGED <<status, attrs, ready, stopping, unmasked, stack>>
    BY <1>3 DEF RaiseGlobal
  <2> QED
    BY <2>1, <2>2, RaiseStep
<1> QED
  BY <1>1, <1>2, <1>3

LEMMA EnableStep ==
  ASSUME SseInv, NEW h \in Hart, NEW i \in LocalId \cup GlobalId, Enable(h, i)
  PROVE  SseInv'
<1> DEFINE e == EventOf(i, h)
<1>1. e \in Event
  BY EventFacts
<1>2. TypeOK
  BY DEF SseInv
<1>3. /\ Call(h) /\ status[e] = "REGISTERED" /\ status' = [status EXCEPT ![e] = "ENABLED"]
      /\ UNCHANGED <<attrs, ready, stopping, unmasked, stack>>
  BY DEF Enable
<1>4. pending[e] => MakePending(e, h)
  BY DEF Enable
<1>5. ~pending[e] => UNCHANGED <<pending, hart, kick, ipi>>
  BY DEF Enable
<1> HIDE DEF e
<1>6. CASE pending[e]
  BY <1>1, <1>3, <1>4, <1>6, RaiseStep
<1>7. CASE ~pending[e]
  <2>1. /\ pc[h] = "smode" /\ pc' \in [Hart -> Label] /\ pc'[h] = "tail"
        /\ late' \in [Hart -> BOOLEAN]
        /\ \A k \in Hart \ {h} : pc'[k] = pc[k] /\ late'[k] = late[k]
    BY <1>2, <1>3, CallFacts
  <2>2. /\ status' \in [Event -> Status] /\ status'[e] = "ENABLED"
        /\ \A f \in Event \ {e} : status'[f] = status[f]
    BY <1>1, <1>2, <1>3 DEF TypeOK, Status
  <2>3. UNCHANGED <<pending, hart, prio, oneshot, pref, kick, ipi>>
    BY <1>3, <1>5, <1>7 DEF attrs
  <2>4. TypeOK'
    BY <1>2, <1>3, <2>1, <2>2, <2>3 DEF TypeOK
  <2>5. Unnested
    BY <1>3, <2>1, <2>2, <2>3 DEF Unnested
  <2>6. \A k \in Hart : Candidates(k, "ENABLED")' = Candidates(k, "ENABLED")
    BY <1>3, <1>7, <2>2, <2>3 DEF Candidates
  <2>7. EventMoves(h, e)
    BY <1>3, <2>1, <2>3, <2>4, <2>5, <2>6 DEF EventMoves
  <2> QED
    BY <2>7, EventStep
<1> QED
  BY <1>6, <1>7

-------------------------------------------------------------------------------
(* Into a handler and out of it *)

\* What hart h does with an event of its own is nothing to the other harts.
LEMMA OtherHarts ==
  ASSUME TypeOK, HandlersNest, DueIsKicked, NEW h \in Hart, NEW e \in Event, hart[e] = h,
         UNCHANGED <<hart, prio, unmasked>>,
         \A f \in Event \ {e} : status'[f] = status[f] /\ pending'[f] = pending[f],
         NEW k \in Hart \ {h}, stack'[k] = stack[k], pc'[k] = pc[k], kick'[k] = kick[k],
         ipi'[k] = ipi[k], late'[k] = late[k]
  PROVE  /\ pc'[k] # "stopped" => Nests(k)'
         /\ Due(k)' /\ pc'[k] \notin {"stopped", "away"} => kick'[k]
         /\ Due(k)' /\ pc'[k] \in {"smode", "wfi"} => ipi'[k] \/ late'[k]
<1>1. /\ Candidates(k, "RUNNING")' = Candidates(k, "RUNNING")
      /\ Candidates(k, "ENABLED")' = Candidates(k, "ENABLED")
  BY DEF Candidates
<1>2. \A a, b : Outranks(a, b)' <=> Outranks(a, b)
  BY DEF Outranks
<1>3. Due(k)' => Due(k)
  BY <1>1, DueOnlyFades
<1>4. ASSUME pc'[k] # "stopped" PROVE Nests(k)'
  <2>1. Nests(k)
    BY <1>4 DEF HandlersNest, Nests
  <2>2. Candidates(k, "RUNNING")' = Range(stack[k])'
    BY <1>1, <2>1 DEF Nests, Range
  <2>3. \A i, j \in DOMAIN stack'[k] : i < j => Outranks(stack[k][j], stack[k][i])'
    BY <1>2, <2>1 DEF Nests
  <2> QED
    BY <2>2, <2>3 DEF Nests
<1> QED
  BY <1>3, <1>4 DEF DueIsKicked

\* The first of the events that wait is one.
LEMMA TopIsOne ==
  ASSUME TypeOK, NEW h, NEW s, NEW e \in TopEvent(h, s), NEW f \in TopEvent(h, s)
  PROVE  e = f
<1>1. e \in Event /\ f \in Event
  BY DEF TopEvent, Candidates
<1>2. e # f => Outranks(e, f) /\ Outranks(f, e)
  BY DEF TopEvent
<1> QED
  BY <1>1, <1>2, RankIsOrder

\* inject(): the event outranks the innermost handler, and so all of them.
LEMMA EnterHandler ==
  ASSUME TypeOK, NEW h \in Hart, Nests(h), NEW e \in TopEvent(h, "ENABLED"), Due(h)
  PROVE  \A r \in Candidates(h, "RUNNING") : Outranks(e, r)
<1>1. \A r \in TopEvent(h, "RUNNING") : Outranks(e, r)
  BY TopIsOne DEF Due
<1>2. SUFFICES ASSUME NEW r \in Candidates(h, "RUNNING") PROVE Outranks(e, r)
  OBVIOUS
<1>3. stack[h] \in Seq(Event)
  BY DEF TypeOK
<1>4. DOMAIN stack[h] = 1 .. Len(stack[h]) /\ Len(stack[h]) \in Nat
  BY <1>3, LenProperties
<1>5. PICK i \in 1 .. Len(stack[h]) : r = stack[h][i]
  BY <1>2, <1>4 DEF Nests, Range
<1>6. stack[h] # <<>>
  BY <1>4, <1>5
<1>7. stack[h][Len(stack[h])] \in TopEvent(h, "RUNNING")
  BY <1>6, TopIsInnermost
<1>8. e \in Event /\ r \in Event /\ stack[h][Len(stack[h])] \in Event
  BY <1>7 DEF TopEvent, Candidates
<1>9. r = stack[h][Len(stack[h])] \/ Outranks(stack[h][Len(stack[h])], r)
  BY <1>7 DEF TopEvent
<1> QED
  BY <1>1, <1>7, <1>8, <1>9, RankIsOrder

LEMMA ProcessStep ==
  ASSUME SseInv, NEW h \in Hart, Process(h)
  PROVE  SseInv'
<1>1. TypeOK /\ HandlersNest /\ StoppedHasNoHandler /\ DueIsKicked
  BY DEF SseInv
<1>2. /\ Goto(h, "tail", "smode")
      /\ kick' = [kick EXCEPT ![h] = TopEvent(h, "ENABLED") # {}]
      /\ UNCHANGED <<hart, prio, oneshot, pref, ready, stopping, unmasked, ipi, late>>
  BY DEF Process, attrs
<1>3. /\ pc[h] = "tail" /\ pc' \in [Hart -> Label] /\ pc'[h] = "smode"
      /\ \A k \in Hart \ {h} : pc'[k] = pc[k]
  BY <1>1, <1>2, GotoFacts DEF Label
<1>4. kick' \in [Hart -> BOOLEAN] /\ \A k \in Hart \ {h} : kick'[k] = kick[k]
  BY <1>1, <1>2 DEF TypeOK
<1>5. CASE ~Due(h)
  <2>1. UNCHANGED <<events, stack>>
    BY <1>2, <1>5 DEF Process, events, attrs
  <2>2. TypeOK'
    BY <1>1, <1>2, <1>3, <1>4, <2>1 DEF TypeOK, events, attrs
  <2>3. HartMoves(h)
    BY <1>2, <1>3, <1>4, <1>5, <2>1, <2>2 DEF HartMoves
  <2> QED
    BY <2>3, HartStep
<1>6. CASE Due(h)
  <2>1. PICK e \in TopEvent(h, "ENABLED") :
          /\ status' = [status EXCEPT ![e] = "RUNNING"]
          /\ pending' = [pending EXCEPT ![e] = FALSE]
          /\ stack' = [stack EXCEPT ![h] = Append(stack[h], e)]
    BY <1>6 DEF Process
  <2>2. e \in Event /\ hart[e] = h /\ status[e] = "ENABLED"
    BY DEF TopEvent, Candidates
  <2>3. /\ status' \in [Event -> Status] /\ status'[e] = "RUNNING"
        /\ \A f \in Event \ {e} : status'[f] = status[f]
    BY <1>1, <2>1, <2>2 DEF TypeOK, Status
  <2>4. pending' \in [Event -> BOOLEAN] /\ \A f \in Event \ {e} : pending'[f] = pending[f]
    BY <1>1, <2>1, <2>2 DEF TypeOK
  <2>5. /\ stack' \in [Hart -> Seq(Event)] /\ stack'[h] = Append(stack[h], e)
        /\ \A k \in Hart \ {h} : stack'[k] = stack[k]
    BY <1>1, <2>1, <2>2, AppendProperties DEF TypeOK
  <2>6. TypeOK'
    BY <1>1, <1>2, <1>3, <1>4, <2>3, <2>4, <2>5 DEF TypeOK
  <2>7. Nests(h)
    BY <1>1, <1>3 DEF HandlersNest, Nests
  <2>8. \A r \in Candidates(h, "RUNNING") : Outranks(e, r)
    BY <1>1, <1>6, <2>7, EnterHandler
  <2>9. Candidates(h, "RUNNING")' = Candidates(h, "RUNNING") \cup {e}
    BY <1>2, <2>2, <2>3 DEF Candidates
  <2>10. \A a, b : Outranks(a, b)' <=> Outranks(a, b)
    BY <1>2 DEF Outranks
  <2>11. Nests(h)'
    <3> DEFINE s == stack[h]
               n == Len(s)
    <3>1. s \in Seq(Event) /\ n \in Nat /\ DOMAIN s = 1 .. n
      BY <1>1, LenProperties DEF TypeOK
    <3>2. /\ Append(s, e) \in Seq(Event) /\ Len(Append(s, e)) = n + 1
          /\ \A i \in 1 .. n : Append(s, e)[i] = s[i]
          /\ Append(s, e)[n + 1] = e
      BY <2>2, <3>1, AppendProperties
    <3>3. DOMAIN Append(s, e) = 1 .. n + 1
      BY <3>2, LenProperties
    <3>4. Range(s) = {s[i] : i \in 1 .. n} /\ Candidates(h, "RUNNING") = Range(s)
      BY <2>7, <3>1 DEF Range, Nests
    <3>5. \A i, j \in 1 .. n : i < j => Outranks(s[j], s[i])
      BY <2>7, <3>1 DEF Nests
    <3> DEFINE q == Append(s, e)
    <3> HIDE DEF s, n, q
    <3>6. {q[i] : i \in 1 .. n + 1} = {s[i] : i \in 1 .. n} \cup {e}
      <4>1. \A i \in 1 .. n + 1 : q[i] = e \/ (i \in 1 .. n /\ q[i] = s[i])
        BY <3>1, <3>2 DEF q
      <4>2. \A i \in 1 .. n : i \in 1 .. n + 1 /\ q[i] = s[i]
        BY <3>1, <3>2 DEF q
      <4>3. n + 1 \in 1 .. n + 1 /\ q[n + 1] = e
        BY <3>1, <3>2 DEF q
      <4> QED
        BY <4>1, <4>2, <4>3
    <3>7. Range(q) = {q[i] : i \in 1 .. n + 1}
      BY <3>3 DEF q, Range
    <3>8. ASSUME NEW i \in 1 .. n + 1, NEW j \in 1 .. n + 1, i < j
          PROVE  Outranks(q[j], q[i])
      <4>1. i \in 1 .. n /\ q[i] = s[i]
        BY <3>1, <3>2, <3>8 DEF q
      <4>2. CASE j \in 1 .. n
        BY <3>2, <3>5, <3>8, <4>1, <4>2 DEF q
      <4>3. CASE j = n + 1
        BY <2>8, <3>2, <3>4, <4>1, <4>3 DEF q
      <4> QED
        BY <3>1, <4>2, <4>3
    <3>9. stack'[h] = q /\ DOMAIN q = 1 .. n + 1
      BY <2>5, <3>3 DEF q, s
    <3> QED
      BY <2>9, <2>10, <3>4, <3>6, <3>7, <3>8, <3>9 DEF Nests
  <2>12. ~Due(h)'
    <3>1. SUFFICES ASSUME NEW f \in TopEvent(h, "ENABLED")',
                          \A r \in TopEvent(h, "RUNNING")' : Outranks(f, r)'
                   PROVE  FALSE
      BY DEF Due
    <3>2. f \in Candidates(h, "ENABLED") \ {e} /\ f \in Event
      BY <1>2, <2>3, <2>4 DEF TopEvent, Candidates
    <3>3. e \in TopEvent(h, "RUNNING")'
      BY <2>8, <2>9, <2>10 DEF TopEvent
    <3>4. Outranks(f, e)
      BY <2>10, <3>1, <3>3
    <3>5. Outranks(e, f)
      BY <3>2 DEF TopEvent
    <3> QED
      BY <1>1, <2>2, <3>2, <3>4, <3>5, RankIsOrder
  <2>13. \A k \in Hart \ {h} :
           /\ pc'[k] # "stopped" => Nests(k)'
           /\ Due(k)' /\ pc'[k] \notin {"stopped", "away"} => kick'[k]
           /\ Due(k)' /\ pc'[k] \in {"smode", "wfi"} => ipi'[k] \/ late'[k]
    <3> TAKE k \in Hart \ {h}
    <3>1. /\ stack'[k] = stack[k] /\ pc'[k] = pc[k] /\ kick'[k] = kick[k]
          /\ ipi'[k] = ipi[k] /\ late'[k] = late[k]
      BY <1>2, <1>3, <1>4, <2>5
    <3>2. UNCHANGED <<hart, prio, unmasked>>
      BY <1>2
    <3> QED
      BY <1>1, <2>2, <2>3, <2>4, <3>1, <3>2, OtherHarts
  <2>14. HandlersNest' /\ DueIsKicked'
    BY <2>11, <2>12, <2>13 DEF HandlersNest, DueIsKicked, Nests
  <2>15. StoppedHasNoHandler'
    <3>1. ready
      BY <1>1, <1>3 DEF StoppedHasNoHandler
    <3>2. \A k \in Hart : pc'[k] = "stopped" => stack'[k] = <<>> /\ pc[k] = "stopped"
      BY <1>1, <1>3, <2>5 DEF StoppedHasNoHandler
    <3>3. \A f \in Event : hart[f] \in Hart
      BY <1>1 DEF TypeOK
    <3>4. ASSUME ~stopping, NEW f \in Event, IsGlobal(f), status'[f] = "RUNNING"
          PROVE  pc'[hart[f]] # "stopped"
      <4>1. CASE f = e
        BY <1>3, <2>2, <4>1
      <4>2. CASE f # e
        BY <1>1, <2>3, <3>1, <3>2, <3>3, <3>4, <4>2 DEF StoppedHasNoHandler
      <4> QED
        BY <4>1, <4>2
    <3> QED
      BY <1>2, <3>1, <3>2, <3>4 DEF StoppedHasNoHandler
  <2> QED
    BY <2>6, <2>14, <2>15 DEF SseInv
<1> QED
  BY <1>5, <1>6

\* sse_complete(): out of the innermost handler.
LEMMA CompleteStep ==
  ASSUME SseInv, NEW h \in Hart, Complete(h)
  PROVE  SseInv'
<1>1. TypeOK /\ HandlersNest /\ StoppedHasNoHandler /\ DueIsKicked
  BY DEF SseInv
<1>2. /\ Call(h)
      /\ kick' = [kick EXCEPT ![h] = TRUE]
      /\ stack' = [stack EXCEPT ![h] = SubSeq(stack[h], 1, Len(stack[h]) - 1)]
      /\ UNCHANGED <<pending, hart, prio, oneshot, pref, ready, stopping, unmasked, ipi>>
  BY DEF Complete, attrs
<1>3. PICK e \in TopEvent(h, "RUNNING") :
        status' = [status EXCEPT ![e] = IF oneshot[e] THEN "REGISTERED" ELSE "ENABLED"]
  BY DEF Complete
<1>4. /\ pc[h] = "smode" /\ pc' \in [Hart -> Label] /\ pc'[h] = "tail"
      /\ late' \in [Hart -> BOOLEAN]
      /\ \A k \in Hart \ {h} : pc'[k] = pc[k] /\ late'[k] = late[k]
  BY <1>1, <1>2, CallFacts
<1>5. e \in Event /\ hart[e] = h
  BY DEF TopEvent, Candidates
<1>6. /\ status' \in [Event -> Status] /\ status'[e] # "RUNNING"
      /\ \A f \in Event \ {e} : status'[f] = status[f]
  BY <1>1, <1>3, <1>5 DEF TypeOK, Status
<1>7. kick' \in [Hart -> BOOLEAN] /\ kick'[h] /\ \A k \in Hart \ {h} : kick'[k] = kick[k]
  BY <1>1, <1>2 DEF TypeOK
<1>8. Nests(h)
  BY <1>1, <1>4 DEF HandlersNest, Nests
<1>9. stack[h] # <<>> /\ e = stack[h][Len(stack[h])]
  BY <1>1, <1>8, TopIsInnermost
<1> DEFINE s == stack[h]
           n == Len(s)
           q == SubSeq(s, 1, n - 1)
<1>10. s \in Seq(Event) /\ n \in Nat \ {0} /\ DOMAIN s = 1 .. n /\ s \in [1 .. n -> Event]
  BY <1>1, <1>9, LenProperties, EmptySeq DEF TypeOK
<1>11. /\ q \in Seq(Event) /\ Len(q) = n - 1
       /\ \A i \in 1 .. n - 1 : q[i] = s[i]
  <2>1. \A i \in 1 .. n - 1 : s[i] \in Event
    BY <1>10
  <2> HIDE DEF s, n
  <2>2. /\ SubSeq(s, 1, n - 1) \in Seq(Event)
        /\ Len(SubSeq(s, 1, n - 1)) = IF 1 <= n - 1 THEN n - 1 - 1 + 1 ELSE 0
        /\ \A i \in 1 .. n - 1 - 1 + 1 : SubSeq(s, 1, n - 1)[i] = s[1 + i - 1]
    BY <1>10, <2>1, SubSeqProperties
  <2>3. q = SubSeq(s, 1, n - 1)
    BY DEF n
  <2> HIDE DEF q
  <2>4. Len(q) = n - 1
    BY <1>10, <2>2, <2>3
  <2>5. ASSUME NEW i \in 1 .. n - 1 PROVE q[i] = s[i]
    <3>1. i \in 1 .. n - 1 - 1 + 1 /\ 1 + i - 1 = i
      BY <1>10
    <3> QED
      BY <2>2, <2>3, <3>1
  <2> QED
    BY <2>2, <2>3, <2>4, <2>5
<1>12. DOMAIN q = 1 .. n - 1
  BY <1>11, LenProperties
<1>13. Candidates(h, "RUNNING") = {s[i] : i \in 1 .. n}
  BY <1>8, <1>10 DEF Nests, Range
<1>14. \A i, j \in 1 .. n : i < j => Outranks(s[j], s[i])
  BY <1>8, <1>10 DEF Nests
<1>15. e = s[n]
  BY <1>9
<1>16. stack' \in [Hart -> Seq(Event)] /\ stack'[h] = q /\ \A k \in Hart \ {h} : stack'[k] = stack[k]
  <2> HIDE DEF q
  <2>1. stack' = [stack EXCEPT ![h] = q]
    BY <1>2 DEF q
  <2> QED
    BY <1>1, <1>11, <2>1 DEF TypeOK
<1>17. Candidates(h, "RUNNING")' = Candidates(h, "RUNNING") \ {e}
  BY <1>2, <1>6 DEF Candidates
<1> HIDE DEF s, n, q
<1>18. \A i \in 1 .. n - 1 : s[i] # e
  <2> TAKE i \in 1 .. n - 1
  <2>1. i \in 1 .. n /\ n \in 1 .. n /\ i < n
    BY <1>10
  <2>2. Outranks(e, s[i]) /\ s[i] \in Event
    BY <1>10, <1>14, <1>15, <2>1
  <2> QED
    BY <1>1, <1>5, <2>2, RankIsOrder
<1>19. {q[i] : i \in 1 .. n - 1} = {s[i] : i \in 1 .. n} \ {e}
  <2>1. \A i \in 1 .. n - 1 : q[i] = s[i] /\ i \in 1 .. n /\ s[i] # e
    BY <1>10, <1>11, <1>18
  <2>2. \A i \in 1 .. n : s[i] = e \/ (i \in 1 .. n - 1 /\ q[i] = s[i])
    BY <1>10, <1>11, <1>15
  <2> QED
    BY <2>1, <2>2
<1>20. \A a, b : Outranks(a, b)' <=> Outranks(a, b)
  BY <1>2 DEF Outranks
<1>21. Nests(h)'
  <2>1. Range(q) = {q[i] : i \in 1 .. n - 1}
    BY <1>12 DEF Range
  <2>2. ASSUME NEW i \in 1 .. n - 1, NEW j \in 1 .. n - 1, i < j PROVE Outranks(q[j], q[i])
    <3>1. i \in 1 .. n /\ j \in 1 .. n /\ q[i] = s[i] /\ q[j] = s[j]
      BY <1>10, <1>11
    <3> QED
      BY <1>14, <2>2, <3>1
  <2> QED
    BY <1>12, <1>13, <1>16, <1>17, <1>19, <1>20, <2>1, <2>2 DEF Nests
<1>22. \A k \in Hart \ {h} :
         /\ pc'[k] # "stopped" => Nests(k)'
         /\ Due(k)' /\ pc'[k] \notin {"stopped", "away"} => kick'[k]
         /\ Due(k)' /\ pc'[k] \in {"smode", "wfi"} => ipi'[k] \/ late'[k]
  <2> TAKE k \in Hart \ {h}
  <2>1. /\ stack'[k] = stack[k] /\ pc'[k] = pc[k] /\ kick'[k] = kick[k]
        /\ ipi'[k] = ipi[k] /\ late'[k] = late[k]
    BY <1>2, <1>4, <1>7, <1>16
  <2>2. /\ UNCHANGED <<hart, prio, unmasked>>
        /\ \A f \in Event \ {e} : status'[f] = status[f] /\ pending'[f] = pending[f]
    BY <1>2, <1>6
  <2> QED
    BY <1>1, <1>5, <2>1, <2>2, OtherHarts
<1>23. HandlersNest' /\ DueIsKicked'
  BY <1>4, <1>7, <1>21, <1>22 DEF HandlersNest, DueIsKicked, Nests
<1>24. TypeOK'
  BY <1>1, <1>2, <1>4, <1>6, <1>7, <1>16 DEF TypeOK
<1>25. StoppedHasNoHandler'
  <2>1. \A k \in Hart : pc'[k] = "stopped" <=> pc[k] = "stopped"
    BY <1>4
  <2>2. \A k \in Hart : pc[k] = "stopped" => stack'[k] = <<>>
    BY <1>1, <1>4, <1>16 DEF StoppedHasNoHandler
  <2>3. \A f \in Event : hart[f] \in Hart
    BY <1>1 DEF TypeOK
  <2>4. \A f \in Event : status'[f] = "RUNNING" => status[f] = "RUNNING"
    BY <1>6
  <2> QED
    BY <1>1, <1>2, <2>1, <2>2, <2>3, <2>4 DEF StoppedHasNoHandler
<1> QED
  BY <1>23, <1>24, <1>25 DEF SseInv

-------------------------------------------------------------------------------
(* Harts come and go *)

\* While no event changes, none comes to outrank another.
LEMMA SameEvents ==
  ASSUME UNCHANGED <<status, pending, hart, prio>>
  PROVE  /\ \A a, b : Outranks(a, b)' <=> Outranks(a, b)
         /\ \A k, s : Candidates(k, s)' = Candidates(k, s)
         /\ \A k, s : TopEvent(k, s)' = TopEvent(k, s)
<1>1. \A a, b : Outranks(a, b)' <=> Outranks(a, b)
  BY DEF Outranks
<1>2. \A k, s : Candidates(k, s)' = Candidates(k, s)
  BY DEF Candidates
<1>3. \A k, s : TopEvent(k, s)' = TopEvent(k, s)
  BY <1>1, <1>2 DEF TopEvent
<1> QED
  BY <1>1, <1>2, <1>3

\* A hart stops outside of any handler.
LEMMA HartStopStep ==
  ASSUME SseInv, NEW h \in Hart, HartStop(h)
  PROVE  SseInv'
<1>1. TypeOK /\ HandlersNest /\ StoppedHasNoHandler /\ DueIsKicked
  BY DEF SseInv
<1>2. /\ stack[h] = <<>> /\ Goto(h, "smode", "stopped")
      /\ ipi' = [ipi EXCEPT ![h] = FALSE] /\ late' = [late EXCEPT ![h] = FALSE]
      /\ UNCHANGED <<events, unmasked, kick, stack>>
  BY DEF HartStop
<1>3. /\ pc[h] = "smode" /\ pc' \in [Hart -> Label] /\ pc'[h] = "stopped"
      /\ \A k \in Hart \ {h} : pc'[k] = pc[k]
  BY <1>1, <1>2, GotoFacts DEF Label
<1>4. /\ ipi' \in [Hart -> BOOLEAN] /\ late' \in [Hart -> BOOLEAN]
      /\ \A k \in Hart \ {h} : ipi'[k] = ipi[k] /\ late'[k] = late[k]
  BY <1>1, <1>2 DEF TypeOK
<1>5. TypeOK'
  <2>1. unmasked' \in [Hart -> BOOLEAN] /\ kick' \in [Hart -> BOOLEAN]
    BY <1>1, <1>2 DEF TypeOK
  <2> QED
    BY <1>1, <1>2, <1>3, <1>4, <2>1, HartTypes
<1>6. UNCHANGED <<status, pending, hart, prio, ready, stopping>>
  BY <1>2 DEF events, attrs
<1>7. \A k \in Hart : (Due(k)' <=> Due(k)) /\ (Nests(k)' <=> Nests(k))
  BY <1>2, <1>6, SameEvents DEF Due, Nests
<1>8. HandlersNest' /\ DueIsKicked'
  <2>1. ASSUME NEW k \in Hart
        PROVE  /\ pc'[k] # "stopped" => Nests(k)'
               /\ Due(k)' /\ pc'[k] \notin {"stopped", "away"} => kick'[k]
               /\ Due(k)' /\ pc'[k] \in {"smode", "wfi"} => ipi'[k] \/ late'[k]
    <3>1. CASE k = h
      BY <1>3, <3>1
    <3>2. CASE k # h
      <4>1. /\ pc[k] # "stopped" => Nests(k)
            /\ Due(k) /\ pc[k] \notin {"stopped", "away"} => kick[k]
            /\ Due(k) /\ pc[k] \in {"smode", "wfi"} => ipi[k] \/ late[k]
        BY <1>1 DEF HandlersNest, DueIsKicked, Nests
      <4> QED
        BY <1>2, <1>3, <1>4, <1>7, <3>2, <4>1
    <3> QED
      BY <3>1, <3>2
  <2> QED
    BY <2>1 DEF HandlersNest, DueIsKicked, Nests
<1>9. StoppedHasNoHandler'
  <2>1. ready
    BY <1>1, <1>3 DEF StoppedHasNoHandler
  <2>2. \A k \in Hart : pc'[k] = "stopped" => stack[k] = <<>>
    BY <1>1, <1>2, <1>3 DEF StoppedHasNoHandler
  <2>3. \A e \in Event : status[e] = "RUNNING" => hart[e] # h
    <3>1. Candidates(h, "RUNNING") = Range(<<>>)
      BY <1>1, <1>2, <1>3 DEF HandlersNest
    <3>2. Range(<<>>) = {}
      BY DEF Range
    <3> QED
      BY <3>1, <3>2 DEF Candidates
  <2>4. \A e \in Event : hart[e] \in Hart
    BY <1>1 DEF TypeOK
  <2>5. ASSUME ~stopping, NEW e \in Event, IsGlobal(e), status[e] = "RUNNING"
        PROVE  pc'[hart[e]] # "stopped"
    BY <1>1, <1>3, <2>1, <2>3, <2>4, <2>5 DEF StoppedHasNoHandler
  <2> QED
    BY <1>2, <1>6, <2>1, <2>2, <2>5 DEF StoppedHasNoHandler
<1> QED
  BY <1>5, <1>8, <1>9 DEF SseInv

\* The stop of a domain: its harts end where they are, and sse_domain_reset() is the
\* last of it.
LEMMA DomainStopSteps ==
  ASSUME SseInv, DomainStop \/ (\E h \in Hart : StopSelf(h)) \/ DomainReset
  PROVE  SseInv'
<1>1. TypeOK /\ HandlersNest /\ StoppedHasNoHandler /\ DueIsKicked
  BY DEF SseInv
<1>2. UNCHANGED <<status, pending, hart, prio, oneshot, pref, unmasked, kick, late>>
  BY DEF DomainStop, StopSelf, DomainReset, events, attrs
<1>3. ASSUME stopping' \/ \A k \in Hart : pc'[k] = "stopped",
             pc' \in [Hart -> Label], stack' \in [Hart -> Seq(Event)],
             ipi' \in [Hart -> BOOLEAN], stopping' \in BOOLEAN, ready' \in BOOLEAN,
             ready' = ready \/ \A k \in Hart : pc'[k] = "stopped",
             \A k \in Hart : \/ pc'[k] = "stopped" /\ stack'[k] = <<>>
                             \/ pc'[k] = pc[k] /\ stack'[k] = stack[k] /\ ipi'[k] = ipi[k],
             ~ready' \/ stopping'
      PROVE  SseInv'
  <2>1. TypeOK'
    BY <1>1, <1>2, <1>3 DEF TypeOK
  <2>2. ASSUME NEW k \in Hart, pc'[k] # "stopped"
        PROVE  /\ Nests(k)'
               /\ Due(k)' /\ pc'[k] # "away" => kick'[k]
               /\ Due(k)' /\ pc'[k] \in {"smode", "wfi"} => ipi'[k] \/ late'[k]
    <3>1. pc'[k] = pc[k] /\ stack'[k] = stack[k] /\ ipi'[k] = ipi[k]
      BY <1>3, <2>2
    <3>2. (Due(k)' <=> Due(k)) /\ (Nests(k)' <=> Nests(k))
      BY <1>2, <3>1, SameEvents DEF Due, Nests
    <3>3. /\ Nests(k)
          /\ Due(k) /\ pc[k] # "away" => kick[k]
          /\ Due(k) /\ pc[k] \in {"smode", "wfi"} => ipi[k] \/ late[k]
      BY <1>1, <2>2, <3>1 DEF HandlersNest, DueIsKicked, Nests
    <3> QED
      BY <1>2, <3>1, <3>2, <3>3
  <2>3. HandlersNest' /\ DueIsKicked'
    BY <2>2 DEF HandlersNest, DueIsKicked, Nests
  <2>4. StoppedHasNoHandler'
    <3>1. \A k \in Hart : pc'[k] = "stopped" => stack'[k] = <<>>
      BY <1>1, <1>3 DEF StoppedHasNoHandler
    <3>2. ~ready' => \A k \in Hart : pc'[k] = "stopped"
      BY <1>1, <1>3 DEF StoppedHasNoHandler
    <3> QED
      BY <1>3, <3>1, <3>2 DEF StoppedHasNoHandler
  <2> QED
    BY <2>1, <2>3, <2>4 DEF SseInv
<1>4. CASE DomainStop
  <2>1. /\ stopping' = TRUE /\ UNCHANGED <<ready, ipi>>
        /\ pc' = [h \in Hart |-> IF pc[h] = "away" THEN "stopped" ELSE pc[h]]
        /\ stack' = [h \in Hart |-> IF pc[h] = "away" THEN <<>> ELSE stack[h]]
    BY <1>4 DEF DomainStop
  <2>2. pc' \in [Hart -> Label] /\ ipi' \in [Hart -> BOOLEAN] /\ ready' \in BOOLEAN
    BY <1>1, <2>1 DEF TypeOK, Label
  <2>3. stack' \in [Hart -> Seq(Event)]
    BY <1>1, <2>1, EmptySeq DEF TypeOK
  <2>4. \A k \in Hart : \/ pc'[k] = "stopped" /\ stack'[k] = <<>>
                        \/ pc'[k] = pc[k] /\ stack'[k] = stack[k] /\ ipi'[k] = ipi[k]
    BY <2>1
  <2> QED
    BY <1>3, <2>1, <2>2, <2>3, <2>4
<1>5. ASSUME NEW h \in Hart, StopSelf(h) PROVE SseInv'
  <2>1. /\ stopping /\ UNCHANGED <<stopping, ready>>
        /\ pc' = [pc EXCEPT ![h] = "stopped"]
        /\ stack' = [stack EXCEPT ![h] = <<>>]
        /\ ipi' = [ipi EXCEPT ![h] = FALSE]
    BY <1>5 DEF StopSelf, events
  <2>2. pc' \in [Hart -> Label] /\ ready' \in BOOLEAN /\ stopping' \in BOOLEAN
    BY <1>1, <2>1 DEF TypeOK, Label
  <2>3. stack' \in [Hart -> Seq(Event)] /\ ipi' \in [Hart -> BOOLEAN]
    BY <1>1, <2>1, EmptySeq DEF TypeOK
  <2>4. \A k \in Hart : \/ pc'[k] = "stopped" /\ stack'[k] = <<>>
                        \/ pc'[k] = pc[k] /\ stack'[k] = stack[k] /\ ipi'[k] = ipi[k]
    BY <1>1, <2>1 DEF TypeOK
  <2> QED
    BY <1>3, <2>1, <2>2, <2>3, <2>4
<1>6. CASE DomainReset
  <2>1. /\ stopping' = FALSE /\ ready' = FALSE /\ UNCHANGED <<ipi, pc, stack>>
        /\ \A k \in Hart : pc[k] = "stopped"
    BY <1>6 DEF DomainReset
  <2>2. /\ pc' \in [Hart -> Label] /\ stack' \in [Hart -> Seq(Event)]
        /\ ipi' \in [Hart -> BOOLEAN]
    BY <1>1, <2>1 DEF TypeOK
  <2> QED
    BY <1>3, <2>1, <2>2
<1> QED
  BY <1>4, <1>5, <1>6

\* sse_hart_init(): the hart takes no events yet, and none of its own, or of the
\* domain's if it is the first, is left from before.
LEMMA StartSteps ==
  ASSUME SseInv, NEW h \in Hart, HartStart(h) \/ SwitchInFresh(h)
  PROVE  SseInv'
<1>1. TypeOK /\ HandlersNest /\ StoppedHasNoHandler /\ DueIsKicked
  BY DEF SseInv
<1>2. /\ ~stopping /\ HartInit(h) /\ UNCHANGED <<stopping, stack, late>>
      /\ pc[h] \in {"stopped", "sleep", "wfi"} /\ stack[h] = <<>>
  BY <1>1 DEF HartStart, SwitchInFresh, StoppedHasNoHandler
<1>3. \E next \in {"smode", "tail", "stopped"} : pc' = [pc EXCEPT ![h] = next]
  BY DEF HartStart, SwitchInFresh
<1>4. pc' \in [Hart -> Label] /\ \A k \in Hart \ {h} : pc'[k] = pc[k]
  BY <1>1, <1>3 DEF TypeOK, Label
<1>5. /\ kick' \in [Hart -> BOOLEAN] /\ ipi' \in [Hart -> BOOLEAN]
      /\ \A k \in Hart \ {h} : kick'[k] = kick[k] /\ ipi'[k] = ipi[k]
  BY <1>1 DEF HartStart, SwitchInFresh, TypeOK
<1> DEFINE E == {e \in Event : e[2] = h \/ (IsGlobal(e) /\ ~ready)}
<1>6. Reset(E, h) /\ ready' = TRUE /\ unmasked' = [unmasked EXCEPT ![h] = FALSE]
  BY <1>2 DEF HartInit
<1>7. unmasked' \in [Hart -> BOOLEAN] /\ ~unmasked'[h] /\ \A k \in Hart \ {h} : unmasked'[k] = unmasked[k]
  BY <1>1, <1>6 DEF TypeOK
<1>8. \A e \in Event : (e \in E) = (e[2] = h \/ (IsGlobal(e) /\ ~ready))
  OBVIOUS
<1> HIDE DEF E
<1>9. \A e \in Event \ E : /\ status'[e] = status[e] /\ pending'[e] = pending[e]
                           /\ hart'[e] = hart[e] /\ prio'[e] = prio[e] /\ pref'[e] = pref[e]
  <2>1. \A e \in Event \ E : pending'[e] = pending[e]
    BY <1>1, <1>6 DEF Reset, TypeOK
  <2> QED
    BY <1>6, <2>1 DEF Reset
<1>10. \A e \in E \cap Event : status'[e] = "UNUSED" /\ hart'[e] = h /\ pref'[e] = h
  BY <1>6 DEF Reset
<1>11. TypeOK'
  <2>1. status' \in [Event -> Status] /\ hart' \in [Event -> Hart] /\ pref' \in [Event -> Hart]
    BY <1>1, <1>6 DEF TypeOK, Reset, Status
  <2>2. prio' \in [Event -> Priority]
    BY <1>1, <1>6, SseAssumption DEF TypeOK, Reset
  <2>3. pending' \in [Event -> BOOLEAN] /\ oneshot' \in [Event -> BOOLEAN]
    BY <1>1, <1>6 DEF TypeOK, Reset
  <2>4. \A e \in Event : ~IsGlobal(e) => hart'[e] = e[2] /\ pref'[e] = e[2]
    BY <1>1, <1>8, <1>9, <1>10 DEF TypeOK
  <2> QED
    BY <1>1, <1>2, <1>4, <1>5, <1>6, <1>7, <2>1, <2>2, <2>3, <2>4 DEF TypeOK
<1>12. Candidates(h, "RUNNING")' = {}
  <2>1. SUFFICES ASSUME NEW e \in Event, status'[e] = "RUNNING", hart'[e] = h PROVE FALSE
    BY DEF Candidates
  <2>2. e \notin E /\ status[e] = "RUNNING" /\ hart[e] = h
    BY <1>9, <1>10, <2>1
  <2>3. e[2] # h /\ (IsGlobal(e) => ready)
    BY <1>8, <2>2
  <2>4. IsGlobal(e) /\ ready
    BY <1>1, <2>2, <2>3 DEF TypeOK
  <2>5. pc[h] # "stopped"
    BY <1>1, <1>2, <2>2, <2>4 DEF StoppedHasNoHandler
  <2>6. Candidates(h, "RUNNING") = Range(<<>>)
    BY <1>1, <1>2, <2>5 DEF HandlersNest
  <2>7. Range(<<>>) = {}
    BY DEF Range
  <2> QED
    BY <2>2, <2>6, <2>7 DEF Candidates
<1>13. ASSUME NEW k \in Hart \ {h}, pc'[k] # "stopped"
       PROVE  /\ Nests(k)'
              /\ Due(k)' /\ pc'[k] # "away" => kick'[k]
              /\ Due(k)' /\ pc'[k] \in {"smode", "wfi"} => ipi'[k] \/ late'[k]
  <2>1. pc[k] # "stopped" /\ ready
    BY <1>1, <1>4, <1>13 DEF StoppedHasNoHandler
  <2>2. \A e \in E \cap Event : hart[e] = h /\ hart'[e] = h
    <3> TAKE e \in E \cap Event
    <3>1. e[2] = h
      BY <1>8, <2>1
    <3>2. ~IsGlobal(e)
      BY <3>1, EventFacts
    <3> QED
      BY <1>1, <1>10, <3>1, <3>2 DEF TypeOK
  <2>3. /\ Candidates(k, "RUNNING")' = Candidates(k, "RUNNING")
        /\ Candidates(k, "ENABLED")' = Candidates(k, "ENABLED")
    BY <1>9, <2>2 DEF Candidates
  <2>4. \A e \in Candidates(k, "RUNNING") \cup Candidates(k, "ENABLED") : prio'[e] = prio[e]
    BY <1>9, <2>2 DEF Candidates
  <2>5. Due(k)' => Due(k)
    BY <1>1, <1>7, <2>3, <2>4, DueOnlyFades
  <2>6. Nests(k)
    BY <1>1, <2>1 DEF HandlersNest, Nests
  <2>7. Nests(k)'
    <3>1. \A i \in DOMAIN stack[k] : stack[k][i] \in Candidates(k, "RUNNING")
      BY <2>6 DEF Nests, Range
    <3>2. ASSUME NEW i \in DOMAIN stack[k], NEW j \in DOMAIN stack[k], i < j
          PROVE  Outranks(stack[k][j], stack[k][i])'
      <4>1. Outranks(stack[k][j], stack[k][i])
        BY <2>6, <3>2 DEF Nests
      <4>2. prio'[stack[k][j]] = prio[stack[k][j]] /\ prio'[stack[k][i]] = prio[stack[k][i]]
        BY <2>4, <3>1
      <4> QED
        BY <1>2, <4>1, <4>2 DEF Outranks
    <3>3. Candidates(k, "RUNNING")' = Range(stack[k])'
      BY <1>2, <2>3, <2>6 DEF Nests
    <3> QED
      BY <1>2, <3>2, <3>3 DEF Nests
  <2>8. /\ Due(k) /\ pc[k] # "away" => kick[k]
        /\ Due(k) /\ pc[k] \in {"smode", "wfi"} => ipi[k] \/ late[k]
    BY <1>1, <2>1 DEF DueIsKicked
  <2> QED
    BY <1>2, <1>4, <1>5, <2>5, <2>7, <2>8
<1>14. Nests(h)' /\ ~Due(h)'
  <2>1. Range(<<>>) = {}
    BY DEF Range
  <2>2. stack'[h] = <<>> /\ \A i \in DOMAIN <<>> : FALSE
    BY <1>2
  <2>3. ~Due(h)'
    BY <1>7 DEF Due
  <2> QED
    BY <1>12, <2>1, <2>2, <2>3 DEF Nests
<1>15. HandlersNest' /\ DueIsKicked'
  BY <1>13, <1>14 DEF HandlersNest, DueIsKicked, Nests
<1>16. StoppedHasNoHandler'
  <2>1. \A k \in Hart : pc'[k] = "stopped" => stack'[k] = <<>>
    BY <1>1, <1>2, <1>4 DEF StoppedHasNoHandler
  <2>2. ASSUME NEW e \in Event, IsGlobal(e), status'[e] = "RUNNING"
        PROVE  pc'[hart'[e]] # "stopped"
    <3>1. e \notin E /\ status[e] = "RUNNING" /\ hart'[e] = hart[e] /\ ready
      BY <1>8, <1>9, <1>10, <2>2
    <3>2. hart'[e] # h
      BY <1>12, <2>2 DEF Candidates
    <3>3. hart[e] \in Hart /\ pc[hart[e]] # "stopped"
      BY <1>1, <1>2, <2>2, <3>1 DEF StoppedHasNoHandler, TypeOK
    <3> QED
      BY <1>4, <3>1, <3>2, <3>3
  <2> QED
    BY <1>6, <2>1, <2>2 DEF StoppedHasNoHandler
<1> QED
  BY <1>11, <1>15, <1>16 DEF SseInv

-------------------------------------------------------------------------------
(* The theorems *)

LEMMA InitSseInv == Init => SseInv
<1> SUFFICES ASSUME Init PROVE SseInv
  OBVIOUS
<1>1. hart \in [Event -> Hart] /\ \A e \in Event : ~IsGlobal(e) => hart[e] = e[2]
  BY HartFacts, EventFacts DEF Init
<1>2. TypeOK
  <2>1. status \in [Event -> Status] /\ pc \in [Hart -> Label]
    BY DEF Init, Status, Label
  <2>2. prio \in [Event -> Priority] /\ stack \in [Hart -> Seq(Event)]
    BY SseAssumption, EmptySeq DEF Init
  <2>3. /\ pending \in [Event -> BOOLEAN] /\ oneshot \in [Event -> BOOLEAN]
        /\ unmasked \in [Hart -> BOOLEAN] /\ kick \in [Hart -> BOOLEAN]
        /\ ipi \in [Hart -> BOOLEAN] /\ late \in [Hart -> BOOLEAN]
    BY DEF Init
  <2>4. ready \in BOOLEAN /\ stopping \in BOOLEAN /\ pref = hart
    BY DEF Init
  <2> QED
    BY <1>1, <2>1, <2>2, <2>3, <2>4 DEF TypeOK
<1>3. \A h \in Hart : pc[h] = "stopped" /\ stack[h] = <<>>
  BY DEF Init
<1>4. ~ready
  BY DEF Init
<1> QED
  BY <1>2, <1>3, <1>4 DEF SseInv, HandlersNest, StoppedHasNoHandler, DueIsKicked

\* Every step keeps the invariant, for any harts, events and priorities.
LEMMA NextSseInv == SseInv /\ [Next]_vars => SseInv'
<1> SUFFICES ASSUME SseInv, [Next]_vars PROVE SseInv'
  OBVIOUS
<1>1. ASSUME NEW h \in Hart, NEW i \in LocalId \cup GlobalId,
             \/ Register(h, i) \/ Unregister(h, i) \/ Enable(h, i) \/ Disable(h, i)
             \/ WriteAttrs(h, i)
             \/ \E t \in Hart : Inject(h, i, t)
      PROVE  SseInv'
  BY <1>1, RegisterStep, UnregisterStep, EnableStep, WriteAttrsStep, RaiseSteps
<1>2. ASSUME NEW h \in Hart,
             \/ \E i \in LocalId : RaiseLocal(h, i)
             \/ \E i \in GlobalId : RaiseGlobal(h, i)
      PROVE  SseInv'
  BY <1>2, RaiseSteps
<1>3. ASSUME NEW h \in Hart,
             \/ TrapExit(h) \/ Process(h) \/ TrapIpi(h)
             \/ Trap(h) \/ Complete(h) \/ HartUnmask(h) \/ HartMask(h)
      PROVE  SseInv'
  BY <1>3, SuspendSteps, ProcessStep, TrapSteps, CompleteStep
<1>4. ASSUME NEW h \in Hart,
             \/ HartStart(h) \/ SwitchInFresh(h) \/ HartStop(h)
             \/ Suspend(h) \/ Suspended(h) \/ SleepCheck(h) \/ WfiEnds(h) \/ Wake(h)
             \/ Resume(h) \/ ResumeNonRetentive(h)
             \/ Leave(h) \/ AwayTrap(h) \/ Return(h) \/ ReturnStopped(h)
      PROVE  SseInv'
  BY <1>4, StartSteps, HartStopStep, SuspendSteps, AwaySteps
<1>5. CASE DomainStop \/ DomainReset \/ \E h \in Hart : StopSelf(h)
  BY <1>5, DomainStopSteps
<1>6. CASE UNCHANGED vars
  <2>1. UNCHANGED <<status, pending, hart, prio, unmasked, stack>>
    BY <1>6 DEF vars, events, attrs
  <2>2. \A k \in Hart : Due(k)' <=> Due(k)
    BY <2>1, SameEvents DEF Due
  <2>3. HandlersNest'
    BY <1>6, <2>1, SameEvents DEF SseInv, HandlersNest, vars
  <2>4. DueIsKicked'
    BY <1>6, <2>2 DEF SseInv, DueIsKicked, vars
  <2>5. TypeOK' /\ StoppedHasNoHandler'
    BY <1>6 DEF SseInv, TypeOK, StoppedHasNoHandler, vars, events, attrs
  <2> QED
    BY <2>3, <2>4, <2>5 DEF SseInv
<1> QED
  BY <1>1, <1>2, <1>3, <1>4, <1>5, <1>6 DEF Next

\* sse_complete() puts back what the innermost handler interrupted: the RUNNING
\* events of a hart are the handlers it is in, each outranking the ones before it,
\* whatever the other harts raise, start, stop and reset meanwhile.
THEOREM HandlersAlwaysNest == Spec => []HandlersNest
<1>1. SseInv => HandlersNest
  BY DEF SseInv
<1> QED
  BY <1>1, InitSseInv, NextSseInv, PTL DEF Spec

\* An event that can be delivered to a hart in S-mode or asleep is not forgotten:
\* kick is set and an IPI is on its way, or the hart is late.
THEOREM NothingIsForgotten == Spec => []NothingForgotten
<1>1. SseInv => NothingForgotten
  BY DEF SseInv, DueIsKicked, NothingForgotten
<1> QED
  BY <1>1, InitSseInv, NextSseInv, PTL DEF Spec
================================================================================
