--------------------------- MODULE InterruptProofs ----------------------------
(***************************************************************************)
(* Proofs about the interrupts: the IPI core (Ipi), for any set of harts,  *)
(* and the timer (Timer), for any boards and domains.                      *)
(*                                                                         *)
(* NoStrandedEvent is inductive given the types; that the register         *)
(* protocol is a mailbox (IpiMailbox), step by step, also needs that a     *)
(* halted hart is in the middle of nothing.                                *)
(***************************************************************************)
EXTENDS Ipi, Timer, SequenceTheorems, FiniteSetTheorems, WellFoundedInduction,
        TLAPS

-------------------------------------------------------------------------------
(* The IPI core *)

\* The initial states have the types.
LEMMA InitTypeOK == Init => TypeOK
  BY NoHartAssumption DEF Init, TypeOK

\* Every step keeps them.
LEMMA NextTypeOK == TypeOK /\ [Next]_vars => TypeOK'
<1> SUFFICES ASSUME TypeOK, [Next]_vars PROVE TypeOK'
  OBVIOUS
<1> USE NoHartAssumption DEF TypeOK, Event
<1>1. ASSUME NEW h \in Hart, NEW t \in Hart, NEW e \in Event, SendPost(h, t, e) PROVE TypeOK'
  BY <1>1 DEF SendPost, Runs
<1>2. ASSUME NEW h \in Hart, NEW t \in Hart, Kick(h, t) PROVE TypeOK'
  BY <1>2 DEF Kick
<1>3. ASSUME NEW h \in Hart, SendRaise(h) PROVE TypeOK'
  BY <1>3 DEF SendRaise
<1>4. ASSUME NEW h \in Hart, ProcessClear(h) PROVE TypeOK'
  BY <1>4 DEF ProcessClear, Runs
<1>5. ASSUME NEW h \in Hart, ProcessSwap(h) PROVE TypeOK'
  BY <1>5 DEF ProcessSwap
<1>6. ASSUME NEW h \in Hart, HartInitClear(h) PROVE TypeOK'
  BY <1>6 DEF HartInitClear, Runs
<1>7. ASSUME NEW h \in Hart, HartInitStore(h) PROVE TypeOK'
  BY <1>7 DEF HartInitStore
<1>8. ASSUME NEW h \in Hart, SmodeAck(h) PROVE TypeOK'
  BY <1>8 DEF SmodeAck
<1>9. CASE UNCHANGED vars
  BY <1>9 DEF vars
<1> QED
  BY <1>1, <1>2, <1>3, <1>4, <1>5, <1>6, <1>7, <1>8, <1>9 DEF Next

\* TypeOK is an invariant: in particular a hart has a target exactly between
\* the two halves of ipi_send().
THEOREM TypeInvariant == Spec => []TypeOK
  BY InitTypeOK, NextTypeOK, PTL DEF Spec

\* Every step keeps events from being stranded.  The step that matters is
\* ipi_process() clearing the interrupt: the hart reads the bits next.
LEMMA NextNoStrandedEvent ==
  TypeOK /\ NoStrandedEvent /\ [Next]_vars => NoStrandedEvent'
<1> SUFFICES ASSUME TypeOK, NoStrandedEvent, [Next]_vars,
                    NEW g \in Hart, (ipi_pending[g] # {})'
             PROVE  (\/ msip[g] \/ AboutToRaise(g)
                     \/ pc[g] \in {"swap", "store"} \/ g \in halted)'
  BY DEF NoStrandedEvent
<1> USE NoHartAssumption DEF TypeOK, Event
<1>0. ipi_pending[g] # {} => \/ msip[g] \/ AboutToRaise(g)
                             \/ pc[g] \in {"swap", "store"} \/ g \in halted
  BY DEF NoStrandedEvent
<1>1. ASSUME NEW h \in Hart, NEW t \in Hart, NEW e \in Event, SendPost(h, t, e)
      PROVE  (\/ msip[g] \/ AboutToRaise(g)
              \/ pc[g] \in {"swap", "store"} \/ g \in halted)'
  <2>1. CASE t = g
    BY <1>1, <2>1 DEF SendPost, AboutToRaise
  <2>2. CASE t # g
    BY <1>0, <1>1, <2>2 DEF SendPost, AboutToRaise, Runs
  <2> QED
    BY <2>1, <2>2
<1>2. ASSUME NEW h \in Hart, NEW t \in Hart, Kick(h, t)
      PROVE  (\/ msip[g] \/ AboutToRaise(g)
              \/ pc[g] \in {"swap", "store"} \/ g \in halted)'
  BY <1>0, <1>2 DEF Kick, AboutToRaise
<1>3. ASSUME NEW h \in Hart, SendRaise(h)
      PROVE  (\/ msip[g] \/ AboutToRaise(g)
              \/ pc[g] \in {"swap", "store"} \/ g \in halted)'
  <2>1. CASE target[h] = g
    BY <1>3, <2>1 DEF SendRaise
  <2>2. CASE target[h] # g
    BY <1>0, <1>3, <2>2 DEF SendRaise, AboutToRaise
  <2> QED
    BY <2>1, <2>2
<1>4. ASSUME NEW h \in Hart, ProcessClear(h)
      PROVE  (\/ msip[g] \/ AboutToRaise(g)
              \/ pc[g] \in {"swap", "store"} \/ g \in halted)'
  BY <1>0, <1>4 DEF ProcessClear, AboutToRaise, Runs
<1>5. ASSUME NEW h \in Hart, ProcessSwap(h)
      PROVE  (\/ msip[g] \/ AboutToRaise(g)
              \/ pc[g] \in {"swap", "store"} \/ g \in halted)'
  BY <1>0, <1>5 DEF ProcessSwap, AboutToRaise
<1>6. ASSUME NEW h \in Hart, HartInitClear(h)
      PROVE  (\/ msip[g] \/ AboutToRaise(g)
              \/ pc[g] \in {"swap", "store"} \/ g \in halted)'
  BY <1>0, <1>6 DEF HartInitClear, AboutToRaise, Runs
<1>7. ASSUME NEW h \in Hart, HartInitStore(h)
      PROVE  (\/ msip[g] \/ AboutToRaise(g)
              \/ pc[g] \in {"swap", "store"} \/ g \in halted)'
  BY <1>0, <1>7 DEF HartInitStore, AboutToRaise
<1>8. ASSUME NEW h \in Hart, SmodeAck(h)
      PROVE  (\/ msip[g] \/ AboutToRaise(g)
              \/ pc[g] \in {"swap", "store"} \/ g \in halted)'
  BY <1>0, <1>8 DEF SmodeAck, AboutToRaise
<1>9. CASE UNCHANGED vars
  BY <1>0, <1>9 DEF vars, AboutToRaise
<1> QED
  BY <1>1, <1>2, <1>3, <1>4, <1>5, <1>6, <1>7, <1>8, <1>9 DEF Next

\* An event bit that is set is on its way to be seen, in every reachable state
\* and for any number of harts: "Clear first" in ipi_process() is enough.
THEOREM EventsNeverStranded == Spec => []NoStrandedEvent
<1>1. Init => NoStrandedEvent
  BY DEF Init, NoStrandedEvent
<1> QED
  BY <1>1, InitTypeOK, NextTypeOK, NextNoStrandedEvent, PTL DEF Spec

\* An S-mode IPI only leaves the mailbox for mip.SSIP, a halt or a clean slate.
THEOREM SmodeIpiIsDelivered == Spec => SmodeIpiReachesSmode
<1> DEFINE Delivered == \A h \in Hart :
             "SMODE" \in ipi_pending[h] /\ "SMODE" \notin ipi_pending'[h] =>
               ssip'[h] \/ h \in halted' \/ pc[h] = "store"
<1>1. TypeOK /\ [Next]_vars => [Delivered]_vars
  <2> SUFFICES ASSUME TypeOK, Next PROVE Delivered
    OBVIOUS
  <2> USE DEF TypeOK, Event
  <2>1. ASSUME NEW h \in Hart, NEW t \in Hart, NEW e \in Event, SendPost(h, t, e)
        PROVE  Delivered
    BY <2>1 DEF SendPost
  <2>2. ASSUME NEW h \in Hart, ProcessSwap(h) PROVE Delivered
    BY <2>2 DEF ProcessSwap
  <2>3. ASSUME NEW h \in Hart, HartInitStore(h) PROVE Delivered
    BY <2>3 DEF HartInitStore
  <2>4. ASSUME UNCHANGED ipi_pending PROVE Delivered
    BY <2>4
  <2> QED
    BY <2>1, <2>2, <2>3, <2>4
    DEF Next, Kick, SendRaise, ProcessClear, HartInitClear, SmodeAck
<1> QED
  BY <1>1, TypeInvariant, PTL DEF Spec, SmodeIpiReachesSmode
-------------------------------------------------------------------------------
(* The mailbox *)

\* A hart that has halted is in the middle of nothing.
HaltedIsIdle == \A h \in halted : pc[h] = "run"

\* Every step keeps it: only a hart that has not halted calls ipi_send(),
\* ipi_process() or ipi_hart_init(), and ipi_process() halts at its end.
LEMMA NextHaltedIsIdle == TypeOK /\ HaltedIsIdle /\ [Next]_vars => HaltedIsIdle'
<1> SUFFICES ASSUME TypeOK, HaltedIsIdle, [Next]_vars PROVE HaltedIsIdle'
  OBVIOUS
<1> USE DEF TypeOK, HaltedIsIdle
<1>1. ASSUME NEW h \in Hart, NEW t \in Hart, NEW e \in Event, SendPost(h, t, e)
      PROVE  HaltedIsIdle'
  BY <1>1 DEF SendPost, Runs
<1>2. ASSUME NEW h \in Hart, NEW t \in Hart, Kick(h, t) PROVE HaltedIsIdle'
  BY <1>2 DEF Kick
<1>3. ASSUME NEW h \in Hart, SendRaise(h) PROVE HaltedIsIdle'
  BY <1>3 DEF SendRaise
<1>4. ASSUME NEW h \in Hart, ProcessClear(h) PROVE HaltedIsIdle'
  BY <1>4 DEF ProcessClear, Runs
<1>5. ASSUME NEW h \in Hart, ProcessSwap(h) PROVE HaltedIsIdle'
  BY <1>5 DEF ProcessSwap
<1>6. ASSUME NEW h \in Hart, HartInitClear(h) PROVE HaltedIsIdle'
  BY <1>6 DEF HartInitClear, Runs
<1>7. ASSUME NEW h \in Hart, HartInitStore(h) PROVE HaltedIsIdle'
  BY <1>7 DEF HartInitStore
<1>8. ASSUME NEW h \in Hart, SmodeAck(h) PROVE HaltedIsIdle'
  BY <1>8 DEF SmodeAck
<1>9. CASE UNCHANGED vars
  BY <1>9 DEF vars
<1> QED
  BY <1>1, <1>2, <1>3, <1>4, <1>5, <1>6, <1>7, <1>8, <1>9 DEF Next

\* Every step is a step of the mailbox, or none: the first half of ipi_send() posts,
\* the swap of ipi_process() takes, the store of ipi_hart_init() forgets.
LEMMA MailboxStep ==
  TypeOK /\ HaltedIsIdle /\ [Next]_vars => [Mailbox!MailboxNext]_(Mailbox!mailboxVars)
<1> SUFFICES ASSUME TypeOK, HaltedIsIdle, Next
             PROVE  Mailbox!MailboxNext \/ UNCHANGED Mailbox!mailboxVars
  BY DEF vars, Mailbox!mailboxVars
<1>1. ASSUME NEW h \in Hart, NEW t \in Hart, NEW e \in Event, SendPost(h, t, e)
      PROVE  Mailbox!MailboxNext
  BY <1>1 DEF SendPost, Mailbox!MailboxNext, Mailbox!Post
<1>2. ASSUME NEW h \in Hart, ProcessSwap(h)
      PROVE  Mailbox!MailboxNext \/ UNCHANGED Mailbox!mailboxVars
  <2>1. h \notin halted
    BY <1>2 DEF ProcessSwap, HaltedIsIdle
  <2>2. CASE ipi_pending[h] = {}
    BY <1>2, <2>1, <2>2 DEF ProcessSwap, TypeOK, Mailbox!MailboxNext, Mailbox!Forget
  <2>3. CASE ipi_pending[h] # {}
    BY <1>2, <2>1, <2>3 DEF ProcessSwap, Mailbox!MailboxNext, Mailbox!Take
  <2> QED
    BY <2>2, <2>3
<1>3. ASSUME NEW h \in Hart, HartInitStore(h) PROVE Mailbox!MailboxNext
  BY <1>3 DEF HartInitStore, HaltedIsIdle, Mailbox!MailboxNext, Mailbox!Forget
<1>4. ASSUME UNCHANGED <<ipi_pending, halted>> PROVE UNCHANGED Mailbox!mailboxVars
  BY <1>4 DEF Mailbox!mailboxVars
<1> QED
  BY <1>1, <1>2, <1>3, <1>4
  DEF Next, Kick, SendRaise, ProcessClear, HartInitClear, SmodeAck

\* The register protocol of drivers/ipi/ipi.c is a mailbox for any set of harts: the
\* safety half of the refinement of IpiMailbox.
THEOREM MailboxIsImplemented == Spec => MailboxMoves
<1>1. Init => Mailbox!MailboxInit
  BY DEF Init, Mailbox!MailboxInit
<1>2. Init => HaltedIsIdle
  BY DEF Init, HaltedIsIdle
<1> QED
  BY <1>1, <1>2, InitTypeOK, NextTypeOK, NextHaltedIsIdle, MailboxStep, PTL
  DEF Spec, MailboxMoves, Mailbox!MailboxSafety

-------------------------------------------------------------------------------
(* Timer: software reads a time there was, and is not interrupted early, for any *)
(* width of the halves, any boards and domains.  NoEarlyTimer holds for the      *)
(* domain the hart is in; the invariant says that what a switch will restore is  *)
(* what the other domains asked for.  While timer_smode_restore() is under way   *)
(* nothing is pending, and the register that may interrupt a hart is the hart's. *)

\* A set of natural numbers that is not empty has a least one.
LEMMA LeastNatural ==
  ASSUME NEW S \in SUBSET Nat, S # {}
  PROVE  \E n \in S : \A m \in S : n <= m
<1> DEFINE R == OpToRel(<, Nat)
<1>1. \E n \in S : \A m \in S : ~(<<m, n>> \in R)
  <2>1. IsWellFoundedOn(R, Nat)
    BY NatLessThanWellFounded
  <2> HIDE DEF R
  <2> QED
    BY <2>1, WFMin
<1>2. \A m, n \in Nat : m < n => <<m, n>> \in R
  BY DEF OpToRel
<1> HIDE DEF R
<1>3. PICK n \in S : \A m \in S : ~(<<m, n>> \in R)
  BY <1>1
<1>4. \A m \in S : n <= m
  <2> TAKE m \in S
  <2>1. m \in Nat /\ n \in Nat /\ ~(<<m, n>> \in R)
    BY <1>3
  <2>2. ~(m < n)
    BY <1>2, <2>1
  <2> QED
    BY <2>1, <2>2
<1> QED
  BY <1>3, <1>4

\* The largest of a set of places in a list.
LEMMA LargestPlace ==
  ASSUME NEW n \in Nat, NEW S \in SUBSET (1 .. n), S # {}
  PROVE  \E k \in S : \A j \in S : j <= k
<1> DEFINE T == {n - k : k \in S}
<1>1. T \in SUBSET Nat /\ T # {}
  OBVIOUS
<1>2. PICK t \in T : \A u \in T : t <= u
  <2> HIDE DEF T
  <2> QED
    BY <1>1, LeastNatural
<1>3. PICK k \in S : t = n - k
  OBVIOUS
<1>4. \A j \in S : n - k <= n - j /\ j \in Nat /\ k \in Nat
  BY <1>2, <1>3
<1>5. \A j \in S : j <= k
  BY <1>4
<1> QED
  BY <1>5

-------------------------------------------------------------------------------
(* The halves of a 64-bit value *)

\* The values of the halves and of the words
LEMMA TimerNumbers == Base \in Nat /\ Base >= 2 /\ Never \in Nat /\ LastTick < Never /\ NoPosition = Never + 1
<1>1. Base \in Nat /\ Base >= 2
  BY TimerAssumption
<1>2. Base * Base \in Nat /\ Base * Base >= 2
  BY <1>1
<1> QED
  BY <1>1, <1>2 DEF Never, LastTick, NoPosition

\* Quotient and remainder are unique.
LEMMA HalvesUnique ==
  ASSUME NEW B \in Nat \ {0}, NEW a \in Nat, NEW r \in 0 .. B - 1, NEW d \in Int, NEW m \in 0 .. B - 1,
         a * B + r = B * d + m
  PROVE  d = a /\ m = r
<1>1. B * (a - d) = m - r
  OBVIOUS
<1>2. ASSUME a - d >= 1 PROVE FALSE
  <2>1. B * (a - d) >= B
    BY <1>2
  <2> QED
    BY <1>1, <2>1
<1>3. ASSUME a - d <= -1 PROVE FALSE
  <2>1. B * (a - d) <= -B
    BY <1>3
  <2> QED
    BY <1>1, <2>1
<1>4. d = a
  BY <1>2, <1>3
<1> QED
  BY <1>1, <1>4

\* A value is its halves.
LEMMA ValueIsHalves ==
  ASSUME NEW t \in Nat
  PROVE  Hi(t) \in Nat /\ Lo(t) \in 0 .. Base - 1 /\ Word(Hi(t), Lo(t)) = t
<1>1. Base \in Nat \ {0}
  BY TimerNumbers
<1>2. t \div Base \in Nat /\ t % Base \in 0 .. Base - 1 /\ t = Base * (t \div Base) + (t % Base)
  BY <1>1
<1>3. (t \div Base) * Base = Base * (t \div Base)
  BY <1>1, <1>2
<1> QED
  BY <1>2, <1>3 DEF Hi, Lo, Word

\* ... and two halves are those of their value.
LEMMA HalvesAreValue ==
  ASSUME NEW a \in Nat, NEW r \in 0 .. Base - 1
  PROVE  Word(a, r) \in Nat /\ Hi(Word(a, r)) = a /\ Lo(Word(a, r)) = r
<1>1. Base \in Nat \ {0}
  BY TimerNumbers
<1> DEFINE t == a * Base + r
           d == t \div Base
           m == t % Base
<1>2. t \in Nat
  BY <1>1
<1>3. d \in Int /\ m \in 0 .. Base - 1 /\ t = Base * d + m
  <2> HIDE DEF t
  <2> QED
    BY <1>1, <1>2
<1>4. a * Base + r = Base * d + m
  BY <1>3
<1> HIDE DEF d, m
<1>5. d = a /\ m = r
  BY <1>1, <1>3, <1>4, HalvesUnique
<1> QED
  BY <1>2, <1>5 DEF Hi, Lo, Word, d, m

\* The high half does not fall while the clock goes on.
LEMMA HighHalfGrows ==
  ASSUME NEW s \in Nat, NEW t \in Nat, s <= t
  PROVE  Hi(s) <= Hi(t)
<1>1. Base \in Nat \ {0}
  BY TimerNumbers
<1> DEFINE a == s \div Base
           b == t \div Base
           p == s % Base
           q == t % Base
<1>2. a \in Nat /\ p \in 0 .. Base - 1 /\ s = Base * a + p
  BY <1>1
<1>3. b \in Nat /\ q \in 0 .. Base - 1 /\ t = Base * b + q
  BY <1>1
<1> HIDE DEF a, b, p, q
<1>4. ASSUME a >= b + 1 PROVE FALSE
  <2>1. Base * (a - b) >= Base
    BY <1>1, <1>2, <1>3, <1>4
  <2>2. Base * (a - b) = Base * a - Base * b
    BY <1>1, <1>2, <1>3
  <2> QED
    BY <1>1, <1>2, <1>3, <2>1, <2>2
<1>5. a <= b
  BY <1>2, <1>3, <1>4
<1> QED
  BY <1>5 DEF Hi, a, b

-------------------------------------------------------------------------------
(* aclint_mtimer_probe(): the register a hart gets is wired to it *)

\* Two entries of a list have two positions.
LEMMA PositionsDiffer ==
  ASSUME NEW irqs \in Seq(Nat \X BOOLEAN), NEW j \in TimerIrqs(irqs), NEW k \in TimerIrqs(irqs),
         PositionAt(irqs, j) = PositionAt(irqs, k)
  PROVE  j = k
<1>1. Len(irqs) \in Nat /\ DOMAIN irqs = 1 .. Len(irqs)
  OBVIOUS
<1>2. IsFiniteSet(1 .. Len(irqs))
  BY <1>1, FS_Interval
<1>3. ASSUME NEW x \in TimerIrqs(irqs), NEW y \in TimerIrqs(irqs), x < y
      PROVE  PositionAt(irqs, x) # PositionAt(irqs, y)
  <2> DEFINE X == {i \in TimerIrqs(irqs) : i < x}
             Y == {i \in TimerIrqs(irqs) : i < y}
  <2>1. Y \subseteq 1 .. Len(irqs) /\ TimerIrqs(irqs) \subseteq 1 .. Len(irqs)
    BY <1>1 DEF TimerIrqs
  <2>2. IsFiniteSet(Y)
    BY <1>2, <2>1, FS_Subset
  <2>3. X \subseteq Y
    BY <1>1, <1>3, <2>1
  <2>4. x \in Y /\ x \notin X
    BY <1>1, <1>3, <2>1
  <2> HIDE DEF X, Y
  <2>5. X # Y
    BY <2>4
  <2>6. Cardinality(X) # Cardinality(Y)
    BY <2>2, <2>3, <2>5, FS_Subset
  <2> QED
    BY <2>6 DEF PositionAt, X, Y
<1>4. j \in Nat /\ k \in Nat
  BY <1>1 DEF TimerIrqs
<1> QED
  BY <1>3, <1>4

\* The register of a hart's position raises the hart's interrupt.
LEMMA RegisterIsWired ==
  ASSUME NEW b \in Boards, HasDevice(b), NEW h \in b.harts, TimerProbe(b)[h] # NoPosition
  PROVE  WiredTo(TimerProbe(b)[h], b) = h
<1>0. /\ b.nodes \in Seq([reg : BOOLEAN, irqs : Seq(Nat \X BOOLEAN)])
      /\ b.harts \subseteq Nat /\ b.first \in Nat
  BY TimerAssumption
<1>1. CASE b.nodes = <<>> /\ b.fallback
  <2>1. TimerProbe(b) = FallbackPositions(b)
    BY <1>1 DEF TimerProbe
  <2>2. TimerProbe(b)[h] = h - b.first /\ h >= b.first
    BY <2>1 DEF FallbackPositions
  <2>3. h \in Nat /\ (h - b.first) + b.first = h
    BY <1>0
  <2> QED
    BY <1>1, <2>2, <2>3 DEF WiredTo
<1>2. CASE ~(b.nodes = <<>> /\ b.fallback)
  <2> DEFINE U == UsableNodes(b)
             n == FirstOf(U)
             irqs == b.nodes[n].irqs
             Mine == {k \in TimerIrqs(irqs) : irqs[k][1] = h}
             last == CHOOSE k \in Mine : \A j \in Mine : j <= k
  <2>1. U # {} /\ U \subseteq 1 .. Len(b.nodes)
    BY <1>2 DEF HasDevice, UsableNodes
  <2>2. U \in SUBSET Nat /\ Len(b.nodes) \in Nat
    BY <1>0, <2>1
  <2>3. \E k \in U : \A j \in U : k <= j
    <3> HIDE DEF U
    <3> QED
      BY <2>1, <2>2, LeastNatural
  <2>4. n \in U
    BY <2>3 DEF FirstOf
  <2>5. n \in 1 .. Len(b.nodes) /\ b.nodes # <<>>
    <3>1. n \in 1 .. Len(b.nodes)
      BY <2>1, <2>4
    <3>2. b.nodes = <<>> => Len(b.nodes) = 0
      OBVIOUS
    <3> HIDE DEF n, U
    <3>3. ASSUME b.nodes = <<>> PROVE FALSE
      <4>1. n \in 1 .. 0
        BY <3>1, <3>2, <3>3
      <4> QED
        BY <4>1
    <3> QED
      BY <3>1, <3>3
  <2>6. irqs \in Seq(Nat \X BOOLEAN)
    <3> HIDE DEF n
    <3>1. b.nodes[n] \in [reg : BOOLEAN, irqs : Seq(Nat \X BOOLEAN)]
      BY <1>0, <2>5, ElementOfSeq
    <3> QED
      BY <3>1
  <2>7. TimerProbe(b)[h] = HartPositions(irqs, b.harts)[h]
    BY <1>2, <2>1 DEF TimerProbe
  <2>8. WiredTo(TimerProbe(b)[h], b) =
          LET There == {k \in TimerIrqs(irqs) : PositionAt(irqs, k) = TimerProbe(b)[h]}
          IN  IF There = {} THEN NoPosition ELSE irqs[CHOOSE k \in There : TRUE][1]
    BY <2>5 DEF WiredTo
  <2> HIDE DEF irqs, n, U
  <2>9. Mine # {} /\ TimerProbe(b)[h] = PositionAt(irqs, last)
    BY <2>7 DEF HartPositions
  <2>10. Mine \in SUBSET (1 .. Len(irqs)) /\ Len(irqs) \in Nat
    BY <2>6 DEF TimerIrqs
  <2>11. \E k \in Mine : \A j \in Mine : j <= k
    <3> HIDE DEF Mine
    <3> QED
      BY <2>9, <2>10, LargestPlace
  <2>12. last \in TimerIrqs(irqs) /\ irqs[last][1] = h
    BY <2>11
  <2> HIDE DEF last, Mine
  <2>13. {k \in TimerIrqs(irqs) : PositionAt(irqs, k) = TimerProbe(b)[h]} = {last}
    BY <2>6, <2>9, <2>12, PositionsDiffer
  <2> QED
    BY <2>8, <2>12, <2>13
<1> QED
  BY <1>1, <1>2
-------------------------------------------------------------------------------
(* The invariant *)

Setting == {"set_event", "set_hi", "set_lo", "set_mie"}
Stopping == {"stop_event", "stop_hi", "stop_lo"}
Reading == {"now_lo", "now_check", "now_hi", "now_done"}
Slots == 0 .. Never

TimerTypes ==
  /\ board \in Boards /\ position = TimerProbe(board) /\ registered = HasDevice(board)
  /\ mtime \in Nat /\ mtime <= LastTick /\ mtimecmp \in [Slots -> Nat]
  /\ at \in [board.harts -> {"smode"} \cup Setting \cup Stopping \cup Reading]
  /\ when \in [board.harts -> Nat] /\ hi \in [board.harts -> Nat]
  /\ lo \in [board.harts -> Nat] /\ began \in [board.harts -> Nat]
  /\ stimecmp \in [board.harts -> Nat] /\ deadline \in [board.harts -> Nat]
  /\ mie \in [board.harts -> BOOLEAN] /\ stip \in [board.harts -> BOOLEAN]
  /\ domain \in [board.harts -> TimerDomains]
  /\ saved \in [board.harts -> [TimerDomains -> Nat]]
  /\ asked \in [board.harts -> [TimerDomains -> Nat]]

\* A register that may fire is some hart's.
OnlyOwn == \A p \in Slots : mtimecmp[p] # Never => \E h \in board.harts : position[h] = p

\* What each domain asked for is on the hart or saved.
Keeps(h) ==
  /\ SmodeGet(h) = asked[h][domain[h]]
  /\ \A d \in TimerDomains : d # domain[h] => saved[h][d] = asked[h][d]
  /\ ~board.sstc /\ ~registered => \A d \in TimerDomains : asked[h][d] = Never

\* What is in the device for a hart that has no stimecmp
Programs(h) ==
  /\ at[h] \in Setting => ~stip[h] /\ when[h] = deadline[h]
  /\ at[h] \in Stopping => ~mie[h] /\ ~stip[h]
  /\ position[h] \in Slots =>
       /\ at[h] = "set_lo" => Hi(mtimecmp[position[h]]) = Hi(when[h])
       /\ at[h] = "set_mie" => mtimecmp[position[h]] = when[h]
       /\ at[h] \notin Setting /\ mie[h] => mtimecmp[position[h]] = deadline[h]
  /\ stip[h] => mtime >= deadline[h]

\* A read of the time that is under way
Reads(h) ==
  /\ at[h] \in Reading => began[h] <= mtime
  /\ at[h] = "now_lo" => hi[h] <= Hi(mtime)
  /\ at[h] = "now_check" => \E t \in Nat : /\ began[h] <= t /\ t <= mtime
                                           /\ lo[h] = Lo(t) /\ hi[h] <= Hi(t)
  /\ at[h] = "now_done" => Word(hi[h], lo[h]) >= began[h] /\ Word(hi[h], lo[h]) <= mtime

\* The driver is called only where there is one.
HasDriver(h) == at[h] \in Setting \cup Stopping => registered

HartIsTrue(h) == Keeps(h) /\ (~board.sstc => Programs(h)) /\ Reads(h) /\ HasDriver(h)
TimerInv == TimerTypes /\ OnlyOwn /\ \A h \in board.harts : HartIsTrue(h)

\* Harts that have registers have different ones.
LEMMA OwnRegister ==
  ASSUME TimerTypes, registered, NEW g \in board.harts, NEW h \in board.harts,
         position[g] \in Slots, position[h] = position[g]
  PROVE  g = h /\ WiredTo(position[g], board) = g
<1>1. position[g] # NoPosition /\ position[h] # NoPosition
  BY TimerNumbers DEF Slots
<1>2. WiredTo(position[g], board) = g /\ WiredTo(position[h], board) = h
  BY <1>1, RegisterIsWired DEF TimerTypes
<1> QED
  BY <1>2

\* What the invariant says.
LEMMA InvMeansTrue == TimerInv => TimeIsTrue
<1> SUFFICES ASSUME TimerInv PROVE TimeIsTrue
  OBVIOUS
<1>1. H = board.harts
  BY DEF H, TimerInv, TimerTypes
<1>2. NoEarlyTimer
  <2> SUFFICES ASSUME NEW h \in board.harts, at[h] = "smode", Stip(h)
               PROVE  mtime >= asked[h][domain[h]]
    BY <1>1 DEF NoEarlyTimer
  <2>1. HartIsTrue(h)
    BY DEF TimerInv
  <2>2. CASE board.sstc
    BY <2>1, <2>2 DEF HartIsTrue, Keeps, SmodeGet, Stip
  <2>3. CASE ~board.sstc
    BY <2>1, <2>3 DEF HartIsTrue, Keeps, SmodeGet, Stip, Programs
  <2> QED
    BY <2>2, <2>3
<1>3. NowIsTrue
  BY <1>1 DEF NowIsTrue, TimerInv, HartIsTrue, Reads
<1> QED
  BY <1>2, <1>3 DEF TimeIsTrue

\* After timer_init() and timer_hart_init() nothing is set.
LEMMA InitTimerInv == TimerInit => TimerInv
<1> SUFFICES ASSUME TimerInit PROVE TimerInv
  OBVIOUS
<1>1. Never \in Nat /\ Never = Base * Base - 1 /\ LastTick >= 0
  <2>1. Base * Base >= 2
    BY TimerAssumption
  <2> QED
    BY <2>1, TimerNumbers DEF Never, LastTick
<1>2. TimerTypes
  BY <1>1, TimerAssumption DEF TimerInit, TimerTypes, Slots
<1>3. OnlyOwn
  BY <1>1 DEF TimerInit, OnlyOwn, Slots
<1>4. ASSUME NEW h \in board.harts PROVE HartIsTrue(h)
  <2>1. Keeps(h)
    BY TimerAssumption DEF TimerInit, Keeps, SmodeGet
  <2>2. Programs(h)
    BY DEF TimerInit, Programs, Setting, Stopping
  <2>3. Reads(h)
    BY DEF TimerInit, Reads, Reading
  <2>4. HasDriver(h)
    BY DEF TimerInit, HasDriver, Setting, Stopping
  <2> QED
    BY <2>1, <2>2, <2>3, <2>4 DEF HartIsTrue
<1> QED
  BY <1>2, <1>3, <1>4 DEF TimerInv

\* The clock goes on.
LEMMA TickKeepsInv ==
  ASSUME TimerInv, Tick
  PROVE  TimerInv'
<1>1. /\ mtime' = mtime + 1 /\ mtime < LastTick
      /\ UNCHANGED <<board, position, registered, mtimecmp, mie, stip, stimecmp, deadline, saved, domain,
                     at, when, hi, lo, began, asked, calls>>
  BY DEF Tick, fixed, reads
<1>2. TimerTypes /\ mtime \in Nat /\ LastTick \in Int
  BY TimerNumbers DEF TimerInv, TimerTypes, LastTick
<1>3. TimerTypes'
  <2>1. mtime' \in Nat /\ mtime' <= LastTick
    BY <1>1, <1>2
  <2> QED
    BY <1>1, <1>2, <2>1 DEF TimerTypes
<1>4. OnlyOwn'
  BY <1>1 DEF TimerInv, OnlyOwn
<1>5. ASSUME NEW h \in board.harts PROVE HartIsTrue(h)'
  <2>1. HartIsTrue(h)
    BY DEF TimerInv
  <2>2. Keeps(h)'
    BY <1>1, <2>1 DEF HartIsTrue, Keeps, SmodeGet
  <2>3. deadline[h] \in Nat /\ began[h] \in Nat /\ hi[h] \in Nat /\ lo[h] \in Nat
    BY <1>2 DEF TimerTypes
  <2>5. mtime <= mtime' /\ mtime' \in Nat
    BY <1>1, <1>2
  <2>4. Programs(h) => Programs(h)'
    <3>1. mtime >= deadline[h] => mtime' >= deadline[h]
      BY <1>2, <2>3, <2>5
    <3> QED
      BY <1>1, <3>1 DEF Programs
  <2>6. Hi(mtime) <= Hi(mtime') /\ Hi(mtime) \in Nat /\ Hi(mtime') \in Nat
    BY <1>2, <2>5, HighHalfGrows, ValueIsHalves
  <2>7. Base \in Nat /\ Word(hi[h], lo[h]) \in Nat
    BY <2>3, TimerNumbers DEF Word
  <2>8. Reads(h)'
    <3>1. Reads(h)
      BY <2>1 DEF HartIsTrue
    <3>2. at[h] \in Reading => began[h] <= mtime'
      BY <1>2, <2>3, <2>5, <3>1 DEF Reads
    <3>3. at[h] = "now_lo" => hi[h] <= Hi(mtime')
      BY <2>3, <2>6, <3>1 DEF Reads
    <3>4. at[h] = "now_check" => \E t \in Nat : /\ began[h] <= t /\ t <= mtime'
                                                /\ lo[h] = Lo(t) /\ hi[h] <= Hi(t)
      BY <1>2, <2>5, <3>1 DEF Reads
    <3>5. at[h] = "now_done" => Word(hi[h], lo[h]) >= began[h] /\ Word(hi[h], lo[h]) <= mtime'
      BY <1>2, <2>5, <2>7, <3>1 DEF Reads
    <3>6. at' = at /\ began' = began /\ hi' = hi /\ lo' = lo
      BY <1>1
    <3> QED
      BY <3>2, <3>3, <3>4, <3>5, <3>6 DEF Reads
  <2> QED
    BY <1>1, <2>1, <2>2, <2>4, <2>8 DEF HartIsTrue, HasDriver
<1>6. \A h \in board.harts' : HartIsTrue(h)'
  BY <1>1, <1>5
<1> QED
  BY <1>3, <1>4, <1>6 DEF TimerInv
-------------------------------------------------------------------------------
\* What a step of a hart leaves alone: the clock, the other harts, and the
\* registers that are not its own
OthersSame(h) ==
  /\ board' = board /\ position' = position /\ registered' = registered /\ mtime' = mtime
  /\ \A g \in board.harts : g # h =>
       /\ at'[g] = at[g] /\ when'[g] = when[g] /\ hi'[g] = hi[g] /\ lo'[g] = lo[g]
       /\ began'[g] = began[g] /\ stimecmp'[g] = stimecmp[g] /\ deadline'[g] = deadline[g]
       /\ mie'[g] = mie[g] /\ stip'[g] = stip[g] /\ domain'[g] = domain[g]
       /\ saved'[g] = saved[g] /\ asked'[g] = asked[g]
  /\ \A p \in Slots : p # position[h] => mtimecmp'[p] = mtimecmp[p]

\* Such a step keeps the invariant if it does for the hart that takes it.
LEMMA OneHartSteps ==
  ASSUME TimerInv, TimerTypes', NEW h \in board.harts, OthersSame(h), HartIsTrue(h)',
         registered \/ mtimecmp' = mtimecmp
  PROVE  TimerInv'
<1>1. /\ board' = board /\ position' = position /\ registered' = registered /\ mtime' = mtime
  BY DEF OthersSame
<1>2. OnlyOwn'
  <2> SUFFICES ASSUME NEW p \in Slots, mtimecmp'[p] # Never
               PROVE  \E g \in board.harts : position[g] = p
    BY <1>1 DEF OnlyOwn
  <2>1. p # position[h] => mtimecmp'[p] = mtimecmp[p]
    BY DEF OthersSame
  <2> QED
    BY <2>1 DEF TimerInv, OnlyOwn
<1>3. ASSUME NEW g \in board.harts, g # h PROVE HartIsTrue(g)'
  <2>1. HartIsTrue(g)
    BY DEF TimerInv
  <2>2. /\ at'[g] = at[g] /\ when'[g] = when[g] /\ hi'[g] = hi[g] /\ lo'[g] = lo[g]
        /\ began'[g] = began[g] /\ stimecmp'[g] = stimecmp[g] /\ deadline'[g] = deadline[g]
        /\ mie'[g] = mie[g] /\ stip'[g] = stip[g] /\ domain'[g] = domain[g]
        /\ saved'[g] = saved[g] /\ asked'[g] = asked[g]
    BY <1>3 DEF OthersSame
  <2>3. position[g] \in Slots => mtimecmp'[position[g]] = mtimecmp[position[g]]
    <3>1. CASE registered
      <4>1. position[g] \in Slots => position[g] # position[h]
        BY <1>3, <3>1, OwnRegister DEF TimerInv
      <4> QED
        BY <4>1 DEF OthersSame
    <3>2. CASE ~registered
      BY <3>2
    <3> QED
      BY <3>1, <3>2
  <2>4. Keeps(g)'
    BY <1>1, <2>1, <2>2 DEF HartIsTrue, Keeps, SmodeGet
  <2>5. Programs(g) => Programs(g)'
    BY <1>1, <2>2, <2>3 DEF Programs
  <2>6. Reads(g)'
    BY <1>1, <2>1, <2>2 DEF HartIsTrue, Reads
  <2> QED
    BY <1>1, <2>1, <2>2, <2>4, <2>5, <2>6 DEF HartIsTrue, HasDriver
<1>4. \A g \in board.harts' : HartIsTrue(g)'
  BY <1>1, <1>3
<1> QED
  BY <1>2, <1>4 DEF TimerInv

\* The types of one hart
LEMMA HartTypesAt ==
  ASSUME TimerTypes, NEW h \in board.harts
  PROVE  /\ at[h] \in {"smode"} \cup Setting \cup Stopping \cup Reading
         /\ when[h] \in Nat /\ hi[h] \in Nat /\ lo[h] \in Nat /\ began[h] \in Nat
         /\ stimecmp[h] \in Nat /\ deadline[h] \in Nat /\ mie[h] \in BOOLEAN /\ stip[h] \in BOOLEAN
         /\ domain[h] \in TimerDomains /\ saved[h] \in [TimerDomains -> Nat]
         /\ asked[h] \in [TimerDomains -> Nat] /\ H = board.harts
BY DEF TimerTypes, H

\* The steps of timer_now(): the device is only read.
LEMMA ReadsKeepInv ==
  ASSUME TimerInv, NEW h \in board.harts,
         NowLo(h) \/ NowCheck(h) \/ NowAgain(h) \/ NowReturns(h) \/ ReadTime(h)
  PROVE  TimerInv'
<1>1. /\ TimerTypes /\ HartIsTrue(h) /\ Keeps(h) /\ Reads(h) /\ (~board.sstc => Programs(h))
  BY DEF TimerInv, HartIsTrue
<1>2. /\ UNCHANGED <<board, position, registered, mtime, mtimecmp, mie, stip, stimecmp, deadline,
                     saved, domain, when, asked>>
  BY DEF NowLo, NowCheck, NowAgain, NowReturns, ReadTime, fixed, device, reads
<1>3. /\ mtime \in Nat /\ Hi(mtime) \in Nat /\ Lo(mtime) \in Nat /\ hi[h] \in Nat /\ lo[h] \in Nat
      /\ began[h] \in Nat
  <2>1. mtime \in Nat
    BY <1>1 DEF TimerTypes
  <2>2. Lo(mtime) \in 0 .. Base - 1 /\ Hi(mtime) \in Nat
    BY <2>1, ValueIsHalves
  <2>3. \A c \in 0 .. Base - 1 : c \in Nat
    BY TimerNumbers
  <2>4. hi[h] \in Nat /\ lo[h] \in Nat /\ began[h] \in Nat
    BY <1>1 DEF TimerTypes
  <2> QED
    BY <2>1, <2>2, <2>3, <2>4
<1>4. Keeps(h)'
  BY <1>1, <1>2 DEF Keeps, SmodeGet
<1>5. /\ at[h] \in {"smode"} \cup Reading /\ at'[h] \in {"smode"} \cup Reading
      /\ at' \in [board.harts -> {"smode"} \cup Setting \cup Stopping \cup Reading]
      /\ \A g \in board.harts : g # h => at'[g] = at[g]
  <2>1. at \in [board.harts -> {"smode"} \cup Setting \cup Stopping \cup Reading]
    BY <1>1 DEF TimerTypes
  <2>2. PICK x \in {"smode"} \cup Reading : at' = [at EXCEPT ![h] = x]
    BY DEF NowLo, NowCheck, NowAgain, NowReturns, ReadTime, Reading
  <2>3. at[h] \in {"smode"} \cup Reading
    BY DEF NowLo, NowCheck, NowAgain, NowReturns, ReadTime, Calls, Reading
  <2> QED
    BY <2>1, <2>2, <2>3
<1>6. ~board.sstc => Programs(h)'
  <2>1. \A x \in {"smode"} \cup Reading : /\ x \notin Setting /\ x \notin Stopping
                                          /\ x # "set_lo" /\ x # "set_mie"
    BY DEF Setting, Stopping, Reading
  <2> QED
    BY <1>1, <1>2, <1>5, <2>1 DEF Programs
<1>7. /\ hi' \in [board.harts -> Nat] /\ lo' \in [board.harts -> Nat] /\ began' \in [board.harts -> Nat]
      /\ \A g \in board.harts : g # h => hi'[g] = hi[g] /\ lo'[g] = lo[g] /\ began'[g] = began[g]
  <2>1. /\ hi \in [board.harts -> Nat] /\ lo \in [board.harts -> Nat] /\ began \in [board.harts -> Nat]
    BY <1>1 DEF TimerTypes
  <2>2. hi' = hi \/ hi' = [hi EXCEPT ![h] = Hi(mtime)]
    BY DEF NowLo, NowCheck, NowAgain, NowReturns, ReadTime, reads
  <2>3. lo' = lo \/ lo' = [lo EXCEPT ![h] = Lo(mtime)]
    BY DEF NowLo, NowCheck, NowAgain, NowReturns, ReadTime, reads
  <2>4. began' = began \/ began' = [began EXCEPT ![h] = mtime]
    BY DEF NowLo, NowCheck, NowAgain, NowReturns, ReadTime, reads
  <2>5. hi' \in [board.harts -> Nat] /\ \A g \in board.harts : g # h => hi'[g] = hi[g]
    BY <1>3, <2>1, <2>2
  <2>6. lo' \in [board.harts -> Nat] /\ \A g \in board.harts : g # h => lo'[g] = lo[g]
    BY <1>3, <2>1, <2>3
  <2>7. began' \in [board.harts -> Nat] /\ \A g \in board.harts : g # h => began'[g] = began[g]
    BY <1>3, <2>1, <2>4
  <2> QED
    BY <2>5, <2>6, <2>7
<1>8. TimerTypes'
  BY <1>1, <1>2, <1>5, <1>7 DEF TimerTypes
<1>9. OthersSame(h)
  BY <1>2, <1>5, <1>7 DEF OthersSame
<1>10. Reads(h)'
  <2>1. DOMAIN at = board.harts /\ DOMAIN hi = board.harts /\ DOMAIN lo = board.harts
        /\ DOMAIN began = board.harts
    BY <1>1 DEF TimerTypes
  <2>2. CASE ReadTime(h)
    <3>1. at'[h] = "now_lo" /\ hi'[h] = Hi(mtime) /\ began'[h] = mtime
      BY <2>1, <2>2 DEF ReadTime
    <3>2. mtime <= mtime /\ Hi(mtime) <= Hi(mtime) /\ mtime' = mtime
      BY <1>2, <1>3
    <3>3. began'[h] <= mtime' /\ hi'[h] <= Hi(mtime')
      BY <3>1, <3>2
    <3> QED
      BY <3>1, <3>3 DEF Reads
  <2>3. CASE NowLo(h)
    <3>1. at[h] = "now_lo" /\ at'[h] = "now_check" /\ lo'[h] = Lo(mtime) /\ hi' = hi /\ began' = began
      BY <2>1, <2>3 DEF NowLo
    <3>2. began[h] <= mtime /\ hi[h] <= Hi(mtime)
      BY <1>1, <3>1 DEF Reads, Reading
    <3>3. \E t \in Nat : /\ began[h] <= t /\ t <= mtime /\ lo'[h] = Lo(t) /\ hi[h] <= Hi(t)
      <4>1. mtime \in Nat /\ mtime <= mtime
        BY <1>3
      <4> QED
        BY <3>1, <3>2, <4>1
    <3> QED
      BY <1>2, <3>1, <3>2, <3>3 DEF Reads
  <2>4. CASE NowCheck(h)
    <3>1. /\ at[h] = "now_check" /\ hi' = hi /\ lo' = lo /\ began' = began
          /\ at'[h] = IF Hi(mtime) = hi[h] THEN "now_done" ELSE "now_hi"
      BY <2>1, <2>4 DEF NowCheck, reads
    <3>2. began[h] <= mtime
      BY <1>1, <3>1 DEF Reads, Reading
    <3>3. PICK t \in Nat : began[h] <= t /\ t <= mtime /\ lo[h] = Lo(t) /\ hi[h] <= Hi(t)
      BY <1>1, <3>1 DEF Reads
    <3>4. Hi(t) <= Hi(mtime) /\ Hi(t) \in Nat /\ Word(Hi(t), Lo(t)) = t
      BY <1>3, <3>3, HighHalfGrows, ValueIsHalves
    <3>5. Hi(mtime) = hi[h] => Word(hi[h], lo[h]) = t
      <4>1. Hi(mtime) = hi[h] => Hi(t) = hi[h]
        BY <1>3, <3>3, <3>4
      <4> QED
        BY <3>3, <3>4, <4>1
    <3>6. at'[h] = "now_done" => Word(hi[h], lo[h]) >= began[h] /\ Word(hi[h], lo[h]) <= mtime
      BY <1>3, <3>1, <3>3, <3>5
    <3>7. at'[h] \in {"now_done", "now_hi"}
      BY <3>1
    <3>8. hi'[h] = hi[h] /\ lo'[h] = lo[h] /\ began'[h] = began[h]
      BY <3>1
    <3> QED
      BY <1>2, <3>2, <3>6, <3>7, <3>8 DEF Reads
  <2>5. CASE NowAgain(h)
    <3>1. at[h] = "now_hi" /\ at'[h] = "now_lo" /\ hi'[h] = Hi(mtime) /\ lo' = lo /\ began' = began
      BY <2>1, <2>5 DEF NowAgain
    <3>2. began[h] <= mtime
      BY <1>1, <3>1 DEF Reads, Reading
    <3>3. Hi(mtime) <= Hi(mtime) /\ mtime' = mtime
      BY <1>2, <1>3
    <3>4. began'[h] <= mtime' /\ hi'[h] <= Hi(mtime')
      BY <3>1, <3>2, <3>3
    <3> QED
      BY <3>1, <3>4 DEF Reads
  <2>6. CASE NowReturns(h)
    <3>1. at'[h] = "smode"
      BY <2>1, <2>6 DEF NowReturns
    <3> QED
      BY <3>1 DEF Reads, Reading
  <2> QED
    BY <2>2, <2>3, <2>4, <2>5, <2>6
<1>11. HasDriver(h)'
  BY <1>5 DEF HasDriver, Setting, Stopping, Reading
<1>12. HartIsTrue(h)'
  BY <1>2, <1>4, <1>6, <1>10, <1>11 DEF HartIsTrue
<1> QED
  BY <1>2, <1>8, <1>9, <1>12, OneHartSteps

\* A step that writes a half of the hart's register, or none.
LEMMA WriteOfAHalf ==
  ASSUME TimerInv, NEW h \in board.harts, at[h] \in Setting \cup Stopping,
         NEW x \in {"smode"} \cup Setting \cup Stopping, at' = [at EXCEPT ![h] = x],
         NEW v \in Nat, mtimecmp' = mtimecmp \/ mtimecmp' = [mtimecmp EXCEPT ![position[h]] = v],
         UNCHANGED <<fixed, mtime, mie, stip, stimecmp, deadline, saved, domain, when, reads, asked>>,
         ~board.sstc => Programs(h)'
  PROVE  TimerInv'
<1>1. /\ TimerTypes /\ Keeps(h) /\ registered
  BY DEF TimerInv, HartIsTrue, HasDriver
<1>2. UNCHANGED <<board, position, registered, mtime, mie, stip, stimecmp, deadline, saved, domain,
                  when, hi, lo, began, asked>>
  BY DEF fixed, reads
<1>3. /\ at' \in [board.harts -> {"smode"} \cup Setting \cup Stopping \cup Reading] /\ at'[h] = x
      /\ \A g \in board.harts : g # h => at'[g] = at[g]
  <2>1. at \in [board.harts -> {"smode"} \cup Setting \cup Stopping \cup Reading]
    BY <1>1 DEF TimerTypes
  <2> QED
    BY <2>1
<1>4. /\ mtimecmp' \in [Slots -> Nat]
      /\ \A p \in Slots : p # position[h] => mtimecmp'[p] = mtimecmp[p]
  <2>1. mtimecmp \in [Slots -> Nat]
    BY <1>1 DEF TimerTypes
  <2> QED
    BY <2>1
<1>5. TimerTypes'
  BY <1>1, <1>2, <1>3, <1>4 DEF TimerTypes
<1>6. OthersSame(h)
  BY <1>2, <1>3, <1>4 DEF OthersSame
<1>7. Keeps(h)'
  BY <1>1, <1>2 DEF Keeps, SmodeGet
<1>8. Reads(h)'
  <2>1. x \notin Reading
    BY DEF Reading, Setting, Stopping
  <2> QED
    BY <1>3, <2>1 DEF Reads, Reading
<1>9. HartIsTrue(h)'
  BY <1>1, <1>2, <1>7, <1>8 DEF HartIsTrue, HasDriver
<1> QED
  BY <1>1, <1>5, <1>6, <1>9, OneHartSteps

\* A half that is written, and the other one
LEMMA WrittenHalves ==
  ASSUME NEW v \in Nat, NEW w \in Nat
  PROVE  /\ Word(Hi(v), Base - 1) \in Nat
         /\ Word(Hi(w), Lo(v)) \in Nat /\ Hi(Word(Hi(w), Lo(v))) = Hi(w)
         /\ Word(Hi(v), Lo(w)) \in Nat /\ (Hi(v) = Hi(w) => Word(Hi(v), Lo(w)) = w)
<1>1. /\ Hi(v) \in Nat /\ Lo(v) \in 0 .. Base - 1 /\ Hi(w) \in Nat /\ Lo(w) \in 0 .. Base - 1
      /\ Word(Hi(w), Lo(w)) = w
  BY ValueIsHalves
<1>2. \A a \in Nat, c \in 0 .. Base - 1 : Word(a, c) \in Nat /\ Hi(Word(a, c)) = a
  BY HalvesAreValue
<1>3. Base - 1 \in 0 .. Base - 1
  BY TimerNumbers
<1> QED
  BY <1>1, <1>2, <1>3

\* aclint_mtimer_set_event(): the low half is all ones while the high one is
\* written, so no time in between is set.
LEMMA SetEventKeepsInv ==
  ASSUME TimerInv, NEW h \in board.harts, SetEvent(h) \/ SetEventHi(h) \/ SetEventLo(h)
  PROVE  TimerInv'
<1>2. /\ TimerTypes /\ (~board.sstc => Programs(h))
  BY DEF TimerInv, HartIsTrue
<1>3. /\ when[h] \in Nat /\ DOMAIN at = board.harts /\ mtimecmp \in [Slots -> Nat]
  BY <1>2 DEF TimerTypes
<1>4. UNCHANGED <<fixed, mtime, mie, stip, stimecmp, deadline, saved, domain, when, reads, asked>>
  BY DEF SetEvent, SetEventHi, SetEventLo
<1>5. UNCHANGED <<board, position, mtime, mie, stip, deadline, when>>
  BY <1>4 DEF fixed
<1> DEFINE p == position[h]
           old == mtimecmp[p]
<1>6. CASE SetEvent(h)
  <2>1. at[h] \in {"set_event", "stop_event"}
    BY <1>6 DEF SetEvent
  <2> DEFINE x == IF HasRegister(h) THEN (IF at[h] = "set_event" THEN "set_hi" ELSE "stop_hi")
                  ELSE (IF at[h] = "set_event" THEN "set_mie" ELSE "smode")
             v == IF p \in Slots THEN Word(Hi(old), Base - 1) ELSE 0
  <2>2. at' = [at EXCEPT ![h] = x]
    BY <1>6 DEF SetEvent
  <2>3. v \in Nat
    BY <1>3, WrittenHalves
  <2>4. mtimecmp' = mtimecmp \/ mtimecmp' = [mtimecmp EXCEPT ![p] = v]
    <3>1. CASE p \in Slots
      BY <1>6, <3>1 DEF SetEvent
    <3>2. CASE p \notin Slots
      BY <1>3, <1>6, <3>2 DEF SetEvent
    <3> QED
      BY <3>1, <3>2
  <2>5. at'[h] = x /\ x \in {"smode"} \cup Setting \cup Stopping
    BY <1>3, <2>1, <2>2 DEF Setting, Stopping
  <2>6. ~board.sstc => Programs(h)'
    <3>1. p \in Slots => HasRegister(h)
      BY TimerNumbers DEF HasRegister, Slots
    <3>2. /\ x \in Setting <=> at[h] \in Setting
          /\ x \in Stopping => at[h] \in Stopping
          /\ x # "set_lo"
          /\ x = "set_mie" => ~HasRegister(h)
          /\ x = "smode" => ~HasRegister(h) /\ at[h] \in Stopping
      BY <2>1 DEF Setting, Stopping
    <3>3. x \notin Setting => at[h] \in Stopping
      BY <2>1, <3>2 DEF Setting, Stopping
    <3> HIDE DEF x, v, p, old
    <3>4. ~board.sstc => Programs(h)
      BY <1>2
    <3> QED
      BY <1>5, <2>5, <3>1, <3>2, <3>3, <3>4 DEF Programs, p
  <2>7. at[h] \in Setting \cup Stopping
    BY <2>1 DEF Setting, Stopping
  <2> HIDE DEF x, v
  <2> QED
    BY <1>4, <2>2, <2>3, <2>4, <2>5, <2>6, <2>7, WriteOfAHalf
<1>7. CASE SetEventHi(h)
  <2>1. at[h] \in {"set_hi", "stop_hi"}
    BY <1>7 DEF SetEventHi
  <2> DEFINE x == IF at[h] = "set_hi" THEN "set_lo" ELSE "stop_lo"
             v == IF p \in Slots THEN Word(Hi(when[h]), Lo(old)) ELSE 0
  <2>2. at' = [at EXCEPT ![h] = x]
    BY <1>7 DEF SetEventHi
  <2>3. v \in Nat /\ (p \in Slots => Hi(v) = Hi(when[h]))
    BY <1>3, WrittenHalves
  <2>4. /\ mtimecmp' = mtimecmp \/ mtimecmp' = [mtimecmp EXCEPT ![p] = v]
        /\ p \in Slots => mtimecmp'[p] = v
    <3>1. CASE p \in Slots
      BY <1>3, <1>7, <3>1 DEF SetEventHi
    <3>2. CASE p \notin Slots
      BY <1>3, <1>7, <3>2 DEF SetEventHi
    <3> QED
      BY <3>1, <3>2
  <2>5. at'[h] = x /\ x \in {"smode"} \cup Setting \cup Stopping
    BY <1>3, <2>1, <2>2 DEF Setting, Stopping
  <2>6. ~board.sstc => Programs(h)'
    <3>1. /\ x \in Setting <=> at[h] \in Setting
          /\ x \in Stopping => at[h] \in Stopping
          /\ x # "set_mie"
          /\ x \notin Setting => at[h] \in Stopping
      BY <2>1 DEF Setting, Stopping
    <3> HIDE DEF x, v, p, old
    <3>2. ~board.sstc => Programs(h)
      BY <1>2
    <3> QED
      BY <1>5, <2>3, <2>4, <2>5, <3>1, <3>2 DEF Programs, p
  <2>7. at[h] \in Setting \cup Stopping
    BY <2>1 DEF Setting, Stopping
  <2> HIDE DEF x, v
  <2> QED
    BY <1>4, <2>2, <2>3, <2>4, <2>5, <2>6, <2>7, WriteOfAHalf
<1>8. CASE SetEventLo(h)
  <2>1. at[h] \in {"set_lo", "stop_lo"}
    BY <1>8 DEF SetEventLo
  <2> DEFINE x == IF at[h] = "set_lo" THEN "set_mie" ELSE "smode"
             v == IF p \in Slots THEN Word(Hi(old), Lo(when[h])) ELSE 0
  <2>2. at' = [at EXCEPT ![h] = x]
    BY <1>8 DEF SetEventLo
  <2>3. v \in Nat /\ (p \in Slots /\ Hi(old) = Hi(when[h]) => v = when[h])
    BY <1>3, WrittenHalves
  <2>4. /\ mtimecmp' = mtimecmp \/ mtimecmp' = [mtimecmp EXCEPT ![p] = v]
        /\ p \in Slots => mtimecmp'[p] = v
    <3>1. CASE p \in Slots
      BY <1>3, <1>8, <3>1 DEF SetEventLo
    <3>2. CASE p \notin Slots
      BY <1>3, <1>8, <3>2 DEF SetEventLo
    <3> QED
      BY <3>1, <3>2
  <2>5. at'[h] = x /\ x \in {"smode"} \cup Setting \cup Stopping
    BY <1>3, <2>1, <2>2 DEF Setting, Stopping
  <2>6. ~board.sstc => Programs(h)'
    <3>1. /\ x \in Setting <=> at[h] \in Setting
          /\ x \notin Stopping
          /\ x # "set_lo"
          /\ x = "set_mie" => at[h] = "set_lo"
          /\ x \notin Setting => at[h] \in Stopping
      BY <2>1 DEF Setting, Stopping
    <3>2. ~board.sstc => Programs(h)
      BY <1>2
    <3>3. ~board.sstc /\ x = "set_mie" /\ p \in Slots => mtimecmp'[p] = when[h]
      BY <2>3, <2>4, <3>1, <3>2 DEF Programs
    <3> HIDE DEF x, v, p, old
    <3> QED
      BY <1>5, <2>5, <3>1, <3>2, <3>3 DEF Programs, p
  <2>7. at[h] \in Setting \cup Stopping
    BY <2>1 DEF Setting, Stopping
  <2> HIDE DEF x, v
  <2> QED
    BY <1>4, <2>2, <2>3, <2>4, <2>5, <2>6, <2>7, WriteOfAHalf
<1> QED
  BY <1>6, <1>7, <1>8

\* The end of timer_smode_restore(): the interrupt is enabled when the register
\* has the deadline.
LEMMA SetMieKeepsInv ==
  ASSUME TimerInv, NEW h \in board.harts, SetMie(h)
  PROVE  TimerInv'
<1>1. /\ TimerTypes /\ Keeps(h) /\ (~board.sstc => Programs(h))
  BY DEF TimerInv, HartIsTrue
<1>2. /\ at[h] = "set_mie" /\ mie' = [mie EXCEPT ![h] = TRUE] /\ at' = [at EXCEPT ![h] = "smode"]
      /\ UNCHANGED <<board, position, registered, mtime, mtimecmp, stip, stimecmp, deadline, saved,
                     domain, when, hi, lo, began, asked>>
  BY DEF SetMie, fixed, device, reads
<1>3. /\ at' \in [board.harts -> {"smode"} \cup Setting \cup Stopping \cup Reading] /\ at'[h] = "smode"
      /\ \A g \in board.harts : g # h => at'[g] = at[g]
  <2>1. at \in [board.harts -> {"smode"} \cup Setting \cup Stopping \cup Reading]
    BY <1>1 DEF TimerTypes
  <2> QED
    BY <1>2, <2>1
<1>4. /\ mie' \in [board.harts -> BOOLEAN] /\ \A g \in board.harts : g # h => mie'[g] = mie[g]
  BY <1>1, <1>2 DEF TimerTypes
<1>5. TimerTypes'
  BY <1>1, <1>2, <1>3, <1>4 DEF TimerTypes
<1>6. OthersSame(h)
  BY <1>2, <1>3, <1>4 DEF OthersSame
<1>7. Keeps(h)'
  BY <1>1, <1>2 DEF Keeps, SmodeGet
<1>8. Reads(h)' /\ HasDriver(h)'
  BY <1>3 DEF Reads, HasDriver, Reading, Setting, Stopping
<1>9. ~board.sstc => Programs(h)'
  <2>1. /\ "smode" \notin Setting \cup Stopping /\ "set_mie" \in Setting
    BY DEF Setting, Stopping
  <2>2. ASSUME ~board.sstc
        PROVE  /\ ~stip[h] /\ when[h] = deadline[h]
               /\ position[h] \in Slots => mtimecmp[position[h]] = when[h]
    BY <1>1, <1>2, <2>1, <2>2 DEF Programs
  <2> QED
    BY <1>2, <1>3, <2>1, <2>2 DEF Programs
<1>10. HartIsTrue(h)'
  BY <1>2, <1>7, <1>8, <1>9 DEF HartIsTrue
<1> QED
  BY <1>2, <1>5, <1>6, <1>10, OneHartSteps

\* timer_process(): only the hart's own register interrupts it, and that one
\* has the deadline while the interrupt is enabled.
LEMMA ProcessKeepsInv ==
  ASSUME TimerInv, NEW h \in board.harts, TimerProcess(h)
  PROVE  TimerInv'
<1>1. /\ TimerTypes /\ Keeps(h) /\ (~board.sstc => Programs(h)) /\ OnlyOwn
  BY DEF TimerInv, HartIsTrue
<1>2. /\ at[h] = "smode" /\ mie' = [mie EXCEPT ![h] = FALSE] /\ stip' = [stip EXCEPT ![h] = TRUE]
      /\ Mtip(h) /\ mie[h]
      /\ UNCHANGED <<board, position, registered, mtime, mtimecmp, stimecmp, deadline, saved,
                     domain, at, when, hi, lo, began, asked>>
  BY DEF TimerProcess, fixed, device, reads
<1>3. ~board.sstc => mtime >= deadline[h]
  <2>1. registered /\ DOMAIN mtimecmp = Slots
    BY <1>1, <1>2 DEF Mtip, TimerTypes
  <2>2. PICK p \in Slots : mtime >= mtimecmp[p] /\ WiredTo(p, board) = h
    BY <1>2, <2>1 DEF Mtip
  <2>3. mtimecmp[p] # Never
    <3>1. Never \in Nat /\ mtime \in Nat /\ mtime <= Never - 1
      BY <1>1, TimerNumbers DEF TimerTypes, LastTick
    <3> QED
      BY <2>2, <3>1
  <2>4. PICK g \in board.harts : position[g] = p
    BY <1>1, <2>3 DEF OnlyOwn
  <2>5. g = h
    BY <1>1, <2>1, <2>2, <2>4, OwnRegister
  <2>6. "smode" \notin Setting
    BY DEF Setting
  <2>7. ~board.sstc => mtimecmp[p] = deadline[h]
    BY <1>1, <1>2, <2>4, <2>5, <2>6 DEF Programs
  <2> QED
    BY <2>2, <2>7
<1>4. /\ mie' \in [board.harts -> BOOLEAN] /\ mie'[h] = FALSE
      /\ \A g \in board.harts : g # h => mie'[g] = mie[g]
  BY <1>1, <1>2 DEF TimerTypes
<1>5. /\ stip' \in [board.harts -> BOOLEAN] /\ \A g \in board.harts : g # h => stip'[g] = stip[g]
  BY <1>1, <1>2 DEF TimerTypes
<1>6. TimerTypes'
  BY <1>1, <1>2, <1>4, <1>5 DEF TimerTypes
<1>7. OthersSame(h)
  BY <1>2, <1>4, <1>5 DEF OthersSame
<1>8. Keeps(h)'
  BY <1>1, <1>2 DEF Keeps, SmodeGet
<1>9. Reads(h)' /\ HasDriver(h)'
  BY <1>2 DEF Reads, HasDriver, Reading, Setting, Stopping
<1>10. ~board.sstc => Programs(h)'
  <2>1. "smode" \notin Setting \cup Stopping
    BY DEF Setting, Stopping
  <2> QED
    BY <1>2, <1>3, <1>4, <2>1 DEF Programs
<1>11. HartIsTrue(h)'
  BY <1>2, <1>8, <1>9, <1>10 DEF HartIsTrue
<1> QED
  BY <1>2, <1>6, <1>7, <1>11, OneHartSteps

\* timer_smode_restore() up to the call of the driver: the hart has the
\* deadline, if it has a timer.
LEMMA RestoreKeepsTypes ==
  ASSUME TimerTypes, NEW h \in board.harts, NEW t \in Nat, at[h] = "smode", SmodeRestore(h, t)
  PROVE  /\ stimecmp' \in [board.harts -> Nat] /\ deadline' \in [board.harts -> Nat]
         /\ stip' \in [board.harts -> BOOLEAN] /\ when' \in [board.harts -> Nat]
         /\ at' \in [board.harts -> {"smode"} \cup Setting \cup Stopping \cup Reading]
         /\ \A g \in board.harts : g # h =>
              /\ stimecmp'[g] = stimecmp[g] /\ deadline'[g] = deadline[g] /\ stip'[g] = stip[g]
              /\ when'[g] = when[g] /\ at'[g] = at[g]
         /\ board.sstc => stimecmp'[h] = t
         /\ ~board.sstc /\ registered =>
              deadline'[h] = t /\ ~stip'[h] /\ when'[h] = t /\ at'[h] = "set_event"
         /\ ~board.sstc /\ ~registered => deadline' = deadline /\ stip' = stip /\ when' = when /\ at' = at
         /\ at'[h] = "smode" \/ (registered /\ at'[h] = "set_event")
<1>1. /\ stimecmp \in [board.harts -> Nat] /\ deadline \in [board.harts -> Nat]
      /\ when \in [board.harts -> Nat]
      /\ at \in [board.harts -> {"smode"} \cup Setting \cup Stopping \cup Reading]
  BY DEF TimerTypes
<1>2. stip \in [board.harts -> BOOLEAN]
  BY DEF TimerTypes
<1>3. "set_event" \in Setting
  BY DEF Setting
<1>4. CASE board.sstc
  BY <1>1, <1>2, <1>4 DEF SmodeRestore
<1>5. CASE ~board.sstc /\ ~registered
  BY <1>1, <1>2, <1>5 DEF SmodeRestore
<1>6. CASE ~board.sstc /\ registered
  <2>1. /\ deadline' = [deadline EXCEPT ![h] = t] /\ when' = [when EXCEPT ![h] = t]
        /\ at' = [at EXCEPT ![h] = "set_event"] /\ stimecmp' = stimecmp
    BY <1>6 DEF SmodeRestore
  <2>2. stip' = [stip EXCEPT ![h] = FALSE]
    BY <1>6 DEF SmodeRestore
  <2>3. /\ stip' \in [board.harts -> BOOLEAN] /\ stip'[h] = FALSE
        /\ \A g \in board.harts : g # h => stip'[g] = stip[g]
    BY <1>2, <2>2
  <2> QED
    BY <1>1, <1>3, <1>6, <2>1, <2>3
<1> QED
  BY <1>4, <1>5, <1>6

\* A step in which timer_smode_restore() gives the hart the deadline of the
\* domain it then runs.
LEMMA RestoreKeepsInv ==
  ASSUME TimerInv, NEW h \in board.harts, NEW t \in Nat, at[h] = "smode", SmodeRestore(h, t),
         UNCHANGED <<fixed, device, mie, reads>>,
         domain' \in [board.harts -> TimerDomains],
         saved' \in [board.harts -> [TimerDomains -> Nat]],
         asked' \in [board.harts -> [TimerDomains -> Nat]],
         \A g \in board.harts : g # h =>
           domain'[g] = domain[g] /\ saved'[g] = saved[g] /\ asked'[g] = asked[g],
         asked'[h][domain'[h]] = t,
         \A d \in TimerDomains : d # domain'[h] => saved'[h][d] = asked'[h][d],
         ~board.sstc /\ ~registered =>
           \A d \in TimerDomains : asked'[h][d] = Never
  PROVE  TimerInv'
<1>1. /\ TimerTypes /\ Keeps(h) /\ (~board.sstc => Programs(h))
  BY DEF TimerInv, HartIsTrue
<1>2. UNCHANGED <<board, position, registered, mtime, mtimecmp, mie, hi, lo, began>>
  BY DEF fixed, device, reads
<1>3. /\ stimecmp' \in [board.harts -> Nat] /\ deadline' \in [board.harts -> Nat]
      /\ stip' \in [board.harts -> BOOLEAN] /\ when' \in [board.harts -> Nat]
      /\ at' \in [board.harts -> {"smode"} \cup Setting \cup Stopping \cup Reading]
      /\ \A g \in board.harts : g # h =>
           /\ stimecmp'[g] = stimecmp[g] /\ deadline'[g] = deadline[g] /\ stip'[g] = stip[g]
           /\ when'[g] = when[g] /\ at'[g] = at[g]
  BY <1>1, RestoreKeepsTypes
<1>4. /\ board.sstc => stimecmp'[h] = t
      /\ ~board.sstc /\ registered =>
           deadline'[h] = t /\ ~stip'[h] /\ when'[h] = t /\ at'[h] = "set_event"
      /\ ~board.sstc /\ ~registered => deadline' = deadline /\ stip' = stip /\ when' = when /\ at' = at
      /\ at'[h] = "smode" \/ (registered /\ at'[h] = "set_event")
  <2>1. board.sstc => stimecmp'[h] = t
    BY <1>1, RestoreKeepsTypes
  <2>2. ~board.sstc /\ registered =>
           deadline'[h] = t /\ ~stip'[h] /\ when'[h] = t /\ at'[h] = "set_event"
    BY <1>1, RestoreKeepsTypes
  <2>3. ~board.sstc /\ ~registered => deadline' = deadline /\ stip' = stip /\ when' = when /\ at' = at
    BY <1>1, RestoreKeepsTypes
  <2>4. at'[h] = "smode" \/ (registered /\ at'[h] = "set_event")
    BY <1>1, RestoreKeepsTypes
  <2> QED
    BY <2>1, <2>2, <2>3, <2>4
<1>5. TimerTypes'
  BY <1>1, <1>2, <1>3 DEF TimerTypes
<1>6. OthersSame(h)
  BY <1>2, <1>3 DEF OthersSame
<1>7. Keeps(h)'
  <2>1. SmodeGet(h)' = asked'[h][domain'[h]]
    <3>1. CASE board.sstc
      BY <1>2, <1>4, <3>1 DEF SmodeGet
    <3>2. CASE ~board.sstc /\ registered
      BY <1>2, <1>4, <3>2 DEF SmodeGet
    <3>3. CASE ~board.sstc /\ ~registered
      <4>1. deadline[h] = asked[h][domain[h]] /\ domain[h] \in TimerDomains
            /\ domain'[h] \in TimerDomains
        BY <1>1, <3>3 DEF Keeps, SmodeGet, TimerTypes
      <4>2. deadline[h] = Never /\ asked'[h][domain'[h]] = Never
        BY <1>1, <3>3, <4>1 DEF Keeps
      <4> QED
        BY <1>2, <1>4, <3>3, <4>2 DEF SmodeGet
    <3> QED
      BY <3>1, <3>2, <3>3
  <2> QED
    BY <1>2, <2>1 DEF Keeps
<1>8. Reads(h)' /\ HasDriver(h)'
  BY <1>2, <1>4 DEF Reads, HasDriver, Reading, Setting, Stopping
<1>9. ~board.sstc => Programs(h)'
  <2>1. CASE ~board.sstc /\ registered
    <3>1. /\ "set_event" \in Setting /\ "set_event" \notin Stopping
      BY DEF Setting, Stopping
    <3> QED
      BY <1>2, <1>4, <2>1, <3>1 DEF Programs
  <2>2. CASE ~board.sstc /\ ~registered
    BY <1>1, <1>2, <1>4, <2>2 DEF Programs
  <2> QED
    BY <2>1, <2>2
<1>10. HartIsTrue(h)'
  BY <1>2, <1>7, <1>8, <1>9 DEF HartIsTrue
<1> QED
  BY <1>2, <1>5, <1>6, <1>10, OneHartSteps

\* sbi_set_timer()
LEMMA SetTimerKeepsInv ==
  ASSUME TimerInv, NEW h \in board.harts, NEW t \in Asks, SetTimer(h, t)
  PROVE  TimerInv'
<1>1. TimerTypes /\ Keeps(h)
  BY DEF TimerInv, HartIsTrue
<1>2. t \in Nat
  BY TimerAssumption
<1>3. /\ at[h] = "smode" /\ (board.sstc \/ registered) /\ SmodeRestore(h, t)
      /\ asked' = [asked EXCEPT ![h][domain[h]] = t]
      /\ UNCHANGED <<fixed, device, mie, reads>> /\ saved' = saved /\ domain' = domain
  BY DEF SetTimer, Calls
<1>4. /\ asked \in [board.harts -> [TimerDomains -> Nat]] /\ domain[h] \in TimerDomains
      /\ domain \in [board.harts -> TimerDomains] /\ saved \in [board.harts -> [TimerDomains -> Nat]]
  BY <1>1 DEF TimerTypes
<1>5. /\ asked' \in [board.harts -> [TimerDomains -> Nat]] /\ asked'[h][domain[h]] = t
      /\ \A d \in TimerDomains : d # domain[h] => asked'[h][d] = asked[h][d]
      /\ \A g \in board.harts : g # h => asked'[g] = asked[g]
  BY <1>2, <1>3, <1>4
<1>6. \A d \in TimerDomains : d # domain[h] => saved[h][d] = asked'[h][d]
  BY <1>1, <1>5 DEF Keeps
<1> QED
  BY <1>2, <1>3, <1>4, <1>5, <1>6, RestoreKeepsInv

\* The switch of a hart from one domain to another
LEMMA SwitchKeepsInv ==
  ASSUME TimerInv, NEW h \in board.harts, NEW d \in TimerDomains, SwitchDomain(h, d)
  PROVE  TimerInv'
<1>1. TimerTypes /\ Keeps(h)
  BY DEF TimerInv, HartIsTrue
<1>2. /\ at[h] = "smode" /\ d # domain[h] /\ SmodeRestore(h, saved[h][d])
      /\ saved' = [saved EXCEPT ![h][domain[h]] = SmodeGet(h)]
      /\ domain' = [domain EXCEPT ![h] = d]
      /\ UNCHANGED <<fixed, device, mie, reads>> /\ asked' = asked
  BY DEF SwitchDomain, Calls
<1>3. /\ asked \in [board.harts -> [TimerDomains -> Nat]] /\ domain[h] \in TimerDomains
      /\ domain \in [board.harts -> TimerDomains] /\ saved \in [board.harts -> [TimerDomains -> Nat]]
      /\ saved[h][d] \in Nat
  BY <1>1 DEF TimerTypes
<1>4. SmodeGet(h) = asked[h][domain[h]] /\ asked[h][domain[h]] \in Nat
  BY <1>1, <1>3 DEF Keeps
<1>5. /\ saved' \in [board.harts -> [TimerDomains -> Nat]] /\ saved'[h][domain[h]] = asked[h][domain[h]]
      /\ \A e \in TimerDomains : e # domain[h] => saved'[h][e] = saved[h][e]
      /\ \A g \in board.harts : g # h => saved'[g] = saved[g]
  BY <1>2, <1>3, <1>4
<1>6. /\ domain' \in [board.harts -> TimerDomains] /\ domain'[h] = d
      /\ \A g \in board.harts : g # h => domain'[g] = domain[g]
  BY <1>2, <1>3
<1>7. asked[h][d] = saved[h][d]
  BY <1>1, <1>2 DEF Keeps
<1>8. \A e \in TimerDomains : e # d => saved'[h][e] = asked[h][e]
  BY <1>1, <1>5 DEF Keeps
<1>9. ~board.sstc /\ ~registered => \A e \in TimerDomains : asked[h][e] = Never
  BY <1>1 DEF Keeps
<1>10. \A g \in board.harts : g # h =>
         domain'[g] = domain[g] /\ saved'[g] = saved[g] /\ asked'[g] = asked[g]
  BY <1>2, <1>5, <1>6
<1>11. /\ asked'[h][domain'[h]] = saved[h][d]
       /\ \A e \in TimerDomains : e # domain'[h] => saved'[h][e] = asked'[h][e]
       /\ ~board.sstc /\ ~registered => \A e \in TimerDomains : asked'[h][e] = Never
  <2>1. asked' = asked /\ domain'[h] = d
    BY <1>2, <1>6
  <2> QED
    BY <1>7, <1>8, <1>9, <2>1
<1>12. /\ asked' \in [board.harts -> [TimerDomains -> Nat]]
       /\ saved' \in [board.harts -> [TimerDomains -> Nat]]
       /\ domain' \in [board.harts -> TimerDomains]
  BY <1>2, <1>3, <1>5, <1>6
<1>13. /\ at[h] = "smode" /\ SmodeRestore(h, saved[h][d]) /\ saved[h][d] \in Nat
       /\ UNCHANGED <<fixed, device, mie, reads>>
  BY <1>2, <1>3
<1> QED
  BY <1>10, <1>11, <1>12, <1>13, RestoreKeepsInv

\* A stop of the hart, and its next start: nothing is left of the earlier life.
LEMMA RestartKeepsInv ==
  ASSUME TimerInv, NEW h \in board.harts, Restart(h)
  PROVE  TimerInv'
<1>1. TimerTypes /\ Keeps(h)
  BY DEF TimerInv, HartIsTrue
<1>2. /\ asked' = [asked EXCEPT ![h][domain[h]] = Never] /\ deadline' = [deadline EXCEPT ![h] = Never]
      /\ stimecmp' = [stimecmp EXCEPT ![h] = IF board.sstc THEN Never ELSE @]
      /\ UNCHANGED <<board, position, registered, mtime, mtimecmp, saved, domain, hi, lo, began>>
  BY DEF Restart, fixed, device, reads
<1>3. mie' = [mie EXCEPT ![h] = FALSE] /\ stip' = [stip EXCEPT ![h] = FALSE]
  BY DEF Restart
<1>4. /\ at[h] = "smode"
      /\ \/ registered /\ when' = [when EXCEPT ![h] = Never] /\ at' = [at EXCEPT ![h] = "stop_event"]
         \/ ~registered /\ when' = when /\ at' = at
  BY DEF Restart, Calls
<1>5. Never \in Nat /\ "stop_event" \in Stopping
  BY TimerNumbers DEF Stopping
<1>6. /\ at' \in [board.harts -> {"smode"} \cup Setting \cup Stopping \cup Reading]
      /\ \A g \in board.harts : g # h => at'[g] = at[g]
      /\ at'[h] = "smode" \/ (registered /\ at'[h] = "stop_event")
  <2>1. at \in [board.harts -> {"smode"} \cup Setting \cup Stopping \cup Reading]
    BY <1>1 DEF TimerTypes
  <2> QED
    BY <1>4, <1>5, <2>1
<1>7. /\ asked \in [board.harts -> [TimerDomains -> Nat]] /\ domain[h] \in TimerDomains
      /\ deadline \in [board.harts -> Nat] /\ stimecmp \in [board.harts -> Nat]
      /\ when \in [board.harts -> Nat]
  BY <1>1 DEF TimerTypes
<1>8. /\ asked' \in [board.harts -> [TimerDomains -> Nat]] /\ asked'[h][domain[h]] = Never
      /\ \A e \in TimerDomains : e # domain[h] => asked'[h][e] = asked[h][e]
      /\ \A g \in board.harts : g # h => asked'[g] = asked[g]
  BY <1>2, <1>5, <1>7
<1>9. /\ deadline' \in [board.harts -> Nat] /\ deadline'[h] = Never
      /\ stimecmp' \in [board.harts -> Nat] /\ (board.sstc => stimecmp'[h] = Never)
      /\ when' \in [board.harts -> Nat]
      /\ \A g \in board.harts : g # h => /\ deadline'[g] = deadline[g] /\ stimecmp'[g] = stimecmp[g]
                                         /\ when'[g] = when[g]
  BY <1>2, <1>4, <1>5, <1>7
<1>10. /\ mie' \in [board.harts -> BOOLEAN] /\ mie'[h] = FALSE
       /\ \A g \in board.harts : g # h => mie'[g] = mie[g]
  BY <1>1, <1>3 DEF TimerTypes
<1>11. /\ stip' \in [board.harts -> BOOLEAN] /\ stip'[h] = FALSE
       /\ \A g \in board.harts : g # h => stip'[g] = stip[g]
  BY <1>1, <1>3 DEF TimerTypes
<1>12. TimerTypes'
  BY <1>1, <1>2, <1>6, <1>8, <1>9, <1>10, <1>11 DEF TimerTypes
<1>13. OthersSame(h)
  BY <1>2, <1>6, <1>8, <1>9, <1>10, <1>11 DEF OthersSame
<1>14. Keeps(h)'
  <2>1. SmodeGet(h)' = Never
    BY <1>2, <1>9 DEF SmodeGet
  <2>2. \A d \in TimerDomains : d # domain[h] => saved[h][d] = asked'[h][d]
    BY <1>1, <1>8 DEF Keeps
  <2>3. ~board.sstc /\ ~registered => \A d \in TimerDomains : asked'[h][d] = Never
    BY <1>1, <1>8 DEF Keeps
  <2> QED
    BY <1>2, <1>8, <2>1, <2>2, <2>3 DEF Keeps
<1>15. Reads(h)' /\ HasDriver(h)'
  BY <1>2, <1>6 DEF Reads, HasDriver, Reading, Setting, Stopping
<1>16. Programs(h)'
  <2>1. \A x \in {"smode", "stop_event"} : x \notin Setting /\ x # "set_lo" /\ x # "set_mie"
    BY DEF Setting
  <2> QED
    BY <1>6, <1>10, <1>11, <2>1 DEF Programs
<1>17. HartIsTrue(h)'
  BY <1>14, <1>15, <1>16 DEF HartIsTrue
<1> QED
  BY <1>2, <1>12, <1>13, <1>17, OneHartSteps

\* The invariant is inductive.
LEMMA NextTimerInv ==
  ASSUME TimerInv, [TimerNext]_timerVars
  PROVE  TimerInv'
<1>1. H = board.harts
  BY DEF H, TimerInv, TimerTypes
<1>2. CASE Tick
  BY <1>2, TickKeepsInv
<1>3. ASSUME NEW h \in H, MonitorStep(h) PROVE TimerInv'
  <2>1. CASE SetEvent(h) \/ SetEventHi(h) \/ SetEventLo(h)
    BY <1>1, <2>1, SetEventKeepsInv
  <2>2. CASE SetMie(h)
    BY <1>1, <2>2, SetMieKeepsInv
  <2>3. CASE TimerProcess(h)
    BY <1>1, <2>3, ProcessKeepsInv
  <2>4. CASE NowLo(h) \/ NowCheck(h) \/ NowAgain(h) \/ NowReturns(h)
    BY <1>1, <2>4, ReadsKeepInv
  <2> QED
    BY <1>3, <2>1, <2>2, <2>3, <2>4 DEF MonitorStep
<1>4. ASSUME NEW h \in H, SmodeCall(h) PROVE TimerInv'
  <2>1. CASE \E t \in Asks : SetTimer(h, t)
    BY <1>1, <2>1, SetTimerKeepsInv
  <2>2. CASE \E d \in TimerDomains : SwitchDomain(h, d)
    BY <1>1, <2>2, SwitchKeepsInv
  <2>3. CASE Restart(h)
    BY <1>1, <2>3, RestartKeepsInv
  <2>4. CASE ReadTime(h)
    BY <1>1, <2>4, ReadsKeepInv
  <2> QED
    BY <1>4, <2>1, <2>2, <2>3, <2>4 DEF SmodeCall
<1>5. CASE UNCHANGED timerVars
  <2>1. UNCHANGED <<board, mtime, mtimecmp, position, registered, mie, stip, stimecmp, deadline, saved,
                    domain, at, when, hi, lo, began, asked>>
    BY <1>5 DEF timerVars
  <2>2. TimerTypes' /\ OnlyOwn'
    BY <2>1 DEF TimerInv, TimerTypes, OnlyOwn
  <2>3. ASSUME NEW h \in board.harts PROVE HartIsTrue(h)'
    <3>1. HartIsTrue(h)
      BY DEF TimerInv
    <3>2. Keeps(h)'
      BY <2>1, <3>1 DEF HartIsTrue, Keeps, SmodeGet
    <3>3. ~board.sstc => Programs(h)'
      BY <2>1, <3>1 DEF HartIsTrue, Programs
    <3>4. Reads(h)' /\ HasDriver(h)'
      BY <2>1, <3>1 DEF HartIsTrue, Reads, HasDriver
    <3> QED
      BY <2>1, <3>2, <3>3, <3>4 DEF HartIsTrue
  <2>4. \A h \in board.harts' : HartIsTrue(h)'
    BY <2>1, <2>3
  <2> QED
    BY <2>2, <2>4 DEF TimerInv
<1> QED
  BY <1>2, <1>3, <1>4, <1>5 DEF TimerNext

\* On every board, with any number of harts and domains and halves of any
\* width: software reads no time there was not, and is never interrupted before
\* the deadline it asked for itself (aclint_mtimer_now(), timer_process(),
\* timer_smode_restore()).
THEOREM TimeStaysTrue == TimerSpec => []TimeIsTrue
<1>1. TimerInit => TimerInv
  BY InitTimerInv
<1>2. TimerInv /\ [TimerNext]_timerVars => TimerInv'
  BY NextTimerInv
<1>3. TimerInv => TimeIsTrue
  BY InvMeansTrue
<1> QED
  BY <1>1, <1>2, <1>3, PTL DEF TimerSpec
===============================================================================
