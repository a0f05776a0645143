--------------------------------- MODULE Timer ---------------------------------
(***************************************************************************)
(* The timer a domain's S-mode software sees on a hart: drivers/timer,     *)
(* with the switches of domain_context.c and the stops of hsm.c that move  *)
(* the deadline, and the time CSR of a hart that lacks it.                 *)
(*                                                                         *)
(* A 64-bit value is two halves of Base values each, and the device's      *)
(* registers are accessed by halves, with the clock going on in between.   *)
(* stimecmp (Sstc) is a CSR of the hart: what it holds while M-mode writes *)
(* its halves is seen by nobody, interrupts being off.                     *)
(***************************************************************************)
EXTENDS Naturals, Sequences, FiniteSets

CONSTANTS Base,        \* the values of a half
          TimerDomains,     \* the domains that share the harts
          Boot,        \* the one the harts start in
          Boards,      \* what the device tree and the hart may look like
          Asks         \* the deadlines S-mode asks for

ASSUME TimerAssumption ==
  /\ Base \in Nat \ {0, 1}
  /\ Boot \in TimerDomains
  /\ Asks \subseteq 0 .. Base * Base - 2
  /\ \A b \in Boards :
       /\ b.nodes \in Seq([reg : BOOLEAN, irqs : Seq(Nat \X BOOLEAN)])
       /\ b.harts \subseteq Nat /\ b.first \in Nat
       /\ b.fallback \in BOOLEAN /\ b.sstc \in BOOLEAN

Never == Base * Base - 1      \* ~ULL(0)
LastTick == Never - 1              \* the clock stops here
Hi(t) == t \div Base
Lo(t) == t % Base
Word(hi, lo) == hi * Base + lo
NoPosition == Base * Base

VARIABLES board,       \* [nodes, fallback, first, harts, sstc], and
                       \* the calls its harts make
          mtime,       \* the device's counter
          mtimecmp,    \* [position -> the device's register]
          position,    \* mtimecmp_of
          registered,  \* timer # NULL
          mie,         \* [hart -> BOOLEAN]: mie.MTIP
          stip,        \* [hart -> BOOLEAN]: mip.STIP, without Sstc
          stimecmp,    \* [hart -> value]
          deadline,    \* [hart -> value]
          saved,       \* [hart -> [domain -> value]]: the contexts' timer
          domain,      \* [hart -> domain]
          at,          \* [hart -> where it is]
          when,        \* [hart -> the value it is writing]
          hi, lo,      \* [hart -> halves it has read]
          began,       \* [hart -> when it began to read the clock]
          asked,       \* [hart -> [domain -> what it asked for last]]
          calls        \* [hart -> the calls it has made]

timerVars == <<board, mtime, mtimecmp, position, registered, mie, stip,
               stimecmp, deadline, saved, domain, at, when, hi, lo, began,
               asked, calls>>
device == <<mtime, mtimecmp>>
fixed == <<board, position, registered>>
reads == <<hi, lo, began>>

-----------------------------------------------------------------------------
(* aclint_mtimer_probe() of the nodes, in order; a node is a record of     *)
(* whether its "reg" can be read and the <<hart, machine timer?>> pairs of *)
(* its "interrupts-extended".                                              *)

\* The entries of the machine timer, and how many come before an entry
TimerIrqs(irqs) == {k \in DOMAIN irqs : irqs[k][2]}
PositionAt(irqs, k) == Cardinality({j \in TimerIrqs(irqs) : j < k})

\* fdt_hart_positions(): the last one listed for a hart counts
HartPositions(irqs, harts) ==
  [h \in harts |->
     LET Mine == {k \in TimerIrqs(irqs) : irqs[k][1] = h}
     IN  IF Mine = {} THEN NoPosition
         ELSE PositionAt(irqs, CHOOSE k \in Mine : \A j \in Mine : j <= k)]

NodeUsable(n, harts) ==
  /\ n.reg
  /\ \E h \in harts : HartPositions(n.irqs, harts)[h] # NoPosition

\* Without a node: registers in hart id order, from the first hart's on
FallbackPositions(b) ==
  [h \in b.harts |-> IF h >= b.first THEN h - b.first ELSE NoPosition]

FirstOf(S) == CHOOSE k \in S : \A j \in S : k <= j

UsableNodes(b) == {k \in 1 .. Len(b.nodes) : NodeUsable(b.nodes[k], b.harts)}

\* The first usable node; the Kconfig geometry only when no node matched
TimerProbe(b) ==
  IF b.nodes = <<>> /\ b.fallback THEN FallbackPositions(b)
  ELSE IF UsableNodes(b) # {}
       THEN HartPositions(b.nodes[FirstOf(UsableNodes(b))].irqs, b.harts)
       ELSE [h \in b.harts |-> NoPosition]

HasDevice(b) == (b.nodes = <<>> /\ b.fallback) \/ UsableNodes(b) # {}

-----------------------------------------------------------------------------
H == DOMAIN at
HasRegister(h) == position[h] # NoPosition

TimerInit ==
  /\ board \in Boards
  /\ position = TimerProbe(board)
  /\ registered = HasDevice(board)
  /\ mtime = 0
  /\ mtimecmp = [p \in 0 .. Base * Base - 1 |-> Never]
  /\ mie = [h \in board.harts |-> FALSE]
  /\ stip = [h \in board.harts |-> FALSE]
  /\ stimecmp = [h \in board.harts |-> Never]
  /\ deadline = [h \in board.harts |-> Never]
  /\ saved = [h \in board.harts |-> [d \in TimerDomains |-> Never]]
  /\ domain = [h \in board.harts |-> Boot]
  /\ at = [h \in board.harts |-> "smode"]
  /\ when = [h \in board.harts |-> 0]
  /\ hi = [h \in board.harts |-> 0]
  /\ lo = [h \in board.harts |-> 0]
  /\ began = [h \in board.harts |-> 0]
  /\ asked = [h \in board.harts |-> [d \in TimerDomains |-> Never]]
  /\ calls = [h \in board.harts |-> 0]

Tick ==
  /\ mtime < LastTick
  /\ mtime' = mtime + 1
  /\ UNCHANGED <<fixed, mtimecmp, mie, stip, stimecmp, deadline, saved, domain,
                 at, when, reads, asked, calls>>

\* The device: the hart whose interrupt a register raises, as the tree has it
WiredTo(p, b) ==
  IF b.nodes = <<>> THEN p + b.first
  ELSE LET irqs == b.nodes[FirstOf(UsableNodes(b))].irqs
           There == {k \in TimerIrqs(irqs) : PositionAt(irqs, k) = p}
       IN  IF There = {} THEN NoPosition ELSE irqs[CHOOSE k \in There : TRUE][1]

Mtip(h) ==
  /\ registered
  /\ \E p \in DOMAIN mtimecmp : mtime >= mtimecmp[p] /\ WiredTo(p, board) = h

Stip(h) == IF board.sstc THEN mtime >= stimecmp[h] ELSE stip[h]

Calls(h) ==
  /\ at[h] = "smode"
  /\ calls[h] < board.calls[h]
  /\ calls' = [calls EXCEPT ![h] = @ + 1]

\* timer_smode_restore(), as far as the device: a deadline that is new retires
\* the pending interrupt of the previous one
SmodeRestore(h, t) ==
  IF board.sstc
  THEN /\ stimecmp' = [stimecmp EXCEPT ![h] = t]
       /\ UNCHANGED <<stip, deadline, when, at>>
  ELSE IF ~registered THEN UNCHANGED <<stimecmp, stip, deadline, when, at>>
  ELSE /\ deadline' = [deadline EXCEPT ![h] = t]
       /\ stip' = [stip EXCEPT ![h] = FALSE]
       /\ when' = [when EXCEPT ![h] = t]
       /\ at' = [at EXCEPT ![h] = "set_event"]
       /\ UNCHANGED stimecmp

\* The TIME extension's call, and the legacy one
SetTimer(h, t) ==
  /\ Calls(h)
  /\ board.sstc \/ registered
  /\ asked' = [asked EXCEPT ![h][domain[h]] = t]
  /\ SmodeRestore(h, t)
  /\ UNCHANGED <<fixed, device, mie, saved, domain, reads>>

\* aclint_mtimer_set_event(), a write of a half each; no register: nothing
SetEvent(h) ==
  /\ at[h] \in {"set_event", "stop_event"}
  /\ IF HasRegister(h)
     THEN /\ mtimecmp' = [mtimecmp EXCEPT ![position[h]] =
                            Word(Hi(@), Base - 1)]
          /\ at' = [at EXCEPT ![h] = IF @ = "set_event" THEN "set_hi"
                                     ELSE "stop_hi"]
     ELSE /\ at' = [at EXCEPT ![h] = IF @ = "set_event" THEN "set_mie"
                                     ELSE "smode"]
          /\ UNCHANGED mtimecmp
  /\ UNCHANGED <<fixed, mtime, mie, stip, stimecmp, deadline, saved, domain,
                 when, reads, asked, calls>>

SetEventHi(h) ==
  /\ at[h] \in {"set_hi", "stop_hi"}
  /\ mtimecmp' = [mtimecmp EXCEPT ![position[h]] = Word(Hi(when[h]), Lo(@))]
  /\ at' = [at EXCEPT ![h] = IF @ = "set_hi" THEN "set_lo" ELSE "stop_lo"]
  /\ UNCHANGED <<fixed, mtime, mie, stip, stimecmp, deadline, saved, domain,
                 when, reads, asked, calls>>

SetEventLo(h) ==
  /\ at[h] \in {"set_lo", "stop_lo"}
  /\ mtimecmp' = [mtimecmp EXCEPT ![position[h]] = Word(Hi(@), Lo(when[h]))]
  /\ at' = [at EXCEPT ![h] = IF @ = "set_lo" THEN "set_mie" ELSE "smode"]
  /\ UNCHANGED <<fixed, mtime, mie, stip, stimecmp, deadline, saved, domain,
                 when, reads, asked, calls>>

\* A bug to tell apart: the interrupt that was masked stays masked
SetMieNot(h) ==
  /\ at[h] = "set_mie"
  /\ at' = [at EXCEPT ![h] = "smode"]
  /\ UNCHANGED <<fixed, device, mie, stip, stimecmp, deadline, saved, domain,
                 when, reads, asked, calls>>

\* The last line of timer_smode_restore(), and back to S-mode
SetMie(h) ==
  /\ at[h] = "set_mie"
  /\ mie' = [mie EXCEPT ![h] = TRUE]
  /\ at' = [at EXCEPT ![h] = "smode"]
  /\ UNCHANGED <<fixed, device, stip, stimecmp, deadline, saved, domain, when,
                 reads, asked, calls>>

\* timer_process(), from a trap or from the wait of a suspended hart: MTIP
\* stays asserted until there is a new deadline, so it is masked
TimerProcess(h) ==
  /\ at[h] = "smode"
  /\ Mtip(h) /\ mie[h]
  /\ mie' = [mie EXCEPT ![h] = FALSE]
  /\ stip' = [stip EXCEPT ![h] = TRUE]
  /\ UNCHANGED <<fixed, device, stimecmp, deadline, saved, domain, at, when,
                 reads, asked, calls>>

\* timer_smode_get()
SmodeGet(h) == IF board.sstc THEN stimecmp[h] ELSE deadline[h]

\* A domain switch: the deadline is saved with one context, and the other's is
\* restored; one that has never run has none
SwitchDomain(h, d) ==
  /\ Calls(h)
  /\ d # domain[h]
  /\ saved' = [saved EXCEPT ![h][domain[h]] = SmodeGet(h)]
  /\ domain' = [domain EXCEPT ![h] = d]
  /\ SmodeRestore(h, saved[h][d])
  /\ UNCHANGED <<fixed, device, mie, reads, asked>>

\* A stop, and a start of the hart by its domain: timer_hart_init() twice, with
\* hart_runtime_init()'s clearing of mip and envcfg_init()'s stimecmp
Restart(h) ==
  /\ Calls(h)
  /\ asked' = [asked EXCEPT ![h][domain[h]] = Never]
  /\ deadline' = [deadline EXCEPT ![h] = Never]
  /\ mie' = [mie EXCEPT ![h] = FALSE]
  /\ stip' = [stip EXCEPT ![h] = FALSE]
  /\ stimecmp' = [stimecmp EXCEPT ![h] = IF board.sstc THEN Never ELSE @]
  /\ IF registered
     THEN /\ when' = [when EXCEPT ![h] = Never]
          /\ at' = [at EXCEPT ![h] = "stop_event"]
     ELSE UNCHANGED <<when, at>>
  /\ UNCHANGED <<fixed, device, saved, domain, reads>>

-----------------------------------------------------------------------------
(* timer_now() for S-mode's read of the time CSR: by halves, until the     *)
(* high one is the same before and after.                                  *)

ReadTime(h) ==
  /\ Calls(h)
  /\ registered
  /\ began' = [began EXCEPT ![h] = mtime]
  /\ hi' = [hi EXCEPT ![h] = Hi(mtime)]
  /\ at' = [at EXCEPT ![h] = "now_lo"]
  /\ UNCHANGED <<fixed, device, mie, stip, stimecmp, deadline, saved, domain,
                 when, lo, asked>>

NowLo(h) ==
  /\ at[h] = "now_lo"
  /\ lo' = [lo EXCEPT ![h] = Lo(mtime)]
  /\ at' = [at EXCEPT ![h] = "now_check"]
  /\ UNCHANGED <<fixed, device, mie, stip, stimecmp, deadline, saved, domain,
                 when, hi, began, asked, calls>>

\* A bug to tell apart: no third read
NowCheckNot(h) ==
  /\ at[h] = "now_check"
  /\ at' = [at EXCEPT ![h] = "now_done"]
  /\ UNCHANGED <<fixed, device, mie, stip, stimecmp, deadline, saved, domain,
                 when, reads, asked, calls>>

\* The third read; it is not used as the first of the next try
NowCheck(h) ==
  /\ at[h] = "now_check"
  /\ at' = [at EXCEPT ![h] = IF Hi(mtime) = hi[h] THEN "now_done" ELSE "now_hi"]
  /\ UNCHANGED <<fixed, device, mie, stip, stimecmp, deadline, saved, domain,
                 when, reads, asked, calls>>

NowAgain(h) ==
  /\ at[h] = "now_hi"
  /\ hi' = [hi EXCEPT ![h] = Hi(mtime)]
  /\ at' = [at EXCEPT ![h] = "now_lo"]
  /\ UNCHANGED <<fixed, device, mie, stip, stimecmp, deadline, saved, domain,
                 when, lo, began, asked, calls>>

NowReturns(h) ==
  /\ at[h] = "now_done"
  /\ at' = [at EXCEPT ![h] = "smode"]
  /\ UNCHANGED <<fixed, device, mie, stip, stimecmp, deadline, saved, domain,
                 when, reads, asked, calls>>

-----------------------------------------------------------------------------
MonitorStep(h) ==
  \/ SetEvent(h) \/ SetEventHi(h) \/ SetEventLo(h) \/ SetMie(h)
  \/ TimerProcess(h)
  \/ NowLo(h) \/ NowCheck(h) \/ NowAgain(h) \/ NowReturns(h)

SmodeCall(h) ==
  \/ \E t \in Asks : SetTimer(h, t)
  \/ \E d \in TimerDomains : SwitchDomain(h, d)
  \/ Restart(h)
  \/ ReadTime(h)

TimerNext == Tick \/ (\E h \in H : MonitorStep(h) \/ SmodeCall(h))

\* The clock runs, and a hart does not stop in M-mode; a pending interrupt is
\* taken.  S-mode need not call.
TimerSpec ==
  /\ TimerInit /\ [][TimerNext]_timerVars
  /\ WF_timerVars(Tick)
  /\ \A h \in 0 .. 1 : WF_timerVars(h \in H /\ MonitorStep(h))

-----------------------------------------------------------------------------
\* Software never finds a timer interrupt pending before the deadline it asked
\* for itself: not one of another domain of the hart, of the hart's earlier
\* life, or of a deadline it has replaced (timer.c's and domain_context.c's
\* restore).
NoEarlyTimer ==
  \A h \in H : at[h] = "smode" /\ Stip(h) => mtime >= asked[h][domain[h]]

\* A time read is one the clock had while it was read, however often the low
\* half wrapped meanwhile (aclint_mtimer_now()).
NowIsTrue ==
  \A h \in H : at[h] = "now_done" =>
    /\ Word(hi[h], lo[h]) >= began[h]
    /\ Word(hi[h], lo[h]) <= mtime

\* Software sees the clock as it is: it reads no time there was not, and is not
\* interrupted before its time.
TimeIsTrue == NoEarlyTimer /\ NowIsTrue

\* A deadline that has passed interrupts the software that asked for it, one
\* that passed while the hart was another domain's included, unless the
\* software changes its mind; a hart that has neither stimecmp nor a register
\* of the device has no timer (timer_process(), "fires again at once").
TimerFires ==
  \A h \in 0 .. 1 : \A d \in TimerDomains :
    (h \in H /\ (board.sstc \/ HasRegister(h)) /\ domain[h] = d
       /\ mtime >= asked[h][d])
      ~> (h \in H /\ (Stip(h) \/ domain[h] # d \/ mtime < asked[h][d]))
=============================================================================
