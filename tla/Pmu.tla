----------------------------------- MODULE Pmu -----------------------------------
(***************************************************************************)
(* The performance monitoring unit of one hart                             *)
(* (arch/riscv/runtime/pmu.c, services/sbi/pmu.c): hardware and firmware   *)
(* counters handed out to S-mode, saved and restored when the hart changes *)
(* domain, and the overflow interrupt, S-mode's or the SSE event's.        *)
(*                                                                         *)
(* Counter 0 stands for the fixed ones (mcycle, minstret), those below     *)
(* FwFirst for the programmable, the others for firmware counters.  A      *)
(* value is two digits below HalfMod, the halves an RV32 hart reads one at *)
(* a time.  A call that is refused changes nothing and is not a step.      *)
(***************************************************************************)
EXTENDS Naturals, FiniteSets, SequencesExt

CONSTANTS PDomain, PBoot,     \* the domains, and the one the hart boots into
          HwCounters,         \* hw_counters: those below FwFirst that exist
          FwFirst, NrCounters, Xlen,   \* PMU_FW_FIRST, PMU_COUNTERS, __RISCV_XLEN__
          TreeRanges,         \* the device tree's: <<first event, last event, counters>>
          MaxEventRanges,     \* MAX_EVENT_RANGES
          DefaultRanges,      \* the fixed counters' events, without a device tree's
          FwEvents,           \* event indices of firmware events
          Features,           \* sets of "SSCOFPMF", "SMCNTRPMF" a hart may have
          HalfMod,            \* 2^32
          StartValues,        \* values S-mode starts a counter from
          MaxTicks, MaxCalls, \* bounds: events counted, steps of S-mode
          Workloads           \* bound: sets of operations S-mode uses together

\* add_range(), pmu_parse_fdt(), pmu_init(): the ranges the monitor goes by
AddRange(rs, r) == IF Len(rs) = MaxEventRanges \/ r[1] > r[2] THEN rs ELSE Append(rs, r)
ParseFdt == FoldLeft(AddRange, <<>>, TreeRanges)
EventRanges == IF ParseFdt = <<>> THEN DefaultRanges ELSE ParseFdt

PEvent == FwEvents \cup UNION {r[1] .. r[2] : r \in {EventRanges[i] : i \in DOMAIN EventRanges}}
FwCounters == FwFirst .. NrCounters - 1
ValueMod == HalfMod * HalfMod

ASSUME PmuAssumption ==
  /\ PBoot \in PDomain /\ 0 \in HwCounters /\ HwCounters \subseteq 0 .. FwFirst - 1
  /\ {FwFirst, NrCounters, Xlen, MaxEventRanges, MaxTicks, MaxCalls} \subseteq Nat
  /\ HalfMod \in Nat \ {0} /\ MaxTicks < ValueMod - HalfMod + 1

VARIABLES pfeat,      \* hart_has()
          pcur,       \* the domain whose state the hart has
          between,    \* after switch_out and before switch_in?
          hwc,        \* the CSRs: [HwCounters -> [value, event, minh, of, inhibit]]
          irq,        \* LCOFI: [ie, deleg, pend] in mie, mideleg, mip
          pmu,        \* pmu_harts, one per domain; hw is <<>> until it is saved
          snap,       \* snapshot shared memory: [PDomain -> [values, overflow]]
          rd,         \* a counter read in halves
          owncount,   \* [PDomain -> [HwCounters -> what the domain should read]]
          psie,       \* [PDomain -> does S-mode want the overflow interrupt?]
          inhandler,  \* [PDomain -> is the SSE handler running?]
          pdue,       \* [PDomain -> is an overflow still to be taken?]
          ticks, calls, workload

pmuVars == <<pfeat, pcur, between, hwc, irq, pmu, snap, rd, owncount, psie, inhandler,
             pdue, ticks, calls, workload>>

(* The CSRs, by counter number; an RV32 hart has each in two halves *)

\* mcounter_read(), mcounterh_read(), mcounter_write(), mcounterh_write()
McounterRead(c, n) == c[n].value % HalfMod
McounterhRead(c, n) == c[n].value \div HalfMod
McounterWrite(c, n, lo) == [c EXCEPT ![n].value = HalfMod * (@ \div HalfMod) + lo]
McounterhWrite(c, n, hi) == [c EXCEPT ![n].value = HalfMod * hi + (@ % HalfMod)]

\* mhpmevent_read(), mhpmeventh_read(), mhpmevent_write(), mhpmeventh_write(): what is
\* counted in the lower half, the filter and OF in the upper one, with Sscofpmf
MhpmeventRead(c, n) == c[n].event
MhpmeventhRead(c, n) == [minh |-> c[n].minh, of |-> c[n].of]
MhpmeventWrite(c, n, event) == [c EXCEPT ![n].event = event]
MhpmeventhWrite(c, n, up) == [c EXCEPT ![n].minh = up.minh, ![n].of = up.of]

\* hw_counter_write()
CounterWrite(c, n, v) == McounterhWrite(McounterWrite(c, n, v % HalfMod), n, v \div HalfMod)

\* fixed_cfg_write(): of the fixed counters, the filter alone
FixedCfgWrite(c, n, minh) == [c EXCEPT ![n].minh = minh]

\* hw_event_read(), hw_event_write(): what an extension the hart lacks would have is
\* not there
EventRead(c, n) == [event |-> MhpmeventRead(c, n), up |-> MhpmeventhRead(c, n)]
EventWrite(c, n, val) ==
  CASE n = 0 /\ "SMCNTRPMF" \in pfeat -> FixedCfgWrite(c, n, val.up.minh)
    [] n = 0 /\ "SMCNTRPMF" \notin pfeat -> c
    [] n # 0 /\ "SSCOFPMF" \in pfeat -> MhpmeventhWrite(MhpmeventWrite(c, n, val.event), n, val.up)
    [] n # 0 /\ "SSCOFPMF" \notin pfeat -> MhpmeventWrite(c, n, val.event)
EventVal(event, minh, of) == [event |-> event, up |-> [minh |-> minh, of |-> of]]

\* pmu_hart_init(): all counters released, the fixed ones running
HwInit(c) ==
  [n \in HwCounters |->
     EventWrite([c EXCEPT ![n].inhibit = n # 0], n, EventVal(0, n = 0, FALSE))[n]]
NoEvents == [n \in 0 .. NrCounters - 1 |-> 0]
FreshPmu(p) ==
  [p EXCEPT !.event = NoEvents, !.fw_started = {}, !.snapshot = FALSE, !.sse = FALSE]
Reset0 == [n \in HwCounters |->
             [value |-> 0, event |-> 0, minh |-> FALSE, of |-> FALSE, inhibit |-> TRUE]]
NoIrq == [ie |-> FALSE, deleg |-> TRUE, pend |-> FALSE]

PmuInit ==
  /\ pfeat \in Features
  /\ pcur = PBoot /\ between = FALSE
  /\ hwc = HwInit(Reset0) /\ irq = NoIrq
  /\ pmu = [d \in PDomain |->
             [event |-> NoEvents, fw_started |-> {}, fw_value |-> [n \in FwCounters |-> 0],
              snapshot |-> FALSE, sse |-> FALSE, sse_saved_ie |-> FALSE, hw |-> <<>>]]
  /\ snap = [d \in PDomain |-> [values |-> [i \in 0 .. Xlen - 1 |-> 0], overflow |-> {}]]
  /\ rd = [pc |-> "idle"]
  /\ owncount = [d \in PDomain |-> [n \in HwCounters |-> 0]]
  /\ psie = [d \in PDomain |-> FALSE] /\ inhandler = [d \in PDomain |-> FALSE]
  /\ pdue = [d \in PDomain |-> FALSE]
  /\ ticks = 0 /\ calls = 0 /\ workload \in Workloads

\* S-mode of the current domain runs, and makes a call.
Call(op) ==
  /\ ~between /\ rd.pc = "idle" /\ op \in workload
  /\ calls < MaxCalls /\ calls' = calls + 1 /\ UNCHANGED workload
Mine == pmu[pcur]
-------------------------------------------------------------------------------
(* Counting, and the counter read in halves *)

\* One more of what counter n counts, in S-mode or, where it cannot be told not to
\* count it, in the monitor.
CountsOne(n) ==
  LET c == hwc[n]
      wraps == c.value = ValueMod - 1
      fires == wraps /\ n # 0 /\ "SSCOFPMF" \in pfeat /\ ~c.of
  IN  /\ ticks < MaxTicks /\ ticks' = ticks + 1
      /\ ~c.inhibit
      /\ hwc' = [hwc EXCEPT ![n].value = (@ + 1) % ValueMod, ![n].of = @ \/ fires]
      /\ irq' = [irq EXCEPT !.pend = @ \/ fires]
      /\ owncount' = [owncount EXCEPT ![pcur][n] = (@ + 1) % ValueMod]
      /\ pdue' = [pdue EXCEPT ![pcur] = @ \/ fires]
      /\ UNCHANGED <<pfeat, pcur, between, pmu, snap, psie, inhandler, calls, workload>>

SmodeCounts(n) == rd.pc = "idle" /\ ~between /\ CountsOne(n) /\ UNCHANGED rd
MonitorCounts(n) ==
  /\ ~hwc[n].minh /\ CountsOne(n)
  /\ rd' = IF rd.pc = "idle" THEN rd
           ELSE [rd EXCEPT !.seen = @ \cup {(hwc[rd.n].value + (IF rd.n = n THEN 1 ELSE 0)) % ValueMod}]

\* pmu_hw_counter_get() for an emulated rdcycle or rdinstret: hw_counter_read() on RV32
HwCounterGet(n) ==
  /\ Call("read") /\ rd' = [pc |-> "hi", n |-> n, hi |-> 0, lo |-> 0, seen |-> {hwc[n].value}]
  /\ UNCHANGED <<pfeat, pcur, between, hwc, irq, pmu, snap, owncount, psie, inhandler, pdue, ticks>>
ReadHigh ==
  /\ rd.pc = "hi" /\ rd' = [rd EXCEPT !.pc = "lo", !.hi = McounterhRead(hwc, rd.n)]
  /\ UNCHANGED <<pfeat, pcur, between, hwc, irq, pmu, snap, owncount, psie, inhandler, pdue, ticks, calls, workload>>
ReadLow ==
  /\ rd.pc = "lo" /\ rd' = [rd EXCEPT !.pc = "again", !.lo = McounterRead(hwc, rd.n)]
  /\ UNCHANGED <<pfeat, pcur, between, hwc, irq, pmu, snap, owncount, psie, inhandler, pdue, ticks, calls, workload>>

ReadAgain ==
  /\ rd.pc = "again"
  /\ rd' = [rd EXCEPT !.pc = IF rd.hi = McounterhRead(hwc, rd.n) THEN "done" ELSE "hi"]
  /\ UNCHANGED <<pfeat, pcur, between, hwc, irq, pmu, snap, owncount, psie, inhandler, pdue, ticks, calls, workload>>
ReadDone ==
  /\ rd.pc = "done" /\ rd' = [pc |-> "idle"]
  /\ UNCHANGED <<pfeat, pcur, between, hwc, irq, pmu, snap, owncount, psie, inhandler, pdue, ticks, calls, workload>>
-------------------------------------------------------------------------------
(* SBI PMU *)

\* counter_exists(), counter_set_ok(): base + i must not wrap around
CounterExists(n) == n < NrCounters /\ (n >= FwFirst \/ n \in HwCounters)
CounterSetOk(base, mask) ==
  mask # {} /\ \A i \in mask : base + i < 2 ^ Xlen /\ CounterExists(base + i)

\* hw_event_lookup(): the counters of the first range the event is in
HwEventLookup(event) ==
  LET in == {i \in DOMAIN EventRanges : EventRanges[i][1] <= event /\ event <= EventRanges[i][2]}
  IN  IF in = {} THEN {} ELSE EventRanges[CHOOSE i \in in : \A j \in in : i <= j][3]
Candidates(event) ==
  IF event \in FwEvents THEN FwCounters ELSE HwEventLookup(event) \cap HwCounters

\* counter_start_one(): with Sscofpmf, overflow is armed again
StartHw(c, n) ==
  LET val == EventRead(c, n)
      armed == IF n # 0 /\ "SSCOFPMF" \in pfeat THEN EventWrite(c, n, [val EXCEPT !.up.of = FALSE]) ELSE c
  IN  [armed EXCEPT ![n].inhibit = FALSE]
Started(p, n) == IF n \in FwCounters THEN [p EXCEPT !.fw_started = @ \cup {n}] ELSE p

\* pmu_counter_config()
CounterConfig(base, mask, flags, event) ==
  LET chosen == IF "SKIP_MATCH" \in flags
                  THEN {base + i : i \in {j \in mask : \A k \in mask : j <= k}}
                  ELSE {n \in {base + i : i \in mask} : Mine.event[n] = 0 /\ n \in Candidates(event)}
  IN  \E n \in chosen :
        LET fw == event \in FwEvents
            old == IF n \in HwCounters THEN hwc[n].value ELSE 0
            v == IF "CLEAR_VALUE" \in flags THEN 0 ELSE old
            p == [Mine EXCEPT !.event[n] = event,
                              !.fw_value = IF fw /\ "CLEAR_VALUE" \in flags THEN [@ EXCEPT ![n] = 0] ELSE @]
            stopped == CounterWrite(EventWrite([hwc EXCEPT ![n].inhibit = TRUE],
                                               n, EventVal(event, TRUE, TRUE)), n, v)
        IN  /\ Call("config") /\ CounterSetOk(base, mask) /\ Candidates(event) # {}
            /\ \A m \in chosen : n <= m
            /\ "SKIP_MATCH" \in flags => Mine.event[n] # 0 /\ fw = (n \in FwCounters)
            /\ pmu' = [pmu EXCEPT ![pcur] = IF "AUTO_START" \in flags THEN Started(p, n) ELSE p]
            /\ hwc' = IF fw THEN hwc ELSE IF "AUTO_START" \in flags THEN StartHw(stopped, n) ELSE stopped
            /\ owncount' = IF fw THEN owncount ELSE [owncount EXCEPT ![pcur][n] = v]
            /\ UNCHANGED <<pfeat, pcur, between, irq, snap, rd, psie, inhandler, pdue, ticks>>

\* pmu_counter_start(): those that are configured and not running, from the given
\* value or the snapshot's
CounterStart(base, mask, from, value) ==
  LET todo == {i \in mask : Mine.event[base + i] # 0 /\
                 (IF base + i \in FwCounters THEN base + i \notin Mine.fw_started
                                             ELSE hwc[base + i].inhibit)}
      Init(i, old) == CASE from = "keep" -> old
                        [] from = "snapshot" -> snap[pcur].values[i]
                        [] from = "value" -> value
      hwtodo == {n \in HwCounters : n - base \in todo /\ n >= base}
      fwtodo == {n \in FwCounters : n - base \in todo}
  IN  /\ Call("start") /\ CounterSetOk(base, mask)
      /\ from = "snapshot" => Mine.snapshot
      /\ hwc' = [n \in HwCounters |->
                   IF n \in hwtodo THEN StartHw(CounterWrite(hwc, n, Init(n - base, hwc[n].value)), n)[n]
                   ELSE hwc[n]]
      /\ owncount' = [owncount EXCEPT ![pcur] = [n \in HwCounters |->
                   IF n \in hwtodo THEN Init(n - base, @[n]) ELSE @[n]]]
      /\ pmu' = [pmu EXCEPT ![pcur].fw_started = @ \cup fwtodo,
                            ![pcur].fw_value = [n \in FwCounters |->
                               IF n \in fwtodo THEN Init(n - base, @[n]) ELSE @[n]]]
      /\ UNCHANGED <<pfeat, pcur, between, irq, snap, rd, psie, inhandler, pdue, ticks>>

\* pmu_counter_stop(): the values and the overflows into the snapshot; free again
\* with RESET, and then the fixed counters run
CounterStop(base, mask, flags) ==
  LET named == {base + i : i \in mask}
      reset == "RESET" \in flags
      Stopped(n) == [hwc EXCEPT ![n].inhibit = ~(reset /\ n = 0)]
  IN  /\ Call("stop") /\ CounterSetOk(base, mask)
      /\ "SNAPSHOT" \in flags => Mine.snapshot
      /\ hwc' = [n \in HwCounters |->
                   IF n \notin named THEN hwc[n]
                   ELSE IF reset THEN EventWrite(Stopped(n), n, EventVal(0, FALSE, FALSE))[n]
                   ELSE Stopped(n)[n]]
      /\ pmu' = [pmu EXCEPT ![pcur].fw_started = @ \ named,
                            ![pcur].event = [n \in DOMAIN @ |-> IF reset /\ n \in named THEN 0 ELSE @[n]]]
      /\ snap' = IF "SNAPSHOT" \notin flags THEN snap
                 ELSE [snap EXCEPT ![pcur] =
                   [values |-> [i \in 0 .. Xlen - 1 |->
                      IF i \notin mask THEN @.values[i]
                      ELSE IF base + i \in HwCounters THEN hwc[base + i].value
                      ELSE Mine.fw_value[base + i]],
                    overflow |-> {i \in mask : base + i \in HwCounters /\ hwc[base + i].of}]]
      /\ UNCHANGED <<pfeat, pcur, between, irq, rd, owncount, psie, inhandler, pdue, ticks>>

\* pmu_snapshot_set_shmem()
SnapshotSetShmem(on) ==
  /\ Call("snapshot") /\ pmu' = [pmu EXCEPT ![pcur].snapshot = on]
  /\ UNCHANGED <<pfeat, pcur, between, hwc, irq, snap, rd, owncount, psie, inhandler, pdue, ticks>>

\* pmu_fw_event(): something the monitor did for S-mode
FwEvent(event) ==
  /\ Call("fw")
  /\ pmu' = [pmu EXCEPT ![pcur].fw_value = [n \in FwCounters |->
       IF n \in Mine.fw_started /\ Mine.event[n] = event THEN (@[n] + 1) % ValueMod ELSE @[n]]]
  /\ UNCHANGED <<pfeat, pcur, between, hwc, irq, snap, rd, owncount, psie, inhandler, pdue, ticks>>
-------------------------------------------------------------------------------
(* The overflow interrupt *)

\* S-mode sets its own enable bit; it has one while the interrupt is delegated.
SmodeEnables(on) ==
  /\ Call("irq") /\ irq.deleg /\ "SSCOFPMF" \in pfeat
  /\ irq' = [irq EXCEPT !.ie = on] /\ psie' = [psie EXCEPT ![pcur] = on]
  /\ UNCHANGED <<pfeat, pcur, between, hwc, pmu, snap, rd, owncount, inhandler, pdue, ticks>>
SmodeTakes ==
  /\ Call("irq") /\ irq.deleg /\ irq.ie /\ irq.pend
  /\ irq' = [irq EXCEPT !.pend = FALSE] /\ pdue' = [pdue EXCEPT ![pcur] = FALSE]
  /\ UNCHANGED <<pfeat, pcur, between, hwc, pmu, snap, rd, owncount, psie, inhandler, ticks>>

\* pmu_sse_enable(), as the event's state changes; S-mode's bit is kept meanwhile
SseEnable(on) ==
  /\ Call("sse") /\ "SSCOFPMF" \in pfeat /\ ~inhandler[pcur] /\ on # Mine.sse
  /\ pmu' = [pmu EXCEPT ![pcur].sse = on, ![pcur].sse_saved_ie = IF on THEN irq.ie ELSE @]
  /\ irq' = [irq EXCEPT !.deleg = ~on, !.ie = on \/ Mine.sse_saved_ie]
  /\ UNCHANGED <<pfeat, pcur, between, hwc, snap, rd, owncount, psie, inhandler, pdue, ticks>>

\* pmu_sse_overflow_irq(): quiet until the handler has completed
SseOverflow ==
  /\ ~between /\ rd.pc = "idle"
  /\ Mine.sse /\ ~irq.deleg /\ irq.ie /\ irq.pend
  /\ irq' = [irq EXCEPT !.ie = FALSE, !.pend = FALSE]
  /\ inhandler' = [inhandler EXCEPT ![pcur] = TRUE] /\ pdue' = [pdue EXCEPT ![pcur] = FALSE]
  /\ UNCHANGED <<pfeat, pcur, between, hwc, pmu, snap, rd, owncount, psie, ticks, calls, workload>>

\* pmu_sse_complete(); a ONESHOT event is disabled before (event_source_update())
SseComplete(oneshot) ==
  /\ Call("sse") /\ inhandler[pcur]
  /\ inhandler' = [inhandler EXCEPT ![pcur] = FALSE]
  /\ pmu' = [pmu EXCEPT ![pcur].sse = ~oneshot]
  /\ irq' = [irq EXCEPT !.deleg = oneshot, !.ie = IF oneshot THEN Mine.sse_saved_ie ELSE TRUE]
  /\ UNCHANGED <<pfeat, pcur, between, hwc, snap, rd, owncount, psie, pdue, ticks>>
-------------------------------------------------------------------------------
(* Changing domain *)

\* A bug to tell apart: an overflow that is pending is not kept for the domain.
PmuSwitchOutQuiet ==
  /\ Call("switch") /\ between' = TRUE
  /\ pmu' = [pmu EXCEPT ![pcur].hw = [csrs |-> hwc, irq |-> [irq EXCEPT !.pend = FALSE]]]
  /\ irq' = [irq EXCEPT !.ie = FALSE]
  /\ hwc' = [n \in HwCounters |-> [hwc[n] EXCEPT !.inhibit = TRUE]]
  /\ UNCHANGED <<pfeat, pcur, snap, rd, owncount, psie, inhandler, pdue, ticks>>

\* pmu_hart_switch_out()
PmuSwitchOut ==
  /\ Call("switch") /\ between' = TRUE
  /\ pmu' = [pmu EXCEPT ![pcur].hw = [csrs |-> hwc, irq |-> irq]]
  /\ irq' = [irq EXCEPT !.ie = FALSE]
  /\ hwc' = [n \in HwCounters |-> [hwc[n] EXCEPT !.inhibit = TRUE]]
  /\ UNCHANGED <<pfeat, pcur, snap, rd, owncount, psie, inhandler, pdue, ticks>>

\* pmu_hart_switch_in(fresh): a fresh context starts from pmu_hart_init() with every
\* counter at zero, another from what was saved
PmuSwitchIn(d, fresh) ==
  /\ between /\ between' = FALSE /\ pcur' = d
  /\ fresh \/ pmu[d].hw # <<>>
  /\ hwc' = IF fresh THEN HwInit(Reset0) ELSE pmu[d].hw.csrs
  /\ irq' = IF fresh THEN NoIrq ELSE pmu[d].hw.irq
  /\ pmu' = IF fresh THEN [pmu EXCEPT ![d] = FreshPmu(@)] ELSE pmu
  /\ IF fresh
       THEN /\ owncount' = [owncount EXCEPT ![d] = [n \in HwCounters |-> 0]]
            /\ psie' = [psie EXCEPT ![d] = FALSE] /\ inhandler' = [inhandler EXCEPT ![d] = FALSE]
            /\ pdue' = [pdue EXCEPT ![d] = FALSE]
       ELSE UNCHANGED <<owncount, psie, inhandler, pdue>>
  /\ UNCHANGED <<pfeat, snap, rd, ticks, calls, workload>>

\* hart_runtime_init() and hart_enter_smode(), as the hart is stopped and started
\* again: S-mode's enables are gone, what is pending is not
PmuRestart ==
  /\ Call("restart")
  /\ hwc' = HwInit(hwc)
  /\ pmu' = [pmu EXCEPT ![pcur] = FreshPmu(@)]
  /\ irq' = [NoIrq EXCEPT !.pend = irq.pend]
  /\ psie' = [psie EXCEPT ![pcur] = FALSE] /\ inhandler' = [inhandler EXCEPT ![pcur] = FALSE]
  /\ UNCHANGED <<pfeat, pcur, between, snap, rd, owncount, pdue, ticks>>

PmuNext ==
  \/ \E n \in HwCounters : SmodeCounts(n) \/ MonitorCounts(n) \/ HwCounterGet(n)
  \/ ReadHigh \/ ReadLow \/ ReadAgain \/ ReadDone
  \/ \E base \in {0, FwFirst - 1} : \E mask \in {{0}, {1}, {0, 1}} :
       \/ \E event \in PEvent : \E flags \in {{}, {"SKIP_MATCH", "CLEAR_VALUE", "AUTO_START"}} :
            CounterConfig(base, mask, flags, event)
       \/ \E from \in {"keep", "snapshot", "value"} : \E value \in StartValues :
            CounterStart(base, mask, from, value)
       \/ \E flags \in SUBSET {"RESET", "SNAPSHOT"} : CounterStop(base, mask, flags)
  \/ \E on \in BOOLEAN : SnapshotSetShmem(on) \/ SmodeEnables(on) \/ SseEnable(on) \/ SseComplete(on)
  \/ \E event \in FwEvents : FwEvent(event)
  \/ SmodeTakes \/ SseOverflow \/ PmuSwitchOut \/ PmuRestart
  \/ \E d \in PDomain : \E fresh \in BOOLEAN : PmuSwitchIn(d, fresh)

PmuSpec == PmuInit /\ [][PmuNext]_pmuVars
-------------------------------------------------------------------------------
(* Properties *)

\* What a domain has of the hardware, on the hart or saved
HwOf(d) == IF d = pcur /\ ~between THEN [csrs |-> hwc, irq |-> irq] ELSE pmu[d].hw

\* The overflow interrupt is delegated exactly when the SSE event is not armed;
\* it is enabled when the event is armed and its handler is not running, and as
\* S-mode last said otherwise; an overflow stays pending for its domain until it
\* is taken, across changes of domain and of owner (pmu_sse_enable(),
\* pmu_sse_overflow_irq(), pmu_sse_complete(), the two switches).
OverflowHasItsOwner ==
  \A d \in PDomain : HwOf(d) # <<>> =>
    LET i == HwOf(d).irq
    IN  /\ i.deleg = ~pmu[d].sse
        /\ i.ie = IF pmu[d].sse THEN ~inhandler[d] ELSE psie[d]
        /\ pdue[d] => i.pend

\* Where it can be told not to, a fixed counter does not count the monitor's own
\* time (pmu_hart_init(), inhibit_bits()).
MonitorNotCounted == "SMCNTRPMF" \in pfeat => hwc[0].minh

\* A domain's counters hold what happened while it ran, from the value it gave
\* them, and nothing of another domain, whatever the hart runs in between
\* (pmu_hart_switch_out(), pmu_hart_switch_in()).
CountsItsOwn ==
  \A d \in PDomain : HwOf(d) # <<>> => \A n \in HwCounters : HwOf(d).csrs[n].value = owncount[d][n]

\* A counter read in halves is a value the counter had during the read
\* (hw_counter_read() on RV32).
ReadIsTrue == rd.pc = "done" => rd.hi * HalfMod + rd.lo \in rd.seen

\* Performance monitoring keeps the domains of a hart apart and reads what was counted.
CountersAreTheDomains == CountsItsOwn /\ OverflowHasItsOwner /\ ReadIsTrue
================================================================================
