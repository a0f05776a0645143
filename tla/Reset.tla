---------------------------------- MODULE Reset ----------------------------------
(***************************************************************************)
(* System reset: the drivers that register a backend while the device tree *)
(* is probed (drivers/reset/*.c, drivers/gpio/*.c), the list they are kept *)
(* in (drivers/reset/reset.c) and the SRST call (services/sbi/srst.c) that *)
(* takes the system down with it: the PuC that answers or not when it is   *)
(* asked what it does, and IPI_EVENT_HALT, which goes to one hart after    *)
(* the other while they stop, start and take their IPIs (hsm.c, ipi.c).    *)
(* That the interrupt follows the event is Ipi.tla's subject.              *)
(***************************************************************************)
EXTENDS Naturals, Sequences

CONSTANTS RHart,           \* the harts of the hart table, by index
          MaxNodes,        \* bound: reset nodes in the device tree
          MaxBackends,     \* MAX_BACKENDS
          RpmiTypes,       \* the types the PuC says it does, once it is asked
          MayReset         \* the harts whose domain may reset the system

ASSUME ResetAssumption ==
  RHart \subseteq Nat /\ MaxNodes \in Nat /\ MaxBackends \in Nat /\ MayReset \subseteq RHart

VARIABLES stage,      \* what drivers_init() is at
          probed,     \* how many nodes it has come to
          seen,       \* the nodes the drivers have found: their statics
          backends,   \* names, best first
          support,    \* [ResetKind -> what rpmi_reset.c remembers of the PuC]
          rstate,     \* [RHart -> where the hart is]
          rtype,      \* [RHart -> the type it resets with, or "none"]
          asked,      \* [RHart -> the backend whose reset() it called, or "none"]
          unheard,    \* the harts to whom the PuC did not answer in that
          halts,      \* the harts with IPI_EVENT_HALT in ipi_pending
          unposted,   \* [RHart -> the harts its loop has still to halt]
          startPending, \* the harts in START_PENDING
          dropped     \* the harts that threw an IPI_EVENT_HALT away

probeVars == <<stage, probed, seen, backends>>
haltVars == <<halts, unposted, startPending, dropped>>
resetVars == <<probeVars, support, rstate, rtype, asked, unheard, haltVars>>

ResetKind == {"SHUTDOWN", "COLD", "WARM"}
ResetNode == {"gpio", "gpio-poweroff", "gpio-restart", "syscon-poweroff", "syscon-reboot",
              "wdt", "sifive-test", "htif", "rpmi"}
Rating == [b \in {"rpmi", "gpio", "sifive-test", "htif", "syscon", "watchdog"} |->
             CASE b = "rpmi" -> 200
               [] b \in {"gpio", "sifive-test", "htif"} -> 100
               [] OTHER -> 50]

\* The backend of each driver's nodes
BackendOf ==
  [n \in ResetNode \ {"gpio"} |->
     CASE n \in {"gpio-poweroff", "gpio-restart"} -> "gpio"
       [] n \in {"syscon-poweroff", "syscon-reboot"} -> "syscon"
       [] n = "wdt" -> "watchdog"
       [] OTHER -> n]

ResetInit ==
  /\ stage = "EARLY" /\ probed = 0 /\ seen = {} /\ backends = <<>>
  /\ support = [t \in ResetKind |-> "UNKNOWN"]
  /\ rstate = [h \in RHart |-> "boot"]
  /\ rtype = [h \in RHart |-> "none"] /\ asked = [h \in RHart |-> "none"]
  /\ unheard = {} /\ halts = {} /\ startPending = {} /\ dropped = {}
  /\ unposted = [h \in RHart |-> {}]
-------------------------------------------------------------------------------
(* Probing, on the boot hart *)

\* reset_register(): sorted by rating, behind those of the same rating; dropped when
\* the table is full
ResetRegister(b) ==
  IF Len(backends) = MaxBackends THEN UNCHANGED backends
  ELSE \E i \in 0 .. Len(backends) :
         /\ i > 0 => Rating[backends[i]] >= Rating[b]
         /\ \A j \in i + 1 .. Len(backends) : Rating[backends[j]] < Rating[b]
         /\ backends' = SubSeq(backends, 1, i) \o <<b>>
                         \o SubSeq(backends, i + 1, Len(backends))

\* drivers_init() comes to an enabled node of the stage it is at.
ProbeNode(at) ==
  /\ stage = at /\ probed < MaxNodes
  /\ probed' = probed + 1
  /\ UNCHANGED <<stage, support, rstate, rtype, asked, unheard, haltVars>>

\* What the driver remembers of the node, and the backend it registers, if any.
Found(n, b, registers) ==
  /\ seen' = seen \cup {n}
  /\ IF registers THEN ResetRegister(b) ELSE UNCHANGED backends
Ignored == UNCHANGED <<seen, backends>>

\* A controller, which is no reset node itself
SifiveGpioProbe ==
  /\ stage = "EARLY" /\ seen' = seen \cup {"gpio"}
  /\ UNCHANGED <<stage, probed, backends, support, rstate, rtype, asked, unheard, haltVars>>

\* With the controller's chip (gpio_line_from_fdt()); the first of the two registers.
GpioResetProbe(n) ==
  /\ n \in {"gpio-poweroff", "gpio-restart"} /\ ProbeNode("LATE")
  /\ IF n \in seen \/ "gpio" \notin seen THEN Ignored
     ELSE Found(n, "gpio", seen \cap {"gpio-poweroff", "gpio-restart"} = {})

SysconResetProbe(n) ==
  /\ n \in {"syscon-poweroff", "syscon-reboot"} /\ ProbeNode("EARLY")
  /\ IF n \in seen THEN Ignored
     ELSE Found(n, "syscon", seen \cap {"syscon-poweroff", "syscon-reboot"} = {})

WdtResetProbe ==
  /\ ProbeNode("EARLY")
  /\ IF "wdt" \in seen THEN Ignored ELSE Found("wdt", "watchdog", TRUE)

SifiveTestProbe ==
  /\ ProbeNode("EARLY")
  /\ IF "sifive-test" \in seen THEN Ignored ELSE Found("sifive-test", "sifive-test", TRUE)

\* Every node registers, a second one too.
HtifResetProbe == ProbeNode("EARLY") /\ Found("htif", "htif", TRUE)

RpmiResetProbe ==
  /\ ProbeNode("LATE")
  /\ IF "rpmi" \in seen THEN Ignored ELSE Found("rpmi", "rpmi", TRUE)

\* The nodes are walked once for each stage.
NextStage ==
  /\ stage = "EARLY" /\ stage' = "LATE"
  /\ UNCHANGED <<probed, seen, backends, support, rstate, rtype, asked, unheard, haltVars>>

\* The boot harts of the domains enter S-mode, the others go to the wait loop.
BootDone ==
  /\ stage = "LATE" /\ stage' = "done"
  /\ \E first \in SUBSET RHart \ {{}} :
       rstate' = [h \in RHart |-> IF h \in first THEN "smode" ELSE "stopped"]
  /\ UNCHANGED <<probed, seen, backends, support, rtype, asked, unheard, haltVars>>
-------------------------------------------------------------------------------
(* SRST *)

\* the backends' supported()
GpioResetSupported(t) == (IF t = "SHUTDOWN" THEN "gpio-poweroff" ELSE "gpio-restart") \in seen
SysconResetSupported(t) == (IF t = "SHUTDOWN" THEN "syscon-poweroff" ELSE "syscon-reboot") \in seen
WdtResetSupported(t) == t # "SHUTDOWN"
HtifResetSupported(t) == t = "SHUTDOWN"
SifiveTestSupported(t) == t \in ResetKind

\* The backends that keep to what the device tree says of them
FixedSupports(b, t) ==
  \/ b = "gpio" /\ GpioResetSupported(t)
  \/ b = "syscon" /\ SysconResetSupported(t)
  \/ b = "watchdog" /\ WdtResetSupported(t)
  \/ b = "htif" /\ HtifResetSupported(t)
  \/ b = "sifive-test" /\ SifiveTestSupported(t)

\* rpmi_reset_supported(), which is support'[t] = "YES": asked while it is not known;
\* an answer is remembered, silence is not
RpmiResetSupported(t) ==
  \/ UNCHANGED support
  \/ /\ support[t] = "UNKNOWN"
     /\ support' = [support EXCEPT ![t] = IF t \in RpmiTypes THEN "YES" ELSE "NO"]

RpmiRegistered == \E i \in DOMAIN backends : backends[i] = "rpmi"

\* backend_for(): the first that supports the type, or none; the PuC's, which is
\* rated best, is asked first
BackendFor(t, b) ==
  LET Supports(i) == \/ FixedSupports(backends[i], t)
                     \/ backends[i] = "rpmi" /\ support'[t] = "YES"
  IN  /\ IF RpmiRegistered THEN RpmiResetSupported(t) ELSE UNCHANGED support
      /\ \/ /\ b = "none"
            /\ \A i \in DOMAIN backends : ~Supports(i)
         \/ \E i \in DOMAIN backends : /\ b = backends[i] /\ Supports(i)
                                        /\ \A j \in 1 .. i - 1 : ~Supports(j)

Backend == DOMAIN Rating \cup {"none"}

\* reset_supported(), for sbi_srst_probe() or a call that is refused
ResetIsSupported(h, t) ==
  /\ rstate[h] = "smode"
  /\ \E b \in Backend : BackendFor(t, b)
  /\ UNCHANGED <<probeVars, rstate, rtype, asked, unheard, haltVars>>

\* sbi_srst_ecall(): refused when no backend does the type or the system is not the
\* domain's to take down
SbiSrst(h, t) ==
  /\ rstate[h] = "smode" /\ h \in MayReset
  /\ \E b \in Backend \ {"none"} : BackendFor(t, b)
  /\ rstate' = [rstate EXCEPT ![h] = "resetting"]
  /\ rtype' = [rtype EXCEPT ![h] = t]
  /\ UNCHANGED <<probeVars, asked, unheard, haltVars>>

\* system_reset() up to the backend's reset(): the backends are gone through again
SystemReset(h) ==
  /\ rstate[h] = "resetting" /\ asked[h] = "none"
  /\ \E b \in Backend :
       /\ BackendFor(rtype[h], b)
       /\ asked' = [asked EXCEPT ![h] = b]
       /\ rstate' = [rstate EXCEPT ![h] = IF b = "none" THEN "posting" ELSE "resetting"]
       /\ unposted' = [unposted EXCEPT ![h] = IF b = "none" THEN RHart \ {h} ELSE {}]
  /\ unheard' = IF RpmiRegistered /\ support'[rtype[h]] = "UNKNOWN" THEN unheard \cup {h}
                ELSE unheard
  /\ UNCHANGED <<probeVars, rtype, halts, startPending, dropped>>

\* A bug to tell apart: the loop ends at the hart itself.
ResetGraceUpToSelf(h) ==
  /\ rstate[h] = "resetting" /\ asked[h] # "none"
  /\ rstate' = [rstate EXCEPT ![h] = "posting"]
  /\ unposted' = [unposted EXCEPT ![h] = {i \in RHart : i < h}]
  /\ UNCHANGED <<probeVars, support, rtype, asked, unheard, halts, startPending, dropped>>

\* Nothing has happened within RESET_GRACE_US.
ResetGrace(h) ==
  /\ rstate[h] = "resetting" /\ asked[h] # "none"
  /\ rstate' = [rstate EXCEPT ![h] = "posting"]
  /\ unposted' = [unposted EXCEPT ![h] = RHart \ {h}]
  /\ UNCHANGED <<probeVars, support, rtype, asked, unheard, halts, startPending, dropped>>

\* The loop of system_reset(): IPI_EVENT_HALT to the harts in the order of the
\* table, one at a time
PostHalt(h) ==
  /\ rstate[h] = "posting"
  /\ \E i \in unposted[h] :
       /\ \A j \in unposted[h] : i <= j
       /\ halts' = halts \cup {i}
       /\ unposted' = [unposted EXCEPT ![h] = @ \ {i}]
  /\ UNCHANGED <<probeVars, support, rstate, rtype, asked, unheard, startPending, dropped>>

\* hart_halt() after the loop
HaltSelf(h) ==
  /\ rstate[h] = "posting" /\ unposted[h] = {}
  /\ rstate' = [rstate EXCEPT ![h] = "halted"]
  /\ UNCHANGED <<probeVars, support, rtype, asked, unheard, haltVars>>
-------------------------------------------------------------------------------
(* The others: hsm.c, and ipi_process() and ipi_hart_init() of ipi.c *)

\* hsm_hart_wait(): STOPPED is stored, and the wait loop is still to come.
OtherStops(h) ==
  /\ rstate[h] = "smode"
  /\ rstate' = [rstate EXCEPT ![h] = "stopped"]
  /\ UNCHANGED <<probeVars, support, rtype, asked, unheard, haltVars>>

\* hsm_hart_start() of a hart that is STOPPED
OtherStarts(h, i) ==
  /\ rstate[h] = "smode" /\ rstate[i] \in {"stopped", "waiting"}
  /\ startPending' = startPending \cup {i}
  /\ UNCHANGED <<probeVars, support, rstate, rtype, asked, unheard, halts, unposted, dropped>>

\* ipi_hart_init(): whatever is pending is gone.
OtherIpiInit(h) ==
  /\ halts' = halts \ {h}
  /\ dropped' = IF h \in halts THEN dropped \cup {h} ELSE dropped

\* hsm_wait_loop() up to the loop
OtherWaits(h) ==
  /\ rstate[h] = "stopped"
  /\ rstate' = [rstate EXCEPT ![h] = "waiting"]
  /\ OtherIpiInit(h)
  /\ UNCHANGED <<probeVars, support, rtype, asked, unheard, unposted, startPending>>

\* The loop's condition: it was started.
OtherLeaves(h) ==
  /\ rstate[h] = "waiting" /\ h \in startPending
  /\ rstate' = [rstate EXCEPT ![h] = "entering"]
  /\ UNCHANGED <<probeVars, support, rtype, asked, unheard, haltVars>>

\* hsm_hart_enter(): hart_runtime_init(), STARTED
OtherEnters(h) ==
  /\ rstate[h] = "entering"
  /\ rstate' = [rstate EXCEPT ![h] = "smode"]
  /\ startPending' = startPending \ {h}
  /\ OtherIpiInit(h)
  /\ UNCHANGED <<probeVars, support, rtype, asked, unheard, unposted>>

\* ipi_process(), from S-mode or from the wait loop; a hart that resets the system
\* does not get there
HaltIpi(h) ==
  /\ rstate[h] \in {"smode", "waiting"} /\ h \in halts
  /\ rstate' = [rstate EXCEPT ![h] = "halted"]
  /\ halts' = halts \ {h}
  /\ UNCHANGED <<probeVars, support, rtype, asked, unheard, unposted, startPending, dropped>>

ResetNext ==
  \/ SifiveGpioProbe \/ WdtResetProbe \/ SifiveTestProbe \/ HtifResetProbe \/ RpmiResetProbe
  \/ \E n \in ResetNode : GpioResetProbe(n) \/ SysconResetProbe(n)
  \/ NextStage \/ BootDone
  \/ \E h \in RHart : \E t \in ResetKind : ResetIsSupported(h, t) \/ SbiSrst(h, t)
  \/ \E h \in RHart : SystemReset(h) \/ ResetGrace(h) \/ PostHalt(h) \/ HaltSelf(h)
  \/ \E h, i \in RHart : OtherStarts(h, i)
  \/ \E h \in RHart : \/ OtherStops(h) \/ OtherWaits(h) \/ OtherLeaves(h)
                      \/ OtherEnters(h) \/ HaltIpi(h)

ResetSpec == ResetInit /\ [][ResetNext]_resetVars
-------------------------------------------------------------------------------
(* Properties *)

\* The backends that devices with these nodes are
BackendsOf(found) ==
  {BackendOf[n] : n \in found \ {"gpio"}}

\* What the device does, whether or not the monitor knows
Does(b, t) == \/ FixedSupports(b, t)
              \/ b = "rpmi" /\ t \in RpmiTypes

\* A reset that was accepted is asked of a device that does that type, and of no worse
\* one than the best the device tree has for it, whatever the order of the nodes; only
\* a PuC that does not answer is passed over for another, and never one that has
\* answered before (reset_register(), backend_for(), rpmi_reset_supported()).
ResetsWithTheBest ==
  \A h \in RHart :
    rstate[h] \in {"posting", "halted"} /\ rtype[h] # "none" =>
      /\ asked[h] # "none" /\ Does(asked[h], rtype[h])
      /\ \A b \in BackendsOf(seen) :
           Does(b, rtype[h]) => \/ Rating[b] <= Rating[asked[h]]
                                \/ b = "rpmi" /\ h \in unheard

\* The harts whose system_reset() has come to its end
GivenUp(h) == rtype[h] # "none" /\ rstate[h] = "halted"

\* Once a hart has given up waiting for a reset and halted, each of the others is
\* halted, has IPI_EVENT_HALT pending, resets the system itself, or threw the event
\* away when it went to the wait loop or was started: no other way leads past it
\* (system_reset(), ipi_process(), ipi_hart_init()).
NobodyGoesOn ==
  (\E h \in RHart : GivenUp(h)) =>
    \A i \in RHart : rstate[i] = "halted" \/ rtype[i] # "none" \/ i \in halts \cup dropped

\* A reset that is asked for takes the system with it, by the best device there is.
SystemResets == ResetsWithTheBest /\ NobodyGoesOn

\* What reset.h says of system_reset(), "halt the other harts, and halt": none of the
\* others runs software again.  It does not hold, a hart that is being started or
\* stopped drops the event.
OthersHalt ==
  (\E h \in RHart : GivenUp(h)) =>
    \A i \in RHart : rstate[i] = "smode" => i \in halts
================================================================================
