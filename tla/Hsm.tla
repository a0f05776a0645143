---------------------------------- MODULE Hsm ----------------------------------
(***************************************************************************)
(* Hart state management, arch/riscv/runtime/hsm.c, with what it needs of  *)
(* the boot path (images/monitor/main.c, hart_init()) and of the platform  *)
(* that may power harts (struct hsm_ops, drivers/hsm/rpmi_hsm.c).          *)
(*                                                                         *)
(* One domain has all the harts; DomainContext models the moves between    *)
(* domains.  pc says what a hart is about to do: each label is one access  *)
(* to shared state, as M-mode code runs with interrupts off and harts meet *)
(* only at atomic operations, the start lock and the IPI device.  An IPI   *)
(* is posted, and taken, in one step: Ipi shows why that is enough.        *)
(***************************************************************************)
EXTENDS Naturals

CONSTANTS N,             \* harts of the hart table, indexes 0 .. N - 1
          Arg,           \* what a start may be asked with: (entry, argument)
          NoArg,         \* before the first start
          PlatformPower  \* is an hsm_ops registered?

ASSUME HartAssumption == N \in Nat \ {0}
ASSUME PlatformAssumption == PlatformPower \in BOOLEAN

Hart == 0 .. N - 1
BootHart == 0   \* boot_harts_init() puts it first

VARIABLES hsm_state,    \* [Hart -> the SBI HSM states]
          present,      \* [Hart -> BOOLEAN]: hart_init() has run once
          start,        \* [Hart -> Arg]: start_addr, start_arg, start_mode
          pc,           \* what the hart is about to do
          target,       \* [Hart -> Hart]: of a start or an IPI under way
          kind,         \* [Hart -> the suspend asked for]
          scan,         \* [Hart -> Nat]: the index hsm_system_suspend() is at
          msip,         \* [Hart -> BOOLEAN]: the IPI device's interrupt
          ipi_pending,  \* [Hart -> SUBSET {"SMODE", "RFENCE"}]
          ssip,         \* [Hart -> BOOLEAN]: mip.SSIP
          told          \* [Hart -> BOOLEAN]: the platform may power it down in WFI

hsmVars == <<hsm_state, present, start, pc, target, kind, scan, msip,
             ipi_pending, ssip, told>>
ipiVars == <<msip, ipi_pending, ssip>>
callVars == <<target, kind, scan>>

State == {"STOPPED", "START_PENDING", "STARTED", "STOP_PENDING",
          "SUSPEND_PENDING", "SUSPENDED", "RESUME_PENDING"}

\* RET, NON_RET: the default types. *_PLATFORM: the platform's. SYSTEM:
\* hsm_system_suspend()'s last step, which the platform is not told of.
Kind == {"RET", "NON_RET", "RET_PLATFORM", "NON_RET_PLATFORM", "SYSTEM"}

Retentive(k) == k \in {"RET", "RET_PLATFORM"}
OfPlatform(k) == k \in {"RET_PLATFORM", "NON_RET_PLATFORM"}

Label == {"off", "main", "entry", "wait", "wait_store", "loop_init", "loop",
          "wfi", "reset", "enter", "started", "smode", "start_call",
          "start_kick", "start_fail", "stop_call", "scan",
          "suspend_call", "suspend_store", "sleep", "resume", "ipi_send"}

Init ==
  \* The hart table is zeroed, and 0 is SBI_HSM_STATE_STARTED.
  /\ hsm_state = [h \in Hart |-> IF h = BootHart THEN "STOPPED" ELSE "STARTED"]
  /\ present = [h \in Hart |-> h = BootHart]
  /\ start = [h \in Hart |-> NoArg]
  /\ pc = [h \in Hart |-> IF h = BootHart THEN "main" ELSE "entry"]
  /\ target = [h \in Hart |-> h]
  /\ kind = [h \in Hart |-> "RET"]
  /\ scan = [h \in Hart |-> 0]
  /\ msip = [h \in Hart |-> FALSE]
  /\ ipi_pending = [h \in Hart |-> {}]
  /\ ssip = [h \in Hart |-> FALSE]
  /\ told = [h \in Hart |-> FALSE]

\* The same, once the boot hart is in S-mode and the others wait to be started.
InitBooted ==
  /\ hsm_state = [h \in Hart |-> IF h = BootHart THEN "STARTED" ELSE "STOPPED"]
  /\ present = [h \in Hart |-> TRUE]
  /\ start = [h \in Hart |-> NoArg]
  /\ pc = [h \in Hart |-> IF h = BootHart THEN "smode" ELSE "wfi"]
  /\ target = [h \in Hart |-> h]
  /\ kind = [h \in Hart |-> "RET"]
  /\ scan = [h \in Hart |-> 0]
  /\ msip = [h \in Hart |-> FALSE]
  /\ ipi_pending = [h \in Hart |-> {}]
  /\ ssip = [h \in Hart |-> FALSE]
  /\ told = [h \in Hart |-> FALSE]

Goto(h, from, to) == pc[h] = from /\ pc' = [pc EXCEPT ![h] = to]
SetState(h, s) == hsm_state' = [hsm_state EXCEPT ![h] = s]
-------------------------------------------------------------------------------
(* The IPI core, as far as these functions use it. *)

\* ipi_send(): the event and the interrupt.
IpiSend(t, e) ==
  /\ ipi_pending' = [ipi_pending EXCEPT ![t] = @ \cup {e}]
  /\ msip' = [msip EXCEPT ![t] = TRUE]

\* ipi_process(): whatever was posted; remote fences are Rfence's.
IpiProcess(h) ==
  /\ msip' = [msip EXCEPT ![h] = FALSE]
  /\ ipi_pending' = [ipi_pending EXCEPT ![h] = {}]
  /\ ssip' = [ssip EXCEPT ![h] = @ \/ "SMODE" \in ipi_pending[h]]

\* ipi_hart_init(): the slate is clean.
IpiHartInit(h) ==
  /\ msip' = [msip EXCEPT ![h] = FALSE]
  /\ ipi_pending' = [ipi_pending EXCEPT ![h] = {}]

\* The M-mode software interrupt while S-mode runs.
TrapIpi(h) ==
  /\ pc[h] = "smode" /\ msip[h]
  /\ IpiProcess(h)
  /\ UNCHANGED <<hsm_state, present, start, pc, callVars, told>>

\* S-mode handles its software interrupt.
SmodeAck(h) ==
  /\ pc[h] = "smode" /\ ssip[h]
  /\ ssip' = [ssip EXCEPT ![h] = FALSE]
  /\ UNCHANGED <<hsm_state, present, start, pc, callVars, msip, ipi_pending, told>>

\* hsm_interruptible_mask(): the harts an IPI or a fence may be for.
Interruptible(t) == present[t] /\ hsm_state[t] \in {"STARTED", "SUSPENDED"}

\* sbi_ipi_ecall(): the mask is read first, the IPI sent after.
SmodeSendIpi(h, t) ==
  /\ Interruptible(t)
  /\ Goto(h, "smode", "ipi_send")
  /\ target' = [target EXCEPT ![h] = t]
  /\ UNCHANGED <<hsm_state, present, start, kind, scan, ipiVars, told>>

SmodeIpiSent(h) ==
  /\ Goto(h, "ipi_send", "smode")
  /\ IpiSend(target[h], "SMODE")
  /\ target' = [target EXCEPT ![h] = h]
  /\ UNCHANGED <<hsm_state, present, start, kind, scan, ssip, told>>
-------------------------------------------------------------------------------
(* Boot, and the way back through the monitor's entry. *)

\* image_secondary_main(): a hart's first instructions in C, at boot and
\* whenever the platform has brought it back.
HartInit(h) ==
  /\ Goto(h, "entry", "wait")
  /\ present' = [present EXCEPT ![h] = TRUE]
  /\ hsm_state' = [hsm_state EXCEPT ![h] = IF present[h] THEN @ ELSE "STOPPED"]
  /\ told' = [told EXCEPT ![h] = FALSE]
  /\ kind' = [kind EXCEPT ![h] = "RET"]
  /\ UNCHANGED <<start, target, scan, ipiVars>>

\* image_main() from wait_for_secondaries() to hsm_boot_hart_start().
BootHartStart(h, a) ==
  /\ \A i \in Hart : present[i]
  /\ Goto(h, "main", "enter")
  /\ start' = [start EXCEPT ![h] = a]
  /\ SetState(h, "START_PENDING")
  /\ UNCHANGED <<present, callVars, ipiVars, told>>

\* hsm_hart_wait(): stopped, unless it was suspended and lost its state.
HartWait(h) ==
  /\ pc[h] = "wait"
  /\ pc' = [pc EXCEPT ![h] =
              IF hsm_state[h] = "SUSPENDED" THEN "reset" ELSE "wait_store"]
  /\ UNCHANGED <<hsm_state, present, start, callVars, ipiVars, told>>

HartWaitStore(h) ==
  /\ Goto(h, "wait_store", "loop_init")
  /\ SetState(h, "STOPPED")
  /\ UNCHANGED <<present, start, callVars, ipiVars, told>>

\* A bug to tell apart: the loop waits before it looks.
WaitLoopInitThenWait(h) ==
  /\ Goto(h, "loop_init", "wfi")
  /\ IpiHartInit(h)
  /\ UNCHANGED <<hsm_state, present, start, callVars, ssip, told>>

\* hsm_wait_loop(), up to the loop.
WaitLoopInit(h) ==
  /\ Goto(h, "loop_init", "loop")
  /\ IpiHartInit(h)
  /\ UNCHANGED <<hsm_state, present, start, callVars, ssip, told>>

WaitLoopCheck(h) ==
  /\ pc[h] = "loop"
  /\ pc' = [pc EXCEPT ![h] =
              IF hsm_state[h] = "START_PENDING" THEN "enter" ELSE "wfi"]
  /\ UNCHANGED <<hsm_state, present, start, callVars, ipiVars, told>>

\* WFI returns for an IPI, the only interrupt enabled.
WaitLoopWake(h) ==
  /\ msip[h]
  /\ Goto(h, "wfi", "loop")
  /\ IpiProcess(h)
  /\ UNCHANGED <<hsm_state, present, start, callVars, told>>

\* hsm_resume_from_reset()
ResumeFromReset(h) ==
  /\ Goto(h, "reset", "enter")
  /\ SetState(h, "RESUME_PENDING")
  /\ UNCHANGED <<present, start, callVars, ipiVars, told>>

\* hsm_hart_enter(false), its hart_runtime_init().
HartRuntimeInit(h) ==
  /\ Goto(h, "enter", "started")
  /\ IpiHartInit(h)
  /\ ssip' = [ssip EXCEPT ![h] = FALSE]
  /\ UNCHANGED <<hsm_state, present, start, callVars, told>>

\* The rest of hsm_hart_enter(): S-mode runs, at start[h].
HartEnterSmode(h) ==
  /\ Goto(h, "started", "smode")
  /\ SetState(h, "STARTED")
  /\ UNCHANGED <<present, start, callVars, ipiVars, told>>
-------------------------------------------------------------------------------
(* sbi_hart_start() *)

\* A bug to tell apart: the state is not looked at.
HartStartUnchecked(h, t, a) ==
  /\ present[t]
  /\ Goto(h, "smode", IF PlatformPower THEN "start_call" ELSE "start_kick")
  /\ start' = [start EXCEPT ![t] = a]
  /\ SetState(t, "START_PENDING")
  /\ target' = [target EXCEPT ![h] = t]
  /\ UNCHANGED <<present, kind, scan, ipiVars, told>>

\* hsm_hart_boot(), under hsm_start_lock.  Any other state than STOPPED is an
\* error code and nothing else.
HartStart(h, t, a) ==
  /\ present[t]
  /\ hsm_state[t] = "STOPPED"
  /\ Goto(h, "smode", IF PlatformPower THEN "start_call" ELSE "start_kick")
  /\ start' = [start EXCEPT ![t] = a]
  /\ SetState(t, "START_PENDING")
  /\ target' = [target EXCEPT ![h] = t]
  /\ UNCHANGED <<present, kind, scan, ipiVars, told>>

\* hsm_ops->hart_start(): the platform releases a hart it holds.
PlatformStart(h) ==
  /\ pc[h] = "start_call"
  /\ LET t == target[h] IN
       /\ pc' = [pc EXCEPT ![h] = "start_kick",
                           ![t] = IF pc[t] = "off" THEN "entry" ELSE @]
       /\ told' = [told EXCEPT ![t] = FALSE]
  /\ UNCHANGED <<hsm_state, present, start, callVars, ipiVars>>

\* ... or says that it cannot.
PlatformStartFails(h) ==
  /\ Goto(h, "start_call", "start_fail")
  /\ UNCHANGED <<hsm_state, present, start, callVars, ipiVars, told>>

HartStartKick(h) ==
  /\ Goto(h, "start_kick", "smode")
  /\ msip' = [msip EXCEPT ![target[h]] = TRUE]
  /\ target' = [target EXCEPT ![h] = h]
  /\ UNCHANGED <<hsm_state, present, start, kind, scan, ipi_pending, ssip, told>>

\* The compare-and-swap back to STOPPED.
HartStartFail(h) ==
  /\ Goto(h, "start_fail", "smode")
  /\ hsm_state' = [hsm_state EXCEPT ![target[h]] =
                     IF @ = "START_PENDING" THEN "STOPPED" ELSE @]
  /\ target' = [target EXCEPT ![h] = h]
  /\ UNCHANGED <<present, start, kind, scan, ipiVars, told>>
-------------------------------------------------------------------------------
(* sbi_hart_stop() *)

HartStop(h) ==
  /\ hsm_state[h] = "STARTED"
  /\ Goto(h, "smode", "stop_call")
  /\ SetState(h, "STOP_PENDING")
  /\ UNCHANGED <<present, start, callVars, ipiVars, told>>

\* hsm_hart_stopped(): the platform is told, then the hart waits.
HartStopped(h) ==
  /\ Goto(h, "stop_call", "wait")
  /\ told' = [told EXCEPT ![h] = PlatformPower]
  /\ UNCHANGED <<hsm_state, present, start, callVars, ipiVars>>

\* A platform call waits for its answer, and serves IPIs meanwhile.
PlatformCallPoll(h) ==
  /\ PlatformPower
  /\ pc[h] \in {"start_call", "stop_call", "suspend_call"}
  /\ msip[h]
  /\ IpiProcess(h)
  /\ UNCHANGED <<hsm_state, present, start, pc, callVars, told>>
-------------------------------------------------------------------------------
(* sbi_hart_suspend() and sbi_system_suspend() *)

\* hart_suspend() up to its compare-and-swap; a type the platform alone could
\* know needs a platform.
HartSuspend(h, k) ==
  /\ OfPlatform(k) => PlatformPower
  /\ hsm_state[h] = "STARTED"
  /\ Goto(h, "smode", "suspend_call")
  /\ SetState(h, "SUSPEND_PENDING")
  /\ kind' = [kind EXCEPT ![h] = k]
  /\ UNCHANGED <<present, start, target, scan, ipiVars, told>>

\* hsm_system_suspend(): the other harts are looked at one by one.
SystemSuspend(h) ==
  /\ Goto(h, "smode", "scan")
  /\ scan' = [scan EXCEPT ![h] = 0]
  /\ UNCHANGED <<hsm_state, present, start, target, kind, ipiVars, told>>

SystemSuspendScan(h) ==
  /\ pc[h] = "scan" /\ scan[h] < N
  /\ LET i == scan[h] IN
       IF i = h \/ ~present[i] \/ hsm_state[i] = "STOPPED"
         THEN scan' = [scan EXCEPT ![h] = i + 1] /\ UNCHANGED pc
         ELSE /\ pc' = [pc EXCEPT ![h] = "smode"]   \* SBI_ERR_DENIED
              /\ scan' = [scan EXCEPT ![h] = 0]
  /\ UNCHANGED <<hsm_state, present, start, target, kind, ipiVars, told>>

\* suspend_prepare() has no objection: the same as a suspend of its own.
SystemSuspendLast(h) ==
  /\ scan[h] = N
  /\ hsm_state[h] = "STARTED"
  /\ Goto(h, "scan", "suspend_call")
  /\ scan' = [scan EXCEPT ![h] = 0]
  /\ SetState(h, "SUSPEND_PENDING")
  /\ kind' = [kind EXCEPT ![h] = "SYSTEM"]
  /\ UNCHANGED <<present, start, target, ipiVars, told>>

\* suspend_prepare() or the compare-and-swap of hart_suspend() fails.
SystemSuspendRefused(h) ==
  /\ scan[h] = N
  /\ Goto(h, "scan", "smode")
  /\ scan' = [scan EXCEPT ![h] = 0]
  /\ UNCHANGED <<hsm_state, present, start, target, kind, ipiVars, told>>

\* The platform's part: it may take the hart down, later, when asked to.  A
\* non-retentive suspend leaves where to resume for a start to find.
HartSuspendCall(h, agreed, a) ==
  /\ agreed => PlatformPower /\ kind[h] # "SYSTEM"
  /\ ~agreed => ~OfPlatform(kind[h])
  /\ Goto(h, "suspend_call", "suspend_store")
  /\ told' = [told EXCEPT ![h] = agreed]
  /\ start' = [start EXCEPT ![h] = IF Retentive(kind[h]) THEN @ ELSE a]
  /\ UNCHANGED <<hsm_state, present, callVars, ipiVars>>

HartSuspendRefused(h) ==
  /\ OfPlatform(kind[h])
  /\ Goto(h, "suspend_call", "smode")
  /\ SetState(h, "STARTED")
  /\ kind' = [kind EXCEPT ![h] = "RET"]
  /\ UNCHANGED <<present, start, target, scan, ipiVars, told>>

\* SUSPENDED, here or at the start of hsm_resume_loop().
HartSuspended(h) ==
  /\ Goto(h, "suspend_store", "sleep")
  /\ SetState(h, "SUSPENDED")
  /\ UNCHANGED <<present, start, callVars, ipiVars, told>>

\* A bug to tell apart: the events taken asleep are thrown away.
SleepIpiDropped(h) ==
  /\ pc[h] = "sleep" /\ msip[h]
  /\ IpiHartInit(h)
  /\ UNCHANGED <<hsm_state, present, start, pc, callVars, ssip, told>>

\* hsm_wait_for_wakeup(): an IPI is served without waking up ...
SleepIpi(h) ==
  /\ pc[h] = "sleep" /\ msip[h]
  /\ IpiProcess(h)
  /\ UNCHANGED <<hsm_state, present, start, pc, callVars, told>>

\* ... unless that, or anything else (a timer, an external interrupt, an
\* event), gives S-mode work.
SleepWake(h) ==
  /\ Goto(h, "sleep", "resume")
  /\ UNCHANGED <<hsm_state, present, start, callVars, ipiVars, told>>

\* A bug to tell apart: STARTED at once.
HartResumeAtOnce(h) ==
  /\ Goto(h, "resume", "started")
  /\ SetState(h, "STARTED")
  /\ told' = [told EXCEPT ![h] = FALSE]
  /\ kind' = [kind EXCEPT ![h] = "RET"]
  /\ UNCHANGED <<present, start, target, scan, ipiVars>>

\* RESUME_PENDING; then STARTED where it was, or hsm_hart_enter(true).
HartResume(h) ==
  /\ Goto(h, "resume", "started")
  /\ SetState(h, "RESUME_PENDING")
  /\ told' = [told EXCEPT ![h] = FALSE]
  /\ kind' = [kind EXCEPT ![h] = "RET"]
  /\ UNCHANGED <<present, start, target, scan, ipiVars>>

\* The platform takes down a hart it was told about, once it is in WFI, and
\* brings a suspended one back for an interrupt, through the monitor's entry.
PowerDown(h) ==
  /\ told[h] /\ ~msip[h]
  /\ pc[h] = "wfi" \/ (pc[h] = "sleep" /\ ~Retentive(kind[h]) /\ ~ssip[h])
  /\ pc' = [pc EXCEPT ![h] = "off"]
  /\ UNCHANGED <<hsm_state, present, start, callVars, ipiVars, told>>

PowerWake(h) ==
  /\ hsm_state[h] = "SUSPENDED"
  /\ Goto(h, "off", "entry")
  /\ UNCHANGED <<hsm_state, present, start, callVars, ipiVars, told>>
-------------------------------------------------------------------------------
\* Steps that call ipi_process().
IpiStep(h) ==
  TrapIpi(h) \/ WaitLoopWake(h) \/ SleepIpi(h) \/ PlatformCallPoll(h)

\* What a hart in the monitor does by itself.
MonitorStep(h) ==
  \/ HartInit(h) \/ (\E a \in Arg : BootHartStart(h, a))
  \/ HartWait(h) \/ HartWaitStore(h) \/ WaitLoopCheck(h)
  \/ ResumeFromReset(h) \/ HartRuntimeInit(h) \/ HartEnterSmode(h)
  \/ PlatformStart(h) \/ PlatformStartFails(h) \/ HartStartKick(h)
  \/ HartStartFail(h) \/ HartStopped(h) \/ SmodeIpiSent(h)
  \/ SystemSuspendScan(h) \/ SystemSuspendLast(h) \/ SystemSuspendRefused(h)
  \/ (\E agreed \in BOOLEAN, a \in Arg : HartSuspendCall(h, agreed, a))
  \/ HartSuspendRefused(h) \/ HartSuspended(h) \/ HartResume(h)

\* What S-mode, the platform or a device may do, or not.
OutsideStep(h) ==
  \/ SmodeAck(h) \/ HartStop(h) \/ SystemSuspend(h) \/ SleepWake(h)
  \/ (\E k \in Kind \ {"SYSTEM"} : HartSuspend(h, k))
  \/ (\E t \in Hart : SmodeSendIpi(h, t) \/ \E a \in Arg : HartStart(h, t, a))
  \/ PowerDown(h) \/ PowerWake(h)

Next ==
  \E h \in Hart : IpiStep(h) \/ WaitLoopInit(h) \/ MonitorStep(h) \/ OutsideStep(h)

(***************************************************************************)
(* A hart in the monitor gets on, takes a raised interrupt, and a          *)
(* suspended one wakes up for an S-mode IPI (enabled in sie) or, when the  *)
(* platform holds it, for any IPI.  S-mode need not do anything.           *)
(***************************************************************************)
Fairness ==
  \A h \in Hart : /\ WF_hsmVars(MonitorStep(h) \/ WaitLoopInit(h))
                  /\ WF_hsmVars(IpiStep(h))
                  /\ WF_hsmVars(ssip[h] /\ SleepWake(h))
                  /\ WF_hsmVars(msip[h] /\ PowerWake(h))

Spec == Init /\ [][Next]_hsmVars

BootedSpec == InitBooted /\ [][Next]_hsmVars

FairSpec == Spec /\ Fairness

FairBootedSpec == BootedSpec /\ Fairness
-------------------------------------------------------------------------------
TypeOK ==
  /\ hsm_state \in [Hart -> State]
  /\ present \in [Hart -> BOOLEAN]
  /\ start \in [Hart -> Arg \cup {NoArg}]
  /\ pc \in [Hart -> Label]
  /\ target \in [Hart -> Hart]
  /\ kind \in [Hart -> Kind]
  /\ scan \in [Hart -> 0 .. N]
  /\ msip \in [Hart -> BOOLEAN]
  /\ ipi_pending \in [Hart -> SUBSET {"SMODE", "RFENCE"}]
  /\ ssip \in [Hart -> BOOLEAN]
  /\ told \in [Hart -> BOOLEAN]

(***************************************************************************)
(* The states a hart goes through are those of the SBI HSM extension, in   *)
(* its order, and no transient one lasts (HartLifecycle).  A hart that is  *)
(* not in the table yet does not count: its zeroed hsm_state says STARTED. *)
(***************************************************************************)
Lifecycle == INSTANCE HartLifecycle WITH
  state <- [h \in Hart |-> IF present[h] THEN hsm_state[h] ELSE "STOPPED"]

ImplementsLifecycle == Lifecycle!LifecycleSpec

(***************************************************************************)
(* Its safety part alone: "States and error codes are the SBI HSM ones"    *)
(* (include/arch/hsm.h).  No hart goes from one state to another that the  *)
(* extension does not lead to.                                             *)
(***************************************************************************)
LifecycleMoves == Lifecycle!LifecycleSafety

(***************************************************************************)
(* A start that was accepted happens: hsm_hart_boot() has made the hart    *)
(* START_PENDING and goes on to the kick and SBI_SUCCESS, and the hart     *)
(* reaches S-mode.  No kick is lost against the wait loop's ipi_process(), *)
(* which clears the interrupt before the loop looks at the state again.    *)
(***************************************************************************)
Accepted(t) ==
  /\ present[t] /\ hsm_state[t] = "START_PENDING"
  /\ \E h \in Hart : pc[h] = "start_kick" /\ target[h] = t

StartHappens == \A t \in Hart : Accepted(t) ~> pc[t] = "smode"

(***************************************************************************)
(* "The target reads the arguments once it sees START_PENDING": from then  *)
(* until it is in S-mode nobody changes them, however many harts start it. *)
(***************************************************************************)
StartArgsStable ==
  [][\A h \in Hart :
       /\ present[h] /\ present'[h]
       /\ hsm_state[h] \in {"START_PENDING", "RESUME_PENDING", "SUSPENDED"}
       /\ hsm_state'[h] # "STOPPED"
       => start'[h] = start[h]]_hsmVars

(***************************************************************************)
(* hsm_state does not lie: a hart in S-mode is STARTED, one in the wait    *)
(* loop is STOPPED or about to leave it, one asleep is SUSPENDED.  That is *)
(* what hart_get_status(), the IPI mask and the stop and suspend calls go  *)
(* by.                                                                     *)
(***************************************************************************)
StateMatchesHart ==
  \A h \in Hart :
    /\ pc[h] = "smode" => hsm_state[h] = "STARTED"
    /\ pc[h] \in {"loop_init", "loop", "wfi"} => hsm_state[h] \in {"STOPPED", "START_PENDING"}
    /\ pc[h] \in {"enter", "started"} => hsm_state[h] \in {"START_PENDING", "RESUME_PENDING"}
    /\ pc[h] \in {"sleep", "resume", "reset"} => hsm_state[h] = "SUSPENDED"

(***************************************************************************)
(* A suspended hart with an S-mode IPI on its way wakes up, as long as it  *)
(* was seen as SUSPENDED or STARTED when the IPI was sent.                 *)
(***************************************************************************)
SuspendedHartWakes ==
  \A h \in Hart :
    hsm_state[h] = "SUSPENDED" /\ "SMODE" \in ipi_pending[h] ~> hsm_state[h] = "STARTED"

(***************************************************************************)
(* "Non-retentive suspend of the calling hart as the last one running":    *)
(* every other hart is stopped when a system suspend takes effect.         *)
(***************************************************************************)
SystemSuspendAlone ==
  \A h \in Hart : pc[h] = "suspend_call" /\ kind[h] = "SYSTEM" =>
    \A i \in Hart \ {h} : hsm_state[i] \in {"STOPPED", "STOP_PENDING"}
================================================================================
