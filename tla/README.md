# Verification of the monitor

The monitor is the M-mode runtime of the RISC-V trusted firmware: it serves the
SBI calls of the software below it (S-mode), on every hart at once, and keeps the
domains that software is divided into apart. This directory holds TLA+ modules
that model it, TLC configurations that check them on small instances, and TLAPS
proofs of what holds for any number of harts, domains, slots and pages.

M-mode code runs with interrupts off. Within a hart it is sequential; harts meet
at atomic operations, spinlock sections, shared memory and devices. A step of a
model is one such access, or one section under a lock. Where a hart is alone, a
step is a whole call.

`PROJECT.json` lists every component with its status, the source lines behind each
definition, and the hazards with the properties that cover them.

## The parts and how they meet

| Part | State | Meets | Hard because |
|------|-------|-------|--------------|
| IPI core and its devices (`drivers/ipi`, `irqchip/imsic.c`) | event bits per hart, the device's interrupt | everything that wakes a hart | the bits and the interrupt are two accesses; a hart that starts over drops both |
| Hart states (`hsm.c`) and platform power | `hsm_state`, start arguments, start lock, which harts are released | IPI core, domains, RPMI | start races with stop, with sleep, with power-up, with a refused start |
| Remote fences (`rfence.c`) | a queue per hart, a count on each requester's stack | IPI core, hart states | harts wait for each other; others write to a stack frame; ranges wrap |
| Domain contexts (`domain_context.c`) | a context per domain and hart, masks, `stopping` | hart states, trap exit, services | readers take no lock; a stop races with starts, moves, suspends |
| Registers, counters, triggers, features (`domain_context.c`, `pmu.c`, `dbtr.c`, `fwft.c`) | CSRs of the hart, a copy per domain | domain contexts | everything has to be saved, restored or cleared by a table |
| Memory protection (`hart.c`, `pmp.c`, `domain.c`) | regions, PMP entries, windows | boot, domain switch | entry order, alignment, a table with a limit |
| Software events (`sse.c`) | events per domain and hart, a flag per hart | trap exit, IPI core, domains, suspend | events move between harts; handlers nest; a flag is read without the lock |
| MPXY and forwarding (`services/mpxy`) | channels, shared memory, a queue of messages on the senders' stacks | domains, RPMI, events | late completions, timeouts, stopped domains, attributes without a lock |
| RPMI client (`drivers/rpmi`) and its users | shared-memory rings, tokens, a doorbell flag | platform power, MPXY, CPPC, reset | ring limits, late acknowledgments, a doorbell under the lock |
| Timers (`drivers/timer`) | the clock in halves, deadlines per hart and domain | traps, domain switch | a 64-bit clock on a 32-bit bus |
| Emulation (`illegal_insn.c`, `misaligned*.c`) | the instruction, memory | traps, S-mode | LR/SC under contention, a fault in the middle of an access |
| Boot (`entry.S`, `boot_harts.c`, `main.c`, `domain.c`) and reset | hart and domain tables, backends | hart states, device tree | harts that come early, late or never |
| Device tree (`lib/libfdt`, `fdt_fixup.c`) | a blob that is edited in place | boot, domains, drivers | offsets move with every edit; room runs out anywhere |

What makes them correct:

* IPI: a posted event is taken, or its hart starts over; the device interrupts the
  hart that is meant.
* Hart states: they follow the SBI state machine and match what the hart does; a
  start that was accepted happens, with its own arguments; a suspended hart wakes.
* Fences: a request returns, and only after every target has fenced every page.
* Domains: a hart is in one domain and runs that domain's context, with that
  domain's registers, counters, triggers, features and memory; the masks agree with
  the contexts; a stop is complete when it returns, and it returns.
* Events: `complete` ends the innermost handler; a deliverable event is not lost.
* Messages: a ring is a queue; an answer is the answer to that very request, goes
  to the one who sent it, and both ends agree on what became of it.
* Time: what S-mode reads is the clock, and a deadline that has passed fires.
* Emulation: an emulated instruction does what the ISA says of it, once.
* Boot: the tables are those of the device tree, and the tree that is handed over
  is the one it came from without what is the monitor's.

## Modules

Concurrent core:

| Module | Models | Notes |
|--------|--------|-------|
| `IpiMailbox` | specification | post and take, with the promise that what is posted is taken |
| `Ipi` | `ipi_send`, `ipi_kick`, `ipi_process`, `ipi_hart_init` | the bits and the device are separate steps; implements `IpiMailbox` |
| `IpiDevices` | ACLINT/CLINT software interrupts, Andes PLICSW, IMSIC | words of `WordBits` bits, MSIs of the monitor, hart indices |
| `HartLifecycle` | specification | the SBI HSM states and their transitions |
| `Hsm` | `hsm.c`, the boot path to the wait loop, `hsm_ops` | a `pc` label per shared access; an IPI is one step here; implements `HartLifecycle` |
| `Rfence` | `rfence.c` on top of `Hsm` | EXTENDS `Hsm`; an entry is its requester; `targets` and `fenced` are history |
| `FenceRange` | range checks and `fence_local` | arithmetic wraps at `MaxAddr + 1` |
| `DomainContext` | `domain_context.c`, with the HSM calls and the trap exit it meets | three locks, unlocked readers; a stop is mark, barrier, kick, wait, done |
| `Sse` | `sse.c`, one domain's events | a lock section per step; `stack` is the handlers S-mode is in |
| `Boot` | the lottery, hart table, domain table, release and start | until the release the boot hart is alone |

What a hart does for its software:

| Module | Models | Notes |
|--------|--------|-------|
| `HartState` | `context_save`, `context_restore`, `context_fresh`, and the S-mode IPI from the call to SSIP | a register is its name; the tables decide what is saved; posting an IPI, keeping it for a context that waits and taking it are separate steps |
| `Pmp` | region registration and merging, domain regions, PMP entries, windows | with and without Smepmp, several grains; ends of ranges wrap at `Top` as unsigned longs do |
| `Pmu`, `Dbtr`, `Fwft` | counters, triggers, features with the domain switch | counter values in halves; refused calls are no steps |
| `Timer` | the ACLINT timer, Sstc, the time CSR, the timer nodes | two halves of `Base` values each |
| `InsnDecode`, `IllegalInsn`, `Misaligned` | decoders, AMOs by LR and SC, scalar and vector accesses byte by byte | reference: the ISA's tables and a one-step access |

Messages:

| Module | Models | Notes |
|--------|--------|-------|
| `Rpmi` | `rpmi.c` over `rpmi_shmem.c` | four rings, lock, tokens, doorbell; the interrupt is a second thread of the hart; the microcontroller (PuC) is external |
| `RpmiClients` | CPPC fast channels, suspend and reset types, RPMI channels, event buffer | `rpmi_call()` is one step, and a discovery is as many as it makes calls |
| `Mpxy` | probes, list of channels, shared memory, attributes, MSIs | attributes are stored one by one, without a lock |
| `Reqfwd` | `reqfwd.c` with the channels at its two ends | messages live on their senders' stacks |
| `Bridge` | the bridge of `mpxy_rpmi_fw.c` | the message travels with the hart between domains that stop and start |

Boot-time data:

| Module | Models | Notes |
|--------|--------|-------|
| `Reset` | reset drivers, their list, the SRST call, the halt of the other harts | a platform's answer is cached and may fail to come; halts are posted hart by hart, and a hart that starts over drops its own |
| `Fdt`, `FdtEdit` | libfdt's walk, lookups and edits | reference: a function of paths to properties |
| `FdtSw` | `fdt_sw.c` | reference: the tree that was written |
| `FdtFixup` | `fdt_fixup.c`, `irqchip_fdt_fixup`, `domains_fdt_fixup` | every point where room may run out |

`InterruptProofs` (of `Ipi` and `Timer`), `HsmProofs` (of `Hsm` and `IpiDevices`),
`RfenceProofs`, `DomainProofs`, `SseProofs`, `ServiceProofs` (of `Fwft`, `FenceRange`,
`Dbtr` and `HartState`), `ForwardProofs` (of `Bridge` and `Reqfwd`) and `RpmiProofs`
hold the theorems. `MC*` are the instances.
`MCHsm`, `MCBoot`, `MCInterrupts`, `MCMessages` and `MCServices` put several
components that share no state in one run: a behaviour is one of one component,
named by a variable, and the others stay in one initial state.

Definitions with a comment "a bug to tell apart" are variants of the definition
after them. They are in no specification. Each shows that a property notices a
plausible mistake.

Abstractions: the entry address and argument of a start are one value; what a
fence flushes is left out of `Rfence` and modelled in `FenceRange`; `Sse` keeps
whose the saved registers are, not what they hold, and gives every event both a
source in the monitor and an injection by S-mode (the code has either); a device
tree is words and names, not bytes; a message is its sender and its number.

## Runs

| Run | Instance | Shows |
|-----|----------|-------|
| `hsm` | 2 booted harts, no platform power; 4 harts at each IPI device | states match the harts, the life cycle is implemented, starts happen, suspended harts wake; a kick interrupts its hart |
| `hsm_power` | 2 booted harts, platform power | **violated**: a start may be lost (finding) |
| `boot` | 2 harts from reset with platform power; 3 harts and 3 domains in the tables; up to 2 reset nodes, as many as the list holds, and a GPIO controller, 3 harts of which one resets; small trees | start arguments are never changed under way; the tables follow the tree; a reset takes the system down with the best backend; edits, fix-up and writing give the tree that is meant |
| `rfence` | 3 harts, queues of 1, the last one stops | return means fenced; requests return |
| `domain` | 3 harts, 3 domains: two harts in domain 1, one of which visits domain 2, the third in the root domain | masks, contexts, complete stops |
| `domain_stop` | 2 harts, 3 domains: one hart moves, the other stops and starts domains | a stop returns |
| `sse` | 2 harts, a local event on one, a global one | handlers nest; no deliverable event is forgotten |
| `messages` | 2 harts, rings of 2 messages (1 for acknowledgments to the PuC), 3 tokens; a PuC that answers late, badly or not at all; 3 domains of a hart | rings are queues, answers are those of the request, the PuC is heard; clients keep what the PuC said; a bridged answer goes to its sender |
| `bridge_restart` | 3 domains of a hart, of which the sender may restart | **violated**: an answer to the former life's message (finding) |
| `services` | 2 domains on a hart, 2 harts where they share; every access of a small machine | counters, triggers, locks, PMP entries and registers are the domain's; forwarding is exact; channels are the tree's; emulation is the instruction; a range is flushed |
| `misaligned_whole` | one load of two whole registers | **violated**: memory and registers are interleaved (finding) |
| `interrupts` | 2 harts, all events; a clock of 4 values, 1 and 2 harts, 2 domains; 3 harts that boot 2 domains | no event without an interrupt on its way, the mailbox is implemented; time is read as it is, timers fire, boot ends |

### Bounds

* Two harts give every pair of sender and receiver, starter and started. Three are
  used where a third party matters: fences that wait in a cycle, a start by one
  hart of a domain that another stops (`StopIsComplete` does not need the start
  barrier with two harts, and fails without it with three), and a hart table with
  a boot hart, one that comes in time and one that does not.
* Queues of one entry reach the full one at once. A ring keeps a slot free: three
  slots hold two messages, so that order, wrap-around and the full ring all occur
  (`TwoMessages`); the ring of acknowledgments to the PuC has two, so that it is full
  while another is due. Three tokens come round with the calls of one budget; a budget
  (`FiveBudgets`) is the calls, polls, notifications and timeouts of a behaviour, one
  for setting the doorbell up, one with a timeout, one that fills a ring, one for using
  the doorbell under a posted call, one for tokens.
* `sse`: one hart suspends and changes domain (`Movers`); the other starts, stops,
  masks and raises. Priorities 0 and 1 order the two events either way. `Used` and
  `Written` name the events and attributes S-mode makes use of.
* `services`: two domains, so that every switch has a way back; call bounds of four
  to six, enough for configure, start, switch, switch back and look
  (`MaxCalls`, `MaxDbtrCalls`, `MaxFwftCalls`, `MaxPmpSteps`, `MaxSwitches`). PMU
  behaviours are of one of five `Workloads`, each a set of the calls that affect one
  another. PMP addresses are 32 words with the monitor in the middle, and maps of
  devices that touch, overlap, are not NAPOT, or are too many. Fence ranges are all
  those in 8 pages of 4 addresses, with walks of up to 3 pages: they wrap, and lie
  below, at and above the limit. Vector registers are 4 bytes, memory 24 bytes in
  pages of 4, any set of them mapped: every element may be the one that faults.
* `boot`: buffers just too small, just large enough and ample (`Buffers`, `Room`, the
  room of each fix-up case), so that running out happens at every step.
* `interrupts`: halves of one bit carry over at every second tick.

Where deadlock is not checked, the system may really have nothing left to do: all
harts stopped or asleep, a boot that is over, calls that are used up, an instruction
that has been emulated. `sse` checks it.

### Fairness

A hart in the monitor goes on (weak fairness of its steps): M-mode is not
interrupted, and none of the modelled functions waits except in the loops that are
modelled. A raised interrupt is taken. `Ipi`, `Rfence` and `Rpmi` state this as
strong fairness, because a hart that makes calls leaves and re-enters the states in
which it can take one. The clock of `Timer` ticks. In `Boot` only the named boot
hart is sure to come. S-mode is required to do nothing, except to stop issuing new
fences in `FenceReturns`: `rfence_process()` goes on while entries arrive. A hart
asleep in a domain that is being stopped wakes up, since `domain_stop()` raises its
interrupt. The PuC of `Rpmi` serves its queue but need not answer; `PucIsHeard`
needs no more of it.

`spin_lock()` is a test-and-set loop (`src/include/spinlock.h`), which by itself
lets a hart starve. That a hart which keeps trying gets the lock is therefore an
assumption: strong fairness in `DomainContext` and `Rpmi`, and implicit in `Rfence`,
where a section under a queue's lock is one step.

## Proofs

Each theorem holds for every value of the constants that the module's assumption
admits; where it needs more it says so (`ASSUME`). The inductive invariants were
model-checked on the instance of the run before they were proved.

### Harts and what they send each other

**`Ipi`** (`InterruptProofs`), any set of harts: `TypeInvariant`, `EventsNeverStranded`
(`NoStrandedEvent` is inductive together with the types), `SmodeIpiIsDelivered`, and
`MailboxIsImplemented`: every step is a step of `IpiMailbox` or none, which is the
safety half of `ImplementsMailbox`. The mailbox also needs that a halted hart is in the
middle of nothing.

**`HsmProofs`**, any number of harts: `TypesHold` and `StartArgumentsKept`, with a
platform that powers harts or without; `StatesAreTrue` and `LifecycleIsFollowed`
without one (with one they fail, see below). `StateInv` names the state at every
label, since a hart's next step goes by it. `ArgsInv` says that while the boot hart
is in `image_main()` no other hart has been started (`BootOrder`), so that its own
start changes nobody's arguments. `LifecycleIsFollowed` is the step simulation of
`HartLifecycle`; its fairness is only model-checked.

**`IpiDevices`** (`HsmProofs`), any number of harts in any order, words of any width
and any number of MSIs: `KicksReachTheirHarts`. `RegistersAreTrue` says bit by bit what
each device holds; for the IMSIC that an identity is enabled in a hart's file exactly
when it is the IPI's or an MSI the hart owns, and pending when it was sent.

**`RfenceProofs`**, any number of harts and any queue length, with or without
platform power, from reset (`FenceSpec`) and with all harts in S-mode
(`RunningSpec`): `CountIsExact` (a requester's count is the number of harts that owe
it an answer), `CountIsNeverStale` (nobody holds an entry whose requester has
returned), `ReturnMeansFenced` and `QueuesAreBounded`. The invariant `FenceInv`
adds to the types, the queue bound and the exact count that every entry is of a
request that has asked that hart (`EntriesAreAsked`), and that every hart a request
has asked owes it an answer or has fenced for it (`AskedOweOrFenced`). A count of
zero then means that nobody owes, hence that everyone has fenced. Steps of `Hsm`
change none of these variables but `draining`, so the proof does not depend on how
harts start and stop.

**`DomainProofs`**, any number of harts and domains, any assignment of one to the
other and any rights to enter: `MasksStayTrue`, `ContextIsItsOwn` and
`StopsAreComplete`, of one invariant `DomainInv`:

* `Locks`: a lock is held exactly in its section;
* `Masks`: what the masks say at each label of a switch that is half done;
* `Current`: no context of a hart but that of its domain counts as running, and
  that one is not waiting;
* `Stopped`: a stopped hart is in the wait loop, so a start takes no context from
  under a hart;
* `Marked`: a domain marked as stopping is neither entered nor parked in, and after
  the barrier no start of one of its harts is under way;
* `Scanned`: so a hart that the stop has seen stopped stays so, and once all are
  seen the stop is complete.

`DomainInv` was also model-checked on two harts with four domains.

**`SseProofs`**, any harts, events and priorities: `HandlersAlwaysNest` and
`NothingIsForgotten`, of one invariant `SseInv`. It adds that a stopped hart is in no
handler, that no hart runs before the global events are set up, and that none of these
is left RUNNING on a stopped hart unless the domain is being stopped
(`StoppedHasNoHandler`); and that a hart with an event due is kicked wherever it is in
the monitor, not only in S-mode and asleep (`DueIsKicked`). `TopIsInnermost` is why
`sse_complete()` puts the right handler back.

### What a hart does for its software

**`Timer`** (`InterruptProofs`), any boards, harts and domains and halves of any width:
`TimeStaysTrue`. `TimerInv` says

* `OnlyOwn`: a register that may fire is some hart's, and by the wiring of the device
  tree (`RegisterIsWired`: positions count the machine timer's entries, and are
  different for different harts) it interrupts no other;
* `Keeps`: what the current domain asked for is on the hart, and what the others asked
  for is saved;
* `Programs`: while a deadline is being written nothing is pending, and when the
  interrupt is enabled again the register has the deadline;
* `Reads`: a low half that was read is the low half of a time since the read began,
  whose high half is not below the one read before it. If the third read still gives
  the same high half, that time is the word read.

**`Fwft`** (`ServiceProofs`), any domains, values and number of calls:
`LocksAlwaysHold`. A set call goes by the lock bits, not by the promise, so
`PromisesAreLocks` joins them.

**`FenceRange`** (`ServiceProofs`), any page size, page limit and register width:
`RangeIsCovered`. `RangeInv` says of a walk under way that its offset is a multiple
of the page size and that everything below it is flushed. That one `fence_one()`
does for all of its page, also where the address wraps, is the lemma `SamePage`.

**`Dbtr`** (`ServiceProofs`), any number of triggers, domains and calls and any
hardware: `TriggersStayTheDomains`. A trigger comes back from what was saved, so what
was saved must be one value (`OneIsWanted`); and `dbtr_install()` may clear a place it
could not use because the places of its chains were free and are disjoint.

**`HartState`** (`ServiceProofs`), any features of the hart and any domains:
`DomainFindsItsState`. An IPI may be posted to one domain and taken when the hart is
another's: the theorem says whose it is from then on, not that it was the right one
(`NoIpiIsLost`, below). `ContextsKeep` says the same of the contexts that are parked;
the rest is that `context_save()` and `context_restore()` reach every register that the
hart has (`SaveKeeps`, `RestoreGives`), by the tables and the extensions that decide.

### Messages

**`Bridge`** (`ForwardProofs`), any domains and rights to enter: `AnswersGoToSenders`,
where the sources of messages are not stopped by others (with that it fails: run
`bridge_restart`). `SlotIsTheCalls` joins the slot of a domain to the call its context
waits in, `HartIsWhere` says which context runs.

**`Reqfwd`** (`ForwardProofs`), any senders and servers: `EndsAgree`, for messages in any
number of pieces, is that the two ends agree on what became of a message and that no
message waits for a target that was not told. `ForwardsExactly` adds that a message is
answered with its own response, where one server retrieves messages whole (in pieces
it fails, see below). The queue holds each message that waits once, and none that was
given up (`QueueIsWaiting`); a message that was completed is not given up afterwards
(`AgreedIsAnswered`); while all servers sleep, what tells one of a message is on its
way (`NewsIsOnItsWay`); and what the one server holds is what it is about to complete
(`HeldToComplete`).

**`RpmiProofs`**, any numbers of slots from one up, of harts and of messages: `RingsAreQueues`. The
indices stay in the ring, every slot holds a message, and a put and a take of the
ring are those of a queue (`PutAppends`, `TakeDrops`), modulo the number of slots.

Assumptions are those of the modules: `N`, `QueueLen`, `D` and `PageSize` are positive,
a ring has a slot, as `rpmi_shmem_probe()` sees to, a half has two values at least, a page limit is below
the address space, whose size is a multiple of the page, harts have one place each in
the order of the devices, the tables of a board are tables, and `NoHart` and its like
are no harts.

Only model-checked: liveness (`StartHappens`, `SuspendedHartWakes`, `FenceReturns`,
`StopReturns`, `PucIsHeard`, `TimerFires`, `BootEnds`) and the fairness in the
refinements, which are out of the prover's reach; what recursive definitions compute,
for the same reason (`Fdt`, `FdtSw` and what uses them); everything about the other
modules (`Pmu`, `Pmp`, `Mpxy`, `RpmiClients`, `Boot`, `Reset`, `Misaligned`,
`IllegalInsn`, `InsnDecode`), and `AnswerIsOurs` of `Rpmi`.

## Expectations that fail

Three are runs with a finding in `PROJECT.json`. The following fail as well, on
other instances. To reproduce one, put it in place of the properties of the
configuration named, with the changes given.

| Property | Configuration and changes | What happens |
|----------|---------------------------|--------------|
| `Hsm!LifecycleMoves` | `MCHsmPower.cfg` | a refused start makes a hart STOPPED that has already left the wait loop, and it becomes STARTED from there |
| `Hsm!SystemSuspendAlone` | `MCHsm.cfg`, `N = 3` | a hart already looked at is started by one that stops before it is looked at; holds with two harts |
| `Hsm!StartHappens` | module `Hsm` itself, `FairSpec`, the constants of `MCHsm.cfg` | from reset a start is lost without platform power, too: the hart was not in the wait loop yet |
| `Rfence!FenceReturns` | `MCRfence.cfg`, `FairRunningSpec`, `N = 2`, `PlatformPower = TRUE` | a target that is powered down and released again drops the interrupt for an entry that is in its queue |
| `FenceRange!OnlyWrappingRefused` | `MCServices.cfg` | a range that ends with the address space is refused |
| `DomainContext!VisitorsGoBack` | `MCDomainContext.cfg` | a visitor that has stopped itself stays stopped when the domain it visits is, and its caller waits on |
| `DomainContext!CallsHaveAnotherSide` | `MCDomainStop.cfg`, `Spec`, `D = 4` | a stop forgets a context that a third domain's call goes back through; holds with `D = 3` |
| `DomainContext!MemberOfItsDomains` | `MCDomainContext.cfg` | between the writes of two masks a hart is in neither |
| `DomainContext!RunsAsStarted` | `MCDomainStop.cfg`, `Spec` | a hart suspended in a domain that is stopped runs its caller's S-mode without becoming STARTED |
| `Sse!DeliveredWhenBack` (a PROPERTY) | `MCSse.cfg` | a hart back from a stopped domain runs S-mode with an event due until its next trap |
| `Rpmi!AnswerIsOurs` | `MCMessages.cfg`, `TokenMod = 2` | tokens have come round: the late answer to a request that was given up has the token of the present one. In the code that takes 65536 calls |
| `Rpmi!EmptyRingTakesOne` | `MCMessages.cfg`, `MsgSlots <- NoMessage` | a queue with "at least one [slot] for a message" (`rpmi_shmem.c:164-168`) is accepted; with one slot it is full when it is empty, and every send times out |
| `Rpmi!PucIsHeard` | `MCMessages.cfg`, `PucMisfits = TRUE` | a message too long for the buffer ends `p2a_drain()` ("until it is empty", `rpmi.c:293`), and the one behind it waits for the next doorbell |
| `RpmiClients!ClientsFollowThePuc` | `MCMessages.cfg`, `StoresReorder = TRUE` | the filter of system MSIs and the flag that it is complete are plain stores; a hart that sees them in the other order passes on an MSI of the monitor's |
| `RpmiClients!LateChannelMeans` | `MCMessages.cfg` | a PuC "that shows up later still gets its fast channels used" (`rpmi_cppc.c:16-17`): the first write looks at the mode before it is discovered, and in autonomous mode leaves the desired performance where the PuC reads the minimum |
| `Mpxy!RefusedServersAreTheirs` | `MCServices.cfg` | a server joins its target before its channel is registered and stays when that is refused; the pool entry it names becomes the next channel's, maybe another domain's |
| `Mpxy!MsiIsWhole` | `MCServices.cfg`, `Writes <- TwoTargets` | the check is of the attributes as a whole (`mpxy.c:390`), the stores are not: of two harts' writes the MSI may get a half each |
| `Reqfwd!ForwardingIsExact` | `MCServices.cfg`, `Pieces = 2` | a target retrieves a message in pieces; one that times out in between is followed by the next one's piece, and the answer to both goes to the next sender |
| `Pmu!MonitorNotCounted` | `MCServices.cfg` | a stop with the RESET flag writes zero to a fixed counter's filters, too, and it counts M-mode from then on |
| `Dbtr!TriggersAreFound` | `MCServices.cfg`, `HasTinfo = FALSE` | without tinfo a trigger has the one type its tdata1 reads at the time, out of those it could be set to |
| `HartState!NoIpiIsLost` | `MCServices.cfg` | "losing it is not an option" (`services/sbi/ipi.c:24-25`): an IPI that was posted is taken after the hart changed domains and becomes the other one's; and a hart that comes back to the domain between the look at the members and the look at the parked is sent none |
| `Pmp!EntriesAreRight` | `MCServices.cfg`, `MapChoices <- TopMaps`, `Windows <- TopWindows` | the end of a range in the last grain is 2^XLEN, which wraps to zero: the entries of such a region, or a window there, are not what was asked for |
| `Fwft!PmlenUsable` | `MCServices.cfg`, `Sticks <- OneLength` | `feature_exists()` tries a length of its own choosing; a hart with only the other one is said to have none |
| `Reset!SystemResets` | `MCBoot.cfg`, `MaxNodes = 3` | the list of backends is full, and one more is dropped although it is better |
| `Reset!OthersHalt` | `MCBoot.cfg` | "halt the other harts, and halt" (`reset.h:39`): a hart that is being started or stopped drops the halt in `ipi_hart_init()` and goes on to S-mode |
| `FdtFixup!PartitionIsHidden` | `MCBoot.cfg`, `FixupCases <- StaleCases` | `cpus` is looked up before devices are disabled, which moves it when they come before it |
| `Misaligned!AccessIsTheInsn` | `MCMisalignedWhole.cfg`, `Insns <- WidthInsns` | a segment access of another width than vtype's places its fields LMUL registers apart, not EMUL |

`FenceRange!CoversRange` is about ranges that start at a page; from the middle of a
page on, the walk may end one page early.

## Not modelled

* Loader image, test images and platforms: constants, boot-time input and output,
  C library functions, and the S-mode program that tests the calls, with the
  PuC it plays. (The other end of `Rpmi` is any PuC that uses the rings.)
* Console, serial ports, APLIC set-up: register accesses that keep no state of the
  monitor's. The dispatch of SBI calls, which keeps none either.
* Text: names, `compatible` strings, the cells of addresses and sizes, the checks of a
  blob's header, overlays.
* Feature detection, relocation, the C environment.
* The register frame of a trap. `HartState` has the registers of a context,
  `DomainContext` when contexts change: they are not composed, and neither are `Hsm`
  and `Rpmi`, where a platform call is one step that succeeds or not.
* RAS interrupts as a source of software events; the contents of what `Sse` saves.
* Memory ordering: atomic operations and locks are taken to be sequentially
  consistent, and so are plain accesses, except where `StoresReorder` says otherwise.
* A hart that stops, or loses its state, inside an event handler: `Sse` takes S-mode
  to complete its handlers first. A stop of the domain is not so restricted.
