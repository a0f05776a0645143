----------------------------- MODULE DomainContext -----------------------------
(***************************************************************************)
(* Harts that move between domains, arch/riscv/runtime/domain_context.c:   *)
(* enter and exit as the two ends of a call, the quiet moves of the MPXY   *)
(* bridge, domain_start() and domain_stop(), with what they need of hsm.c. *)
(*                                                                         *)
(* A context is a domain's state on one hart; its registers and the        *)
(* services' state that moves with it are left out.  What domain_lock,     *)
(* stop_lock and hsm_start_lock cover is one step, unless code without the *)
(* lock looks at it meanwhile: the masks of context_restore() are written  *)
(* one by one.  Of the HSM states only those that matter here are kept.    *)
(* Every domain's next stage lies in its own executable memory.            *)
(***************************************************************************)
EXTENDS Naturals

CONSTANTS Hart, NoHart,
          D,             \* the number of domains; 0 is the root domain
          NoDomain,
          Home,          \* [Hart -> Domain]: the tree's assignment
          Possible,      \* [Domain -> SUBSET Hart]
          BootHart,      \* [Domain -> Hart or NoHart]
          EntryFrom,     \* [Domain -> SUBSET Domain]: riscv,entry-allowed-from
          ResetAllowed,  \* the domains that may start and stop others
          Bridge         \* <<owner, target>> of the bridges between domains

Domain == 0 .. D - 1
Root == 0

ASSUME DomainAssumption ==
  /\ D \in Nat \ {0}
  /\ NoHart \notin Hart
  /\ NoDomain \notin Domain
  /\ Home \in [Hart -> Domain]
  /\ Possible \in [Domain -> SUBSET Hart]
  /\ BootHart \in [Domain -> Hart \cup {NoHart}]
  /\ EntryFrom \in [Domain -> SUBSET (Domain \ {Root})]
  /\ ResetAllowed \subseteq Domain
  /\ Bridge \subseteq Domain \X Domain

VARIABLES ctx,          \* [Domain -> [Hart -> enum context_state]]
          caller,       \* [Domain -> [Hart -> Domain or NoDomain]]
          assigned,     \* [Domain -> SUBSET Hart]
          parked,       \* [Domain -> SUBSET Hart]
          domain,       \* [Hart -> Domain]: struct hart's
          stopping,     \* [Domain -> BOOLEAN]
          hsm_state,    \* [Hart -> the HSM states that matter here]
          pc,           \* what the hart is about to do
          dom,          \* [Hart -> Domain]: the domain its call is about
          after,        \* [Hart -> pc]: where the hart is after a switch
          target,       \* [Hart -> Hart]: the hart it is starting
          msip,         \* [Hart -> BOOLEAN]: kicked
          scanned,      \* the harts domain_stop()'s wait has looked at this time
          domain_lock, start_lock, stop_lock   \* who holds it, or NoHart

vars == <<ctx, caller, assigned, parked, domain, stopping, hsm_state, pc, dom,
          after, target, msip, scanned, domain_lock, start_lock, stop_lock>>
members == <<assigned, parked, domain>>
locks == <<domain_lock, start_lock, stop_lock>>
call == <<dom, after, target, scanned>>

Context == {"NONE", "RUNNING", "CALLING", "IDLE"}
State == {"STOPPED", "START_PENDING", "STARTED", "STOP_PENDING", "SUSPENDED",
          "RESUME_PENDING"}
Label == {"smode", "tail", "restore", "restore_parked", "restore_set",
          "stop_self", "force_stop", "stopped", "loop", "enter", "ctx_started",
          "started_check", "started", "sleep", "sleep_nonret", "resume", "boot",
          "boot_store", "ds_mark", "ds_barrier", "ds_kick", "ds_wait", "ds_done"}

\* After domains_start(): each domain runs on its boot hart, if that is its own.
Boots(h) == BootHart[Home[h]] = h

Init ==
  /\ ctx = [d \in Domain |-> [h \in Hart |->
              IF d = Home[h] /\ Boots(h) THEN "RUNNING" ELSE "NONE"]]
  /\ caller = [d \in Domain |-> [h \in Hart |-> NoDomain]]
  /\ assigned = [d \in Domain |-> {h \in Hart : Home[h] = d}]
  /\ parked = [d \in Domain |-> {}]
  /\ domain = Home
  /\ stopping = [d \in Domain |-> FALSE]
  /\ hsm_state = [h \in Hart |-> IF Boots(h) THEN "STARTED" ELSE "STOPPED"]
  /\ pc = [h \in Hart |-> IF Boots(h) THEN "smode" ELSE "loop"]
  /\ dom = [h \in Hart |-> Home[h]]
  /\ after = [h \in Hart |-> "tail"]
  /\ target = [h \in Hart |-> h]
  /\ msip = [h \in Hart |-> FALSE]
  /\ scanned = {}
  /\ domain_lock = NoHart
  /\ start_lock = NoHart
  /\ stop_lock = NoHart

Goto(h, from, to) == pc[h] = from /\ pc' = [pc EXCEPT ![h] = to]
MayEnter(from, to) == to # Root /\ from \in EntryFrom[to]
CallerWaits(h) ==
  LET c == caller[domain[h]][h] IN c # NoDomain /\ ctx[c][h] = "CALLING"
-------------------------------------------------------------------------------
(* Context switches *)

\* context_switch() up to context_restore(); domain_lock is taken.  A hart that
\* is not the boot hart of a domain that is new to it stops there.
Switch(h, to, fresh, then) ==
  /\ domain_lock = NoHart
  /\ domain_lock' = h
  /\ dom' = [dom EXCEPT ![h] = to]
  /\ pc' = [pc EXCEPT ![h] = "restore"]
  /\ IF fresh /\ BootHart[to] # h
       THEN /\ after' = [after EXCEPT ![h] = "force_stop"]
            /\ hsm_state' = [hsm_state EXCEPT ![h] = "STOP_PENDING"]
       ELSE /\ after' = [after EXCEPT ![h] = then]
            /\ UNCHANGED hsm_state
  /\ UNCHANGED <<assigned, domain, stopping, target, scanned, msip, start_lock, stop_lock>>

\* context_park()
Park(h, state) ==
  /\ ctx' = [ctx EXCEPT ![domain[h]][h] = state]
  /\ parked' = [parked EXCEPT ![domain[h]] = @ \cup {h}]

\* A bug to tell apart: the hart stays in the mask of the domain it leaves.
RestoreKeeps(h) ==
  /\ Goto(h, "restore", "restore_parked")
  /\ UNCHANGED <<ctx, caller, members, stopping, hsm_state, call, msip, locks>>

\* context_restore()'s masks, one atomic operation each; the last step drops
\* the lock.
Restore(h) ==
  /\ Goto(h, "restore", "restore_parked")
  /\ assigned' = [assigned EXCEPT ![domain[h]] = @ \ {h}]
  /\ UNCHANGED <<ctx, caller, parked, domain, stopping, hsm_state, call, msip, locks>>

RestoreParked(h) ==
  /\ Goto(h, "restore_parked", "restore_set")
  /\ parked' = [parked EXCEPT ![dom[h]] = @ \ {h}]
  /\ UNCHANGED <<ctx, caller, assigned, domain, stopping, hsm_state, call, msip, locks>>

RestoreSet(h) ==
  /\ Goto(h, "restore_set", after[h])
  /\ assigned' = [assigned EXCEPT ![dom[h]] = @ \cup {h}]
  /\ domain' = [domain EXCEPT ![h] = dom[h]]
  /\ ctx' = [ctx EXCEPT ![dom[h]][h] = "RUNNING"]
  /\ domain_lock' = NoHart
  /\ UNCHANGED <<caller, parked, stopping, hsm_state, call, msip,
                 start_lock, stop_lock>>

\* enter(): refused with an error code and nothing else (Trap) unless ...
Enter(h, to, quiet) ==
  /\ pc[h] = "smode"
  /\ to # domain[h] /\ h \in Possible[to]
  /\ quiet \/ MayEnter(domain[h], to)
  /\ ~stopping[to] /\ ~stopping[domain[h]]
  /\ ctx[to][h] \in {"NONE", "IDLE"}
  /\ Park(h, "CALLING")
  /\ caller' = [caller EXCEPT ![to][h] = domain[h]]
  /\ Switch(h, to, ctx[to][h] = "NONE", "tail")

\* domain_switch_to(), for a bridge: only where the hart would run.
SwitchTo(h, to) ==
  /\ <<domain[h], to>> \in Bridge
  /\ ctx[to][h] = "IDLE" \/ BootHart[to] = h
  /\ Enter(h, to, TRUE)

\* Where domain_exit() goes without a caller: the first domain this one may
\* enter that has not had the hart yet.
CanBoot(h, d) ==
  /\ d # Root /\ d # domain[h] /\ h \in Possible[d]
  /\ MayEnter(domain[h], d) /\ ~stopping[d] /\ ctx[d][h] = "NONE"

Chained(h) == {d \in Domain : CanBoot(h, d) /\ \A e \in Domain : CanBoot(h, e) => d <= e}

\* Where domain_switch_back() goes without one: 'first', booted here.
CanBootFirst(h, first) ==
  /\ first # domain[h] /\ BootHart[first] = h /\ h \in Possible[first]
  /\ ~stopping[first] /\ ctx[first][h] = "NONE"

\* The end of leave(), 'to' being the caller or a domain to boot; in a domain
\* that is being stopped the hart stays.
LeaveFor(h, to, boots) ==
  IF stopping[domain[h]]
    THEN /\ domain_lock = NoHart
         /\ caller' = IF boots THEN [caller EXCEPT ![to][h] = NoDomain] ELSE caller
         /\ pc' = [pc EXCEPT ![h] = "tail"]
         /\ UNCHANGED <<ctx, members, stopping, hsm_state, call, msip, locks>>
    ELSE /\ Park(h, "IDLE")
         /\ caller' = [[caller EXCEPT ![to][h] = IF boots THEN NoDomain ELSE @]
                         EXCEPT ![domain[h]][h] = NoDomain]
         /\ Switch(h, to, boots, "tail")

Exit(h) ==
  /\ pc[h] = "smode"
  /\ \/ CallerWaits(h) /\ LeaveFor(h, caller[domain[h]][h], FALSE)
     \/ ~CallerWaits(h) /\ \E d \in Chained(h) : LeaveFor(h, d, TRUE)

SwitchBack(h) ==
  /\ pc[h] = "smode"
  /\ \E b \in Bridge :
       /\ b[2] = domain[h]
       /\ \/ CallerWaits(h) /\ LeaveFor(h, caller[domain[h]][h], FALSE)
          \/ ~CallerWaits(h) /\ CanBootFirst(h, b[1]) /\ LeaveFor(h, b[1], TRUE)
-------------------------------------------------------------------------------
(* S-mode's other traps, and the end of trap_handler() *)

Trap(h) ==
  /\ Goto(h, "smode", "tail")
  /\ UNCHANGED <<ctx, caller, members, stopping, hsm_state, call, msip, locks>>

TrapIpi(h) ==
  /\ msip[h]
  /\ Goto(h, "smode", "tail")
  /\ msip' = [msip EXCEPT ![h] = FALSE]
  /\ UNCHANGED <<ctx, caller, members, stopping, hsm_state, call, locks>>

TrapTail(h) ==
  /\ Goto(h, "tail", IF stopping[domain[h]] THEN "stop_self" ELSE "smode")
  /\ UNCHANGED <<ctx, caller, members, stopping, hsm_state, call, msip, locks>>

\* domain_stop_self(): back to the caller if one waits, or stopped.
StopSelf(h) ==
  /\ pc[h] = "stop_self" /\ domain_lock = NoHart
  /\ ctx' = [ctx EXCEPT ![domain[h]][h] = "NONE"]
  /\ caller' = [caller EXCEPT ![domain[h]][h] = NoDomain]
  /\ UNCHANGED parked
  /\ IF CallerWaits(h)
       THEN Switch(h, caller[domain[h]][h], FALSE, "smode")
       ELSE /\ pc' = [pc EXCEPT ![h] = "force_stop"]
            /\ UNCHANGED <<assigned, domain, stopping, hsm_state, call, msip,
                           locks>>
-------------------------------------------------------------------------------
(* hsm.c, as far as domains are concerned *)

SetState(h, s) == hsm_state' = [hsm_state EXCEPT ![h] = s]

ForceStop(h) ==
  /\ Goto(h, "force_stop", "stopped")
  /\ SetState(h, "STOP_PENDING")
  /\ UNCHANGED <<ctx, caller, members, stopping, call, msip, locks>>

HartStop(h) ==
  /\ hsm_state[h] = "STARTED"
  /\ Goto(h, "smode", "stopped")
  /\ SetState(h, "STOP_PENDING")
  /\ UNCHANGED <<ctx, caller, members, stopping, call, msip, locks>>

\* hsm_hart_wait(), and hsm_wait_loop() up to the loop.
HartWait(h) ==
  /\ Goto(h, "stopped", "loop")
  /\ SetState(h, "STOPPED")
  /\ msip' = [msip EXCEPT ![h] = FALSE]
  /\ UNCHANGED <<ctx, caller, members, stopping, call, locks>>

WaitLoop(h) ==
  /\ hsm_state[h] = "START_PENDING"
  /\ Goto(h, "loop", "enter")
  /\ UNCHANGED <<ctx, caller, members, stopping, hsm_state, call, msip, locks>>

\* hsm_hart_enter(): hart_runtime_init(), then domain_context_started().
HartEnter(h) ==
  /\ Goto(h, "enter", "ctx_started")
  /\ msip' = [msip EXCEPT ![h] = FALSE]
  /\ UNCHANGED <<ctx, caller, members, stopping, hsm_state, call, locks>>

ContextStarted(h) ==
  /\ domain_lock = NoHart
  /\ Goto(h, "ctx_started", "started_check")
  /\ ctx' = [ctx EXCEPT ![domain[h]][h] = "RUNNING"]
  /\ UNCHANGED <<caller, members, stopping, hsm_state, call, msip, locks>>

StartedCheck(h) ==
  /\ Goto(h, "started_check", IF stopping[domain[h]] THEN "stop_self" ELSE "started")
  /\ UNCHANGED <<ctx, caller, members, stopping, hsm_state, call, msip, locks>>

Started(h) ==
  /\ Goto(h, "started", "smode")
  /\ SetState(h, "STARTED")
  /\ UNCHANGED <<ctx, caller, members, stopping, call, msip, locks>>

\* hart_suspend(), from STARTED to SUSPENDED.
Suspend(h, retentive) ==
  /\ hsm_state[h] = "STARTED"
  /\ Goto(h, "smode", IF retentive THEN "sleep" ELSE "sleep_nonret")
  /\ SetState(h, "SUSPENDED")
  /\ UNCHANGED <<ctx, caller, members, stopping, call, msip, locks>>

\* hsm_wait_for_wakeup() is over: an interrupt, or the domain is being stopped.
Wake(h) ==
  /\ Goto(h, "sleep", "tail")
  /\ SetState(h, "STARTED")
  /\ UNCHANGED <<ctx, caller, members, stopping, call, msip, locks>>

WakeNonRetentive(h) ==
  /\ Goto(h, "sleep_nonret", IF stopping[domain[h]] THEN "stop_self" ELSE "resume")
  /\ UNCHANGED <<ctx, caller, members, stopping, hsm_state, call, msip, locks>>

Resume(h) ==
  /\ Goto(h, "resume", "ctx_started")
  /\ SetState(h, "RESUME_PENDING")
  /\ UNCHANGED <<ctx, caller, members, stopping, call, msip, locks>>

\* hsm_hart_start() and hsm_hart_boot(): the domain of the hart that is to
\* start, then the start lock with the state and the stop flag read under it ...
HartStart(h, t) ==
  /\ t \in assigned[domain[h]]
  /\ Goto(h, "smode", "boot")
  /\ target' = [target EXCEPT ![h] = t]
  /\ UNCHANGED <<ctx, caller, members, stopping, hsm_state, dom, after, scanned, msip, locks>>

HartBoot(h) ==
  /\ pc[h] = "boot" /\ start_lock = NoHart
  /\ LET t == target[h]
         starts == ~stopping[domain[t]] /\ hsm_state[t] = "STOPPED"
     IN /\ pc' = [pc EXCEPT ![h] = IF starts THEN "boot_store" ELSE "tail"]
        /\ start_lock' = IF starts THEN h ELSE NoHart
        /\ target' = [target EXCEPT ![h] = IF starts THEN @ ELSE h]
  /\ UNCHANGED <<ctx, caller, members, stopping, hsm_state, dom, after, scanned, msip,
                 domain_lock, stop_lock>>

\* ... the store, the end of the lock and the kick.
HartBootStore(h) ==
  /\ Goto(h, "boot_store", "tail")
  /\ SetState(target[h], "START_PENDING")
  /\ msip' = [msip EXCEPT ![target[h]] = TRUE]
  /\ start_lock' = NoHart
  /\ target' = [target EXCEPT ![h] = h]
  /\ UNCHANGED <<ctx, caller, members, stopping, dom, after, scanned, domain_lock,
                 stop_lock>>
-------------------------------------------------------------------------------
(* domain_start() and domain_stop() *)

MayControl(h, d) == d = domain[h] \/ domain[h] \in ResetAllowed

Running(d) == (\E i \in assigned[d] : hsm_state[i] # "STOPPED") \/ parked[d] # {}

\* A bug to tell apart: a domain that runs is started over.
DomainStartUnchecked(h, d) ==
  /\ MayControl(h, d) /\ domain_lock = NoHart
  /\ ~stopping[d] /\ BootHart[d] \in assigned[d]
  /\ Goto(h, "smode", "boot")
  /\ ctx' = [ctx EXCEPT ![d] = [i \in Hart |-> "NONE"]]
  /\ target' = [target EXCEPT ![h] = BootHart[d]]
  /\ UNCHANGED <<caller, members, stopping, hsm_state, dom, after, scanned, msip, locks>>

DomainStart(h, d) ==
  /\ MayControl(h, d) /\ domain_lock = NoHart
  /\ ~stopping[d] /\ ~Running(d) /\ BootHart[d] \in assigned[d]
  /\ Goto(h, "smode", "boot")
  /\ ctx' = [ctx EXCEPT ![d] = [i \in Hart |-> "NONE"]]
  /\ target' = [target EXCEPT ![h] = BootHart[d]]
  /\ UNCHANGED <<caller, members, stopping, hsm_state, dom, after, scanned, msip, locks>>

DomainStop(h, d) ==
  /\ MayControl(h, d) /\ stop_lock = NoHart
  /\ Goto(h, "smode", "ds_mark")
  /\ stop_lock' = h
  /\ dom' = [dom EXCEPT ![h] = d]
  /\ UNCHANGED <<ctx, caller, members, stopping, hsm_state, after, target,
                 scanned, msip, domain_lock, start_lock>>

\* The contexts that wait go at once.
StopMark(h) ==
  /\ domain_lock = NoHart
  /\ Goto(h, "ds_mark", "ds_barrier")
  /\ LET d == dom[h]
         waits == {i \in Hart : ctx[d][i] \in {"CALLING", "IDLE"}}
     IN /\ stopping' = [stopping EXCEPT ![d] = TRUE]
        /\ ctx' = [ctx EXCEPT ![d] = [i \in Hart |-> IF i \in waits THEN "NONE" ELSE @[i]]]
        /\ caller' = [caller EXCEPT ![d] = [i \in Hart |-> IF i \in waits THEN NoDomain ELSE @[i]]]
        /\ parked' = [parked EXCEPT ![d] = @ \ waits]
  /\ UNCHANGED <<assigned, domain, hsm_state, call, msip, locks>>

\* Another: a start under way is not waited for.
StopNoBarrier(h) ==
  /\ Goto(h, "ds_barrier", "ds_kick")
  /\ UNCHANGED <<ctx, caller, members, stopping, hsm_state, call, msip, locks>>

\* hsm_start_barrier()
StopBarrier(h) ==
  /\ start_lock = NoHart
  /\ Goto(h, "ds_barrier", "ds_kick")
  /\ UNCHANGED <<ctx, caller, members, stopping, hsm_state, call, msip, locks>>

\* Another: the harts are left to notice by themselves.
StopNoKick(h) ==
  /\ Goto(h, "ds_kick", "ds_wait")
  /\ UNCHANGED <<ctx, caller, members, stopping, hsm_state, call, msip, locks>>

StopKick(h) ==
  /\ Goto(h, "ds_kick", "ds_wait")
  /\ msip' = [i \in Hart |-> msip[i] \/ (i # h /\ i \in assigned[dom[h]])]
  /\ UNCHANGED <<ctx, caller, members, stopping, hsm_state, call, locks>>

\* The wait: one hart after the other, again from the start when one was busy,
\* with an ipi_process() after each round.
StopScan(h, i) ==
  /\ pc[h] = "ds_wait" /\ i \notin scanned
  /\ IF i # h /\ i \in assigned[dom[h]] /\ hsm_state[i] # "STOPPED"
       THEN scanned' = {} /\ msip' = [msip EXCEPT ![h] = FALSE]
       ELSE scanned' = scanned \cup {i} /\ UNCHANGED msip
  /\ UNCHANGED <<ctx, caller, members, stopping, hsm_state, pc, dom, after, target, locks>>

StopScanned(h) ==
  /\ scanned = Hart
  /\ Goto(h, "ds_wait", "ds_done")
  /\ scanned' = {}
  /\ msip' = [msip EXCEPT ![h] = FALSE]
  /\ UNCHANGED <<ctx, caller, members, stopping, hsm_state, dom, after, target, locks>>

StopDone(h) ==
  /\ Goto(h, "ds_done", IF dom[h] = domain[h] THEN "stop_self" ELSE "tail")
  /\ stopping' = [stopping EXCEPT ![dom[h]] = FALSE]
  /\ stop_lock' = NoHart
  /\ dom' = [dom EXCEPT ![h] = domain[h]]
  /\ UNCHANGED <<ctx, caller, members, hsm_state, after, target, scanned, msip,
                 domain_lock, start_lock>>
-------------------------------------------------------------------------------
MonitorStep(h) ==
  \/ Restore(h) \/ RestoreParked(h) \/ RestoreSet(h) \/ TrapTail(h)
  \/ StopSelf(h) \/ ForceStop(h) \/ HartWait(h) \/ WaitLoop(h) \/ HartEnter(h)
  \/ ContextStarted(h) \/ StartedCheck(h) \/ Started(h) \/ Resume(h)
  \/ HartBoot(h) \/ HartBootStore(h) \/ StopMark(h) \/ StopBarrier(h)
  \/ StopKick(h) \/ (\E i \in Hart : StopScan(h, i)) \/ StopScanned(h) \/ StopDone(h)

SmodeStep(h) ==
  \/ Exit(h) \/ SwitchBack(h) \/ Trap(h) \/ HartStop(h)
  \/ (\E r \in BOOLEAN : Suspend(h, r)) \/ (\E t \in Hart : HartStart(h, t))
  \/ \E d \in Domain : \/ Enter(h, d, FALSE) \/ SwitchTo(h, d)
                       \/ DomainStart(h, d) \/ DomainStop(h, d)

Next == \E h \in Hart : MonitorStep(h) \/ TrapIpi(h) \/ Wake(h) \/ WakeNonRetentive(h)
                        \/ SmodeStep(h)

(***************************************************************************)
(* The monitor gets on.  spin_lock() tries again and again: that a hart    *)
(* which does so gets the lock in the end is an assumption (hence strong   *)
(* fairness).  A kicked hart traps, and a suspended one of a domain that   *)
(* is being stopped leaves its wait.                                       *)
(***************************************************************************)
Fairness ==
  \A h \in Hart : /\ SF_vars(MonitorStep(h))
                  /\ SF_vars(TrapIpi(h))
                  /\ WF_vars(stopping[domain[h]] /\ (Wake(h) \/ WakeNonRetentive(h)))

Spec == Init /\ [][Next]_vars

FairSpec == Spec /\ Fairness
-------------------------------------------------------------------------------
TypeOK ==
  /\ ctx \in [Domain -> [Hart -> Context]]
  /\ caller \in [Domain -> [Hart -> Domain \cup {NoDomain}]]
  /\ assigned \in [Domain -> SUBSET Hart]
  /\ parked \in [Domain -> SUBSET Hart]
  /\ domain \in [Hart -> Domain]
  /\ stopping \in [Domain -> BOOLEAN]
  /\ hsm_state \in [Hart -> State]
  /\ pc \in [Hart -> Label]
  /\ dom \in [Hart -> Domain]
  /\ after \in [Hart -> {"tail", "smode", "force_stop"}]
  /\ target \in [Hart -> Hart]
  /\ msip \in [Hart -> BOOLEAN]
  /\ scanned \in SUBSET Hart
  /\ domain_lock \in Hart \cup {NoHart}
  /\ start_lock \in Hart \cup {NoHart}
  /\ stop_lock \in Hart \cup {NoHart}

(***************************************************************************)
(* The masks tell the truth, but for the moment in which a switch writes   *)
(* them: a hart is assigned to one domain, the one struct hart names, and  *)
(* the parked mask is the set of contexts that wait on it, through any     *)
(* sequence of moves, domain starts and domain stops.  The memory          *)
(* protection, every "harts of the caller's domain" check, the IPIs kept   *)
(* for harts that are away, domain_running() and the system suspend go by  *)
(* them.                                                                   *)
(***************************************************************************)
MasksAreTrue ==
  \A h \in Hart : domain_lock # h =>
    \A d \in Domain :
      /\ h \in assigned[d] <=> d = domain[h]
      /\ h \in parked[d] <=> ctx[d][h] \in {"CALLING", "IDLE"}

(***************************************************************************)
(* A hart in S-mode runs the context of its domain, and has no other one   *)
(* that counts as running: no move, start or stop of a domain by another   *)
(* hart pulls the context away under it.                                   *)
(***************************************************************************)
RunsItsContext ==
  \A h \in Hart :
    /\ pc[h] = "smode" => ctx[domain[h]][h] = "RUNNING"
    /\ domain_lock # h => \A d \in Domain : ctx[d][h] = "RUNNING" => d = domain[h]

(***************************************************************************)
(* "Stop every hart that runs 'dom', whatever it does" (include/domain.h): *)
(* when domain_stop() has done its waiting, no other hart of the domain is *)
(* anything but stopped and none of its contexts waits to go on, however   *)
(* starts, moves and suspends raced with it.                               *)
(***************************************************************************)
StopIsComplete ==
  \A h \in Hart : pc[h] = "ds_done" =>
    /\ \A i \in assigned[dom[h]] \ {h} : hsm_state[i] = "STOPPED"
    /\ \A i \in Hart : ctx[dom[h]][i] \in {"NONE", "RUNNING"}

(***************************************************************************)
(* domain_stop() "returns once that is done": it does not wait for ever,   *)
(* whatever the harts of the domain are in the middle of, a stop of their  *)
(* own included.                                                           *)
(***************************************************************************)
StopReturns == \A h \in Hart : pc[h] = "ds_mark" ~> pc[h] = "ds_done"

(***************************************************************************)
(* "harts that came from another domain go back there, their enter call    *)
(* failed" (include/domain.h): a hart that domain_stop() leaves in the     *)
(* domain has nobody waiting for it elsewhere.                             *)
(***************************************************************************)
VisitorsGoBack ==
  \A h \in Hart : pc[h] = "ds_done" =>
    \A i \in assigned[dom[h]] \ {h} : ~CallerWaits(i)

(***************************************************************************)
(* CONTEXT_CALLING: "in domain_enter() until the other side exits".  There *)
(* is another side: the context the hart is in, or one that calls in turn, *)
(* goes back to this one.                                                  *)
(***************************************************************************)
CallsHaveAnotherSide ==
  \A h \in Hart : domain_lock # h =>
    \A d \in Domain : ctx[d][h] = "CALLING" =>
      \E e \in Domain : caller[e][h] = d /\ (e = domain[h] \/ ctx[e][h] = "CALLING")

(***************************************************************************)
(* "States and error codes are the SBI HSM ones" (include/arch/hsm.h): a   *)
(* hart that runs S-mode is STARTED, also when domain_stop_self() has sent *)
(* it back to the domain it came from.                                     *)
(***************************************************************************)
RunsAsStarted == \A h \in Hart : pc[h] = "smode" => hsm_state[h] = "STARTED"

(***************************************************************************)
(* "HSM, IPI and RFENCE calls see the harts of the caller's domain"        *)
(* (docs/domains.md): a hart with a context in a domain is a member of it  *)
(* at any time those calls may look, which they do without the lock.       *)
(***************************************************************************)
MemberOfItsDomains ==
  \A h \in Hart, d \in Domain :
    ctx[d][h] \in {"CALLING", "IDLE"} => h \in assigned[d] \cup parked[d]
===============================================================================
