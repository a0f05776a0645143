------------------------------ MODULE DomainProofs ------------------------------
(***************************************************************************)
(* That the masks, the contexts and the stops of domains are right for any *)
(* number of harts and domains, any assignment of one to the other and any *)
(* rights to enter.                                                        *)
(*                                                                         *)
(* What a switch leaves half done has to be said label by label (Masks);   *)
(* the locks have to be those of their sections (Locks).  That a start of  *)
(* a domain takes no context from under a hart rests on a stopped hart     *)
(* being in the wait loop (Stopped).  A stop is complete because a marked  *)
(* domain is neither entered nor parked in, and because no start of one of *)
(* its harts is under way after the barrier (Marked): a hart that was seen *)
(* stopped then stays so (Scanned).                                        *)
(***************************************************************************)
EXTENDS DomainContext, TLAPS

Waiting == {"CALLING", "IDLE"}
Moving == {"restore", "restore_parked", "restore_set"}
Stops == {"ds_mark", "ds_barrier", "ds_kick", "ds_wait", "ds_done"}
InDomain == {"smode", "tail", "started_check", "started", "sleep", "sleep_nonret",
             "resume", "boot", "boot_store"} \cup Stops

Locks ==
  \A h \in Hart :
    /\ domain_lock = h <=> pc[h] \in Moving
    /\ start_lock = h <=> pc[h] = "boot_store"
    /\ stop_lock = h <=> pc[h] \in Stops

Masks ==
  \A h \in Hart : \A d \in Domain :
    /\ h \in assigned[d] <=> d = domain[h] /\ pc[h] \notin {"restore_parked", "restore_set"}
    /\ h \in parked[d] <=> ctx[d][h] \in Waiting /\ ~(pc[h] = "restore_set" /\ d = dom[h])

Current ==
  \A h \in Hart :
    /\ \A d \in Domain : ctx[d][h] = "RUNNING" => d = domain[h] /\ pc[h] \notin Moving
    /\ pc[h] \notin Moving => ctx[domain[h]][h] \notin Waiting
    /\ pc[h] \in Moving => dom[h] # domain[h]
    /\ pc[h] \in InDomain => ctx[domain[h]][h] = "RUNNING"

Stopped ==
  \A h \in Hart :
    /\ hsm_state[h] = "STOPPED" => pc[h] = "loop"
    /\ pc[h] = "boot_store" => hsm_state[target[h]] = "STOPPED"

Marked ==
  \A h \in Hart : pc[h] \in Stops \ {"ds_mark"} =>
    /\ stopping[dom[h]]
    /\ \A i \in Hart : ctx[dom[h]][i] \notin Waiting
    /\ \A i \in Hart : pc[i] \in Moving => dom[i] # dom[h]
    /\ pc[h] # "ds_barrier" =>
         \A i \in Hart : pc[i] = "boot_store" => domain[target[i]] # dom[h]

Scanned ==
  /\ (\A h \in Hart : pc[h] # "ds_wait") => scanned = {}
  /\ \A h \in Hart : pc[h] = "ds_wait" =>
       \A i \in scanned \ {h} : i \in assigned[dom[h]] => hsm_state[i] = "STOPPED"
  /\ \A h \in Hart : pc[h] = "ds_done" =>
       \A i \in assigned[dom[h]] \ {h} : hsm_state[i] = "STOPPED"

DomainInv ==
  TypeOK /\ Locks /\ Masks /\ Current /\ Stopped /\ Marked /\ Scanned
-------------------------------------------------------------------------------
\* A hart that goes on to label l, alone: it takes and drops no lock, changes no
\* context and no mask, and leaves others as stopped as they are.
Quiet(h, l, s) ==
  /\ pc' = [pc EXCEPT ![h] = l] /\ hsm_state' = [hsm_state EXCEPT ![h] = s]
  /\ pc[h] \notin Moving \cup Stops \cup {"boot_store"}
  /\ l \in Label \ (Moving \cup Stops \cup {"boot_store"})
  /\ l \in InDomain => pc[h] \in InDomain
  /\ hsm_state[h] # "STOPPED" /\ s \in State /\ (s = "STOPPED" => l = "loop")
  /\ target' \in [Hart -> Hart] /\ \A k \in Hart : k # h => target'[k] = target[k]
  /\ msip' \in [Hart -> BOOLEAN]
  /\ caller' \in [Domain -> [Hart -> Domain \cup {NoDomain}]]
  /\ UNCHANGED <<ctx, members, stopping, dom, after, scanned, locks>>

\* Such a step keeps the invariant.
LEMMA QuietStep ==
  ASSUME DomainInv, NEW h \in Hart, NEW l, NEW s, Quiet(h, l, s)
  PROVE  DomainInv'
<1> USE DEF DomainInv, Quiet, members, locks, Context, State, Label, Waiting, Moving, Stops, InDomain
<1>1. TypeOK'
  BY DEF TypeOK
<1>2. Locks'
  BY DEF TypeOK, Locks
<1>3. Masks'
  BY DEF TypeOK, Locks, Masks, Current
<1>4. Current'
  BY DEF TypeOK, Locks, Masks, Current
<1>5. Stopped'
  BY DEF TypeOK, Locks, Stopped
<1>6. Marked'
  BY DEF TypeOK, Locks, Current, Stopped, Marked
<1>7. Scanned'
  BY DEF TypeOK, Locks, Masks, Stopped, Marked, Scanned
<1> QED
  BY <1>1, <1>2, <1>3, <1>4, <1>5, <1>6, <1>7 DEF DomainInv

\* A hart that begins to switch, from a context that waits or is over: to a domain
\* that is not being stopped, or in which it has a call waiting.
LEMMA SwitchStep ==
  ASSUME DomainInv, NEW h \in Hart, NEW d \in Domain, NEW fresh \in BOOLEAN,
         NEW then \in {"tail", "smode"}, NEW left \in {"CALLING", "IDLE", "NONE"},
         pc[h] \in {"smode", "stop_self"}, d # domain[h],
         left # "NONE" => ~stopping[domain[h]],
         ~stopping[d] \/ ctx[d][h] = "CALLING",
         ctx' = [ctx EXCEPT ![domain[h]][h] = left],
         parked' = [parked EXCEPT ![domain[h]] = IF left = "NONE" THEN @ ELSE @ \cup {h}],
         caller' \in [Domain -> [Hart -> Domain \cup {NoDomain}]],
         Switch(h, d, fresh, then)
  PROVE  DomainInv'
<1>1. TypeOK'
  <2>1. TypeOK
    BY DEF DomainInv
  <2>2. ctx' \in [Domain -> [Hart -> Context]]
    BY <2>1 DEF TypeOK, Context
  <2>3. parked' \in [Domain -> SUBSET Hart] /\ assigned' \in [Domain -> SUBSET Hart]
    BY <2>1 DEF TypeOK, Switch
  <2>4. /\ pc' \in [Hart -> Label] /\ dom' \in [Hart -> Domain]
        /\ after' \in [Hart -> {"tail", "smode", "force_stop"}]
    BY <2>1 DEF TypeOK, Switch, Label
  <2>5. hsm_state' \in [Hart -> State] /\ domain_lock' \in Hart \cup {NoHart}
    BY <2>1 DEF TypeOK, Switch, State
  <2>6. UNCHANGED <<domain, stopping, target, scanned, msip, start_lock, stop_lock>>
    BY DEF Switch
  <2> QED
    BY <2>1, <2>2, <2>3, <2>4, <2>5, <2>6 DEF TypeOK
<1> USE DomainAssumption
    DEF DomainInv, Switch, Context, State, Label, Waiting, Moving, Stops, InDomain
<1>2. Locks'
  BY DEF TypeOK, Locks
<1>3. Masks'
  BY DEF TypeOK, Locks, Masks, Current
<1>4. Current'
  BY DEF TypeOK, Locks, Masks, Current
<1>5. Stopped'
  BY DEF TypeOK, Locks, Stopped
<1>6. Marked'
  BY DEF TypeOK, Locks, Current, Stopped, Marked
<1>7. Scanned'
  BY DEF TypeOK, Locks, Masks, Stopped, Marked, Scanned
<1> QED
  BY <1>1, <1>2, <1>3, <1>4, <1>5, <1>6, <1>7 DEF DomainInv

\* The hart leaves the mask of the domain it comes from.
LEMMA RestoreStep ==
  ASSUME DomainInv, NEW h \in Hart, Restore(h)
  PROVE  DomainInv'
<1> USE DomainAssumption
    DEF DomainInv, Restore, Goto, members, locks, call,
        Context, State, Label, Waiting, Moving, Stops, InDomain
<1>1. TypeOK'
  BY DEF TypeOK
<1>2. Locks'
  BY DEF TypeOK, Locks
<1>3. Masks'
  BY DEF TypeOK, Locks, Masks, Current
<1>4. Current'
  BY DEF TypeOK, Locks, Masks, Current
<1>5. Stopped'
  BY DEF TypeOK, Locks, Stopped
<1>6. Marked'
  BY DEF TypeOK, Locks, Current, Stopped, Marked
<1>7. Scanned'
  BY DEF TypeOK, Locks, Masks, Stopped, Marked, Scanned
<1> QED
  BY <1>1, <1>2, <1>3, <1>4, <1>5, <1>6, <1>7 DEF DomainInv

\* Its context there waits no more: the mask is written before the state.
LEMMA RestoreParkedStep ==
  ASSUME DomainInv, NEW h \in Hart, RestoreParked(h)
  PROVE  DomainInv'
<1> USE DomainAssumption
    DEF DomainInv, RestoreParked, Goto, members, locks, call,
        Context, State, Label, Waiting, Moving, Stops, InDomain
<1>1. TypeOK'
  BY DEF TypeOK
<1>2. Locks'
  BY DEF TypeOK, Locks
<1>3. Masks'
  BY DEF TypeOK, Locks, Masks, Current
<1>4. Current'
  BY DEF TypeOK, Locks, Masks, Current
<1>5. Stopped'
  BY DEF TypeOK, Locks, Stopped
<1>6. Marked'
  BY DEF TypeOK, Locks, Current, Stopped, Marked
<1>7. Scanned'
  BY DEF TypeOK, Locks, Masks, Stopped, Marked, Scanned
<1> QED
  BY <1>1, <1>2, <1>3, <1>4, <1>5, <1>6, <1>7 DEF DomainInv

\* The end of context_restore().  The domain it comes to is not being stopped, and
\* nobody is starting a hart that runs.
LEMMA RestoreSetStep ==
  ASSUME DomainInv, NEW h \in Hart, RestoreSet(h)
  PROVE  DomainInv'
<1> USE DomainAssumption
    DEF DomainInv, RestoreSet, Goto, members, locks, call,
        Context, State, Label, Waiting, Moving, Stops, InDomain
<1>1. TypeOK'
  BY DEF TypeOK
<1>2. Locks'
  BY DEF TypeOK, Locks
<1>3. Masks'
  BY DEF TypeOK, Locks, Masks, Current
<1>4. Current'
  BY DEF TypeOK, Locks, Masks, Current
<1>5. Stopped'
  BY DEF TypeOK, Locks, Stopped
<1>6. Marked'
  <2>1. \A k \in Hart : pc[k] = "boot_store" => target[k] # h
    BY DEF TypeOK, Stopped
  <2>2. \A k \in Hart : pc[k] \in Stops => k # h /\ pc'[k] = pc[k]
    BY DEF TypeOK
  <2>3. \A k \in Hart : pc[k] \in Stops \ {"ds_mark"} => dom[h] # dom[k]
    BY DEF Marked
  <2>4. pc'[h] \notin Moving \cup Stops \cup {"boot_store"}
    BY DEF TypeOK
  <2>5. ASSUME NEW k \in Hart, pc'[k] \in Stops \ {"ds_mark"}
        PROVE  /\ stopping'[dom'[k]]
               /\ \A i \in Hart : ctx'[dom'[k]][i] \notin Waiting
               /\ \A i \in Hart : pc'[i] \in Moving => dom'[i] # dom'[k]
    BY <2>2, <2>3, <2>4, <2>5 DEF TypeOK, Marked
  <2>6. ASSUME NEW k \in Hart, pc'[k] \in Stops \ {"ds_mark"}, pc'[k] # "ds_barrier",
               NEW i \in Hart, pc'[i] = "boot_store"
        PROVE  domain'[target'[i]] # dom'[k]
    BY <2>1, <2>2, <2>3, <2>4, <2>6 DEF TypeOK, Marked
  <2> HIDE DEF Waiting, Moving, Stops
  <2> QED
    BY <2>5, <2>6 DEF Marked
<1>7. Scanned'
  <2> HIDE DEF Context, State, Label, InDomain, Waiting
  <2>1. \A k \in Hart : pc[k] \in Stops \ {"ds_mark"} => dom[h] # dom[k]
    BY DEF Marked
  <2> QED
    BY <2>1 DEF TypeOK, Scanned
<1> QED
  BY <1>1, <1>2, <1>3, <1>4, <1>5, <1>6, <1>7 DEF DomainInv

\* domain_context_started(): the context of the hart's own domain runs.
LEMMA ContextStartedStep ==
  ASSUME DomainInv, NEW h \in Hart, ContextStarted(h)
  PROVE  DomainInv'
<1> USE DomainAssumption
    DEF DomainInv, ContextStarted, Goto, members, locks, call,
        Context, State, Label, Waiting, Moving, Stops, InDomain
<1>1. TypeOK'
  BY DEF TypeOK
<1>2. Locks'
  BY DEF TypeOK, Locks
<1>3. Masks'
  BY DEF TypeOK, Locks, Masks, Current
<1>4. Current'
  BY DEF TypeOK, Locks, Masks, Current
<1>5. Stopped'
  BY DEF TypeOK, Locks, Stopped
<1>6. Marked'
  BY DEF TypeOK, Locks, Current, Stopped, Marked
<1>7. Scanned'
  BY DEF TypeOK, Locks, Masks, Stopped, Marked, Scanned
<1> QED
  BY <1>1, <1>2, <1>3, <1>4, <1>5, <1>6, <1>7 DEF DomainInv

\* hsm_hart_boot(): the lock is kept only for a hart that is stopped, and not in a
\* domain that is marked.
LEMMA HartBootStep ==
  ASSUME DomainInv, NEW h \in Hart, HartBoot(h)
  PROVE  DomainInv'
<1> USE DomainAssumption
    DEF DomainInv, HartBoot, Goto, members, locks, call,
        Context, State, Label, Waiting, Moving, Stops, InDomain
<1>1. TypeOK'
  BY DEF TypeOK
<1>2. Locks'
  BY DEF TypeOK, Locks
<1>3. Masks'
  BY DEF TypeOK, Locks, Masks, Current
<1>4. Current'
  BY DEF TypeOK, Locks, Masks, Current
<1>5. Stopped'
  BY DEF TypeOK, Locks, Stopped
<1>6. Marked'
  BY DEF TypeOK, Locks, Current, Stopped, Marked
<1>7. Scanned'
  BY DEF TypeOK, Locks, Masks, Stopped, Marked, Scanned
<1> QED
  BY <1>1, <1>2, <1>3, <1>4, <1>5, <1>6, <1>7 DEF DomainInv

\* The hart that is started is in no domain whose stop is past the barrier.
LEMMA HartBootStoreStep ==
  ASSUME DomainInv, NEW h \in Hart, HartBootStore(h)
  PROVE  DomainInv'
<1> USE DomainAssumption
    DEF DomainInv, HartBootStore, Goto, members, locks, call, SetState,
        Context, State, Label, Waiting, Moving, Stops, InDomain
<1>1. TypeOK'
  BY DEF TypeOK
<1>2. Locks'
  BY DEF TypeOK, Locks
<1>3. Masks'
  BY DEF TypeOK, Locks, Masks, Current
<1>4. Current'
  BY DEF TypeOK, Locks, Masks, Current
<1>5. Stopped'
  BY DEF TypeOK, Locks, Stopped
<1>6. Marked'
  BY DEF TypeOK, Locks, Current, Stopped, Marked
<1>7. Scanned'
  <2> HIDE DEF Context, State, Label, InDomain, Moving, Waiting
  <2>1. ASSUME NEW k \in Hart, pc[k] \in {"ds_wait", "ds_done"}
        PROVE  target[h] \notin assigned[dom[k]]
    BY <2>1 DEF TypeOK, Masks, Marked
  <2> QED
    BY <2>1 DEF TypeOK, Scanned
<1> QED
  BY <1>1, <1>2, <1>3, <1>4, <1>5, <1>6, <1>7 DEF DomainInv

\* domain_stop() forgets the contexts that wait, when no switch is under way.
LEMMA StopMarkStep ==
  ASSUME DomainInv, NEW h \in Hart, StopMark(h)
  PROVE  DomainInv'
<1>c. /\ ctx' \in [Domain -> [Hart -> Context]]
      /\ \A d \in Domain : \A i \in Hart :
           \/ ctx'[d][i] = ctx[d][i]
           \/ ctx'[d][i] = "NONE" /\ ctx[d][i] \in Waiting
  BY DEF DomainInv, TypeOK, StopMark, Context, Waiting
<1>p. /\ pc' = [pc EXCEPT ![h] = "ds_barrier"] /\ pc[h] = "ds_mark"
      /\ UNCHANGED <<domain, dom>>
  BY DEF StopMark, Goto, call
<1>4. Current'
  <2> SUFFICES ASSUME NEW i \in Hart
               PROVE  /\ \A d \in Domain :
                            ctx'[d][i] = "RUNNING" => d = domain[i] /\ pc'[i] \notin Moving
                      /\ pc'[i] \notin Moving => ctx'[domain[i]][i] \notin Waiting
                      /\ pc'[i] \in Moving => dom[i] # domain[i]
                      /\ pc'[i] \in InDomain => ctx'[domain[i]][i] = "RUNNING"
    BY <1>p DEF Current
  <2>1. /\ pc'[i] \in Moving <=> pc[i] \in Moving
        /\ pc'[i] \in InDomain => pc[i] \in InDomain
        /\ domain[i] \in Domain
    BY <1>p DEF DomainInv, TypeOK, Moving, InDomain, Stops
  <2>2. /\ \A d \in Domain :
              ctx[d][i] = "RUNNING" => d = domain[i] /\ pc[i] \notin Moving
        /\ pc[i] \notin Moving => ctx[domain[i]][i] \notin Waiting
        /\ pc[i] \in Moving => dom[i] # domain[i]
        /\ pc[i] \in InDomain => ctx[domain[i]][i] = "RUNNING"
    BY DEF DomainInv, Current
  <2> QED
    BY <1>c, <2>1, <2>2 DEF Waiting
<1> USE DomainAssumption
    DEF DomainInv, StopMark, Goto, members, locks, call,
        Context, State, Label, Waiting, Moving, Stops, InDomain
<1>1. TypeOK'
  BY DEF TypeOK
<1>2. Locks'
  BY DEF TypeOK, Locks
<1>3. Masks'
  BY DEF TypeOK, Locks, Masks, Current
<1>5. Stopped'
  BY DEF TypeOK, Locks, Stopped
<1>6. Marked'
  BY DEF TypeOK, Locks, Current, Stopped, Marked
<1>7. Scanned'
  BY DEF TypeOK, Locks, Masks, Stopped, Marked, Scanned
<1> QED
  BY <1>1, <1>2, <1>3, <1>4, <1>5, <1>6, <1>7 DEF DomainInv

\* Whoever starts a hart after the barrier has seen the mark.
LEMMA StopBarrierStep ==
  ASSUME DomainInv, NEW h \in Hart, StopBarrier(h)
  PROVE  DomainInv'
<1> USE DomainAssumption
    DEF DomainInv, StopBarrier, Goto, members, locks, call,
        Context, State, Label, Waiting, Moving, Stops, InDomain
<1>1. TypeOK'
  BY DEF TypeOK
<1>2. Locks'
  BY DEF TypeOK, Locks
<1>3. Masks'
  BY DEF TypeOK, Locks, Masks, Current
<1>4. Current'
  BY DEF TypeOK, Locks, Masks, Current
<1>5. Stopped'
  BY DEF TypeOK, Locks, Stopped
<1>6. Marked'
  BY DEF TypeOK, Locks, Current, Stopped, Marked
<1>7. Scanned'
  BY DEF TypeOK, Locks, Masks, Stopped, Marked, Scanned
<1> QED
  BY <1>1, <1>2, <1>3, <1>4, <1>5, <1>6, <1>7 DEF DomainInv

\* The kick changes no state but the interrupts.
LEMMA StopKickStep ==
  ASSUME DomainInv, NEW h \in Hart, StopKick(h)
  PROVE  DomainInv'
<1> USE DomainAssumption
    DEF DomainInv, StopKick, Goto, members, locks, call,
        Context, State, Label, Waiting, Moving, Stops, InDomain
<1>1. TypeOK'
  BY DEF TypeOK
<1>2. Locks'
  BY DEF TypeOK, Locks
<1>3. Masks'
  BY DEF TypeOK, Locks, Masks, Current
<1>4. Current'
  BY DEF TypeOK, Locks, Masks, Current
<1>5. Stopped'
  BY DEF TypeOK, Locks, Stopped
<1>6. Marked'
  BY DEF TypeOK, Locks, Current, Stopped, Marked
<1>7. Scanned'
  BY DEF TypeOK, Locks, Masks, Stopped, Marked, Scanned
<1> QED
  BY <1>1, <1>2, <1>3, <1>4, <1>5, <1>6, <1>7 DEF DomainInv

\* A hart that has been seen stopped stays so, or the wait begins again.
LEMMA StopScanStep ==
  ASSUME DomainInv, NEW h \in Hart, NEW i \in Hart, StopScan(h, i)
  PROVE  DomainInv'
<1> USE DomainAssumption
    DEF DomainInv, StopScan, Goto, members, locks, call,
        Context, State, Label, Waiting, Moving, Stops, InDomain
<1>1. TypeOK'
  BY DEF TypeOK
<1>2. Locks'
  BY DEF TypeOK, Locks
<1>3. Masks'
  BY DEF TypeOK, Locks, Masks, Current
<1>4. Current'
  BY DEF TypeOK, Locks, Masks, Current
<1>5. Stopped'
  BY DEF TypeOK, Locks, Stopped
<1>6. Marked'
  BY DEF TypeOK, Locks, Current, Stopped, Marked
<1>7. Scanned'
  BY DEF TypeOK, Locks, Masks, Stopped, Marked, Scanned
<1> QED
  BY <1>1, <1>2, <1>3, <1>4, <1>5, <1>6, <1>7 DEF DomainInv

\* Every hart has been seen stopped, or elsewhere.
LEMMA StopScannedStep ==
  ASSUME DomainInv, NEW h \in Hart, StopScanned(h)
  PROVE  DomainInv'
<1> USE DomainAssumption
    DEF DomainInv, StopScanned, Goto, members, locks, call,
        Context, State, Label, Waiting, Moving, Stops, InDomain
<1>1. TypeOK'
  BY DEF TypeOK
<1>2. Locks'
  BY DEF TypeOK, Locks
<1>3. Masks'
  BY DEF TypeOK, Locks, Masks, Current
<1>4. Current'
  BY DEF TypeOK, Locks, Masks, Current
<1>5. Stopped'
  BY DEF TypeOK, Locks, Stopped
<1>6. Marked'
  BY DEF TypeOK, Locks, Current, Stopped, Marked
<1>7. Scanned'
  BY DEF TypeOK, Locks, Masks, Stopped, Marked, Scanned
<1> QED
  BY <1>1, <1>2, <1>3, <1>4, <1>5, <1>6, <1>7 DEF DomainInv

\* The mark is taken back by the hart that has the stop lock.
LEMMA StopDoneStep ==
  ASSUME DomainInv, NEW h \in Hart, StopDone(h)
  PROVE  DomainInv'
<1> USE DomainAssumption
    DEF DomainInv, StopDone, Goto, members, locks, call,
        Context, State, Label, Waiting, Moving, Stops, InDomain
<1>1. TypeOK'
  BY DEF TypeOK
<1>2. Locks'
  BY DEF TypeOK, Locks
<1>3. Masks'
  BY DEF TypeOK, Locks, Masks, Current
<1>4. Current'
  BY DEF TypeOK, Locks, Masks, Current
<1>5. Stopped'
  BY DEF TypeOK, Locks, Stopped
<1>6. Marked'
  BY DEF TypeOK, Locks, Current, Stopped, Marked
<1>7. Scanned'
  BY DEF TypeOK, Locks, Masks, Stopped, Marked, Scanned
<1> QED
  BY <1>1, <1>2, <1>3, <1>4, <1>5, <1>6, <1>7 DEF DomainInv

\* domain_start() clears the contexts of a domain whose harts are all stopped, none
\* of which therefore is past the wait loop.
LEMMA DomainStartStep ==
  ASSUME DomainInv, NEW h \in Hart, NEW d \in Domain, DomainStart(h, d)
  PROVE  DomainInv'
<1> USE DomainAssumption
    DEF DomainInv, DomainStart, Goto, members, locks, call, Running,
        Context, State, Label, Waiting, Moving, Stops, InDomain
<1>1. TypeOK'
  BY DEF TypeOK
<1>2. Locks'
  BY DEF TypeOK, Locks
<1>3. Masks'
  BY DEF TypeOK, Locks, Masks, Current
<1>4. Current'
  <2>1. ASSUME NEW i \in Hart, pc[i] \in InDomain PROVE domain[i] # d
    BY <2>1 DEF TypeOK, Masks, Stopped
  <2> QED
    BY <2>1 DEF TypeOK, Current
<1>5. Stopped'
  BY DEF TypeOK, Locks, Stopped
<1>6. Marked'
  BY DEF TypeOK, Locks, Current, Stopped, Marked
<1>7. Scanned'
  BY DEF TypeOK, Locks, Masks, Stopped, Marked, Scanned
<1> QED
  BY <1>1, <1>2, <1>3, <1>4, <1>5, <1>6, <1>7 DEF DomainInv

\* domain_stop() takes its lock.
LEMMA DomainStopStep ==
  ASSUME DomainInv, NEW h \in Hart, NEW d \in Domain, DomainStop(h, d)
  PROVE  DomainInv'
<1> USE DomainAssumption
    DEF DomainInv, DomainStop, Goto, members, locks, call,
        Context, State, Label, Waiting, Moving, Stops, InDomain
<1>1. TypeOK'
  BY DEF TypeOK
<1>2. Locks'
  BY DEF TypeOK, Locks
<1>3. Masks'
  BY DEF TypeOK, Locks, Masks, Current
<1>4. Current'
  BY DEF TypeOK, Locks, Masks, Current
<1>5. Stopped'
  BY DEF TypeOK, Locks, Stopped
<1>6. Marked'
  BY DEF TypeOK, Locks, Current, Stopped, Marked
<1>7. Scanned'
  BY DEF TypeOK, Locks, Masks, Stopped, Marked, Scanned
<1> QED
  BY <1>1, <1>2, <1>3, <1>4, <1>5, <1>6, <1>7 DEF DomainInv

\* Out of domains_start() every hart is where its domain's boot hart says.
LEMMA InitDomainInv == Init => DomainInv
<1> SUFFICES ASSUME Init PROVE DomainInv
  OBVIOUS
<1> USE DomainAssumption DEF Init, Boots, Waiting, Moving, Stops, InDomain
<1>1. TypeOK
  <2>1. /\ stopping \in [Domain -> BOOLEAN] /\ msip \in [Hart -> BOOLEAN]
        /\ parked \in [Domain -> SUBSET Hart] /\ assigned \in [Domain -> SUBSET Hart]
    BY Zenon
  <2>2. /\ ctx \in [Domain -> [Hart -> Context]]
        /\ caller \in [Domain -> [Hart -> Domain \cup {NoDomain}]]
    BY DEF Context
  <2>3. /\ hsm_state \in [Hart -> State] /\ pc \in [Hart -> Label]
        /\ after \in [Hart -> {"tail", "smode", "force_stop"}]
    BY DEF State, Label
  <2>4. domain \in [Hart -> Domain] /\ dom \in [Hart -> Domain] /\ target \in [Hart -> Hart]
    OBVIOUS
  <2>5. /\ scanned \in SUBSET Hart /\ domain_lock \in Hart \cup {NoHart}
        /\ start_lock \in Hart \cup {NoHart} /\ stop_lock \in Hart \cup {NoHart}
    OBVIOUS
  <2> QED
    BY <2>1, <2>2, <2>3, <2>4, <2>5 DEF TypeOK
<1>2. Locks
  BY DEF Locks
<1>3. Masks
  BY DEF Masks
<1>4. Current
  BY DEF Current
<1>5. Stopped /\ Marked /\ Scanned
  BY DEF Stopped, Marked, Scanned
<1> QED
  BY <1>1, <1>2, <1>3, <1>4, <1>5 DEF DomainInv

\* Traps, the hart's own stops, starts and sleeps are such steps.
LEMMA QuietSteps ==
  ASSUME DomainInv, NEW h \in Hart,
         \/ TrapTail(h) \/ ForceStop(h) \/ HartWait(h) \/ WaitLoop(h) \/ HartEnter(h)
         \/ StartedCheck(h) \/ Started(h) \/ Resume(h) \/ Trap(h) \/ TrapIpi(h)
         \/ HartStop(h) \/ Wake(h) \/ WakeNonRetentive(h)
         \/ (\E r \in BOOLEAN : Suspend(h, r)) \/ (\E t \in Hart : HartStart(h, t))
  PROVE  DomainInv'
<1>t. TypeOK /\ Stopped
  BY DEF DomainInv
<1> USE DEF Quiet, Goto, SetState, members, locks, call, TypeOK, Stopped, Label, State, Moving,
            Stops, InDomain
<1>1. ASSUME TrapTail(h)
      PROVE  Quiet(h, IF stopping[domain[h]] THEN "stop_self" ELSE "smode", hsm_state[h])
  BY <1>t, <1>1 DEF TrapTail
<1>2. ASSUME ForceStop(h) PROVE Quiet(h, "stopped", "STOP_PENDING")
  BY <1>t, <1>2 DEF ForceStop
<1>3. ASSUME HartWait(h) PROVE Quiet(h, "loop", "STOPPED")
  BY <1>t, <1>3 DEF HartWait
<1>4. ASSUME WaitLoop(h) PROVE Quiet(h, "enter", hsm_state[h])
  BY <1>t, <1>4 DEF WaitLoop
<1>5. ASSUME HartEnter(h) PROVE Quiet(h, "ctx_started", hsm_state[h])
  BY <1>t, <1>5 DEF HartEnter
<1>6. ASSUME StartedCheck(h)
      PROVE  Quiet(h, IF stopping[domain[h]] THEN "stop_self" ELSE "started", hsm_state[h])
  BY <1>t, <1>6 DEF StartedCheck
<1>7. ASSUME Started(h) PROVE Quiet(h, "smode", "STARTED")
  BY <1>t, <1>7 DEF Started
<1>8. ASSUME Resume(h) PROVE Quiet(h, "ctx_started", "RESUME_PENDING")
  BY <1>t, <1>8 DEF Resume
<1>9. ASSUME Trap(h) PROVE Quiet(h, "tail", hsm_state[h])
  BY <1>t, <1>9 DEF Trap
<1>10. ASSUME TrapIpi(h) PROVE Quiet(h, "tail", hsm_state[h])
  BY <1>t, <1>10 DEF TrapIpi
<1>11. ASSUME HartStop(h) PROVE Quiet(h, "stopped", "STOP_PENDING")
  BY <1>t, <1>11 DEF HartStop
<1>12. ASSUME Wake(h) PROVE Quiet(h, "tail", "STARTED")
  BY <1>t, <1>12 DEF Wake
<1>13. ASSUME WakeNonRetentive(h)
      PROVE  Quiet(h, IF stopping[domain[h]] THEN "stop_self" ELSE "resume", hsm_state[h])
  BY <1>t, <1>13 DEF WakeNonRetentive
<1>14. ASSUME NEW r \in BOOLEAN, Suspend(h, r)
      PROVE  Quiet(h, IF r THEN "sleep" ELSE "sleep_nonret", "SUSPENDED")
  BY <1>t, <1>14 DEF Suspend
<1>15. ASSUME NEW t \in Hart, HartStart(h, t) PROVE Quiet(h, "boot", hsm_state[h])
  BY <1>t, <1>15 DEF HartStart
<1> HIDE DEF Quiet
<1> QED
  BY <1>1, <1>2, <1>3, <1>4, <1>5, <1>6, <1>7, <1>8, <1>9, <1>10, <1>11, <1>12, <1>13, <1>14, <1>15, QuietStep, Zenon

\* domain_enter() and the bridge's domain_switch_to().
LEMMA EnterStep ==
  ASSUME DomainInv, NEW h \in Hart, NEW d \in Domain, NEW quiet \in BOOLEAN, Enter(h, d, quiet)
  PROVE  DomainInv'
<1>1. TypeOK
  BY DEF DomainInv
<1>2. caller' \in [Domain -> [Hart -> Domain \cup {NoDomain}]]
  BY <1>1 DEF Enter, TypeOK
<1>3. /\ ctx' = [ctx EXCEPT ![domain[h]][h] = "CALLING"]
      /\ parked' = [parked EXCEPT ![domain[h]] = IF "CALLING" = "NONE" THEN @ ELSE @ \cup {h}]
  BY DEF Enter, Park
<1>4. PICK fresh \in BOOLEAN : Switch(h, d, fresh, "tail")
  BY DEF Enter
<1>5. pc[h] = "smode" /\ d # domain[h] /\ ~stopping[domain[h]] /\ ~stopping[d]
  BY DEF Enter
<1> QED
  BY <1>2, <1>3, <1>4, <1>5, SwitchStep

\* leave(): a hart of a domain that is being stopped stays.
LEMMA LeaveStep ==
  ASSUME DomainInv, NEW h \in Hart, NEW d \in Domain, NEW boots \in BOOLEAN, LeaveFor(h, d, boots),
         pc[h] = "smode", d # domain[h], ~stopping[d] \/ ctx[d][h] = "CALLING"
  PROVE  DomainInv'
<1>1. TypeOK
  BY DEF DomainInv
<1> DEFINE T == [Domain -> [Hart -> Domain \cup {NoDomain}]]
           to == [caller EXCEPT ![d][h] = IF boots THEN NoDomain ELSE @]
<1>t. /\ [caller EXCEPT ![d][h] = NoDomain] \in T
      /\ [caller EXCEPT ![domain[h]][h] = NoDomain] \in T
      /\ domain[h] \in Domain /\ caller \in T
  BY <1>1 DEF TypeOK
<1>u. to \in T
  <2>1. CASE boots
    BY <1>t, <2>1
  <2>2. CASE ~boots
    <3>1. to = caller
      BY <1>t, <2>2
    <3> QED
      BY <1>t, <3>1
  <2> QED
    BY <2>1, <2>2
<1> HIDE DEF to
<1>2. CASE stopping[domain[h]]
  <2>1. caller' \in T
    BY <1>2, <1>t DEF LeaveFor
  <2> QED
    <3>1. hsm_state[h] # "STOPPED"
      BY DEF DomainInv, Stopped
    <3>2. Quiet(h, "tail", hsm_state[h])
      BY <1>1, <1>2, <2>1, <3>1 DEF LeaveFor, Quiet, TypeOK, members, call, locks, Label, Moving, Stops,
         InDomain
    <3> QED
      BY <3>2, QuietStep
<1>3. CASE ~stopping[domain[h]]
  <2>1. caller' \in T
    <3>1. caller' = [to EXCEPT ![domain[h]][h] = NoDomain]
      BY <1>3, Zenon DEF LeaveFor, to
    <3> QED
      BY <1>t, <1>u, <3>1
  <2>2. /\ ctx' = [ctx EXCEPT ![domain[h]][h] = "IDLE"]
        /\ parked' = [parked EXCEPT ![domain[h]] = IF "IDLE" = "NONE" THEN @ ELSE @ \cup {h}]
        /\ Switch(h, d, boots, "tail")
    BY <1>3 DEF LeaveFor, Park
  <2> QED
    BY <1>3, <2>1, <2>2, SwitchStep
<1> QED
  BY <1>2, <1>3

\* domain_exit() and domain_switch_back(): the caller's context waits, so it is
\* not the one the hart runs.
LEMMA ExitStep ==
  ASSUME DomainInv, NEW h \in Hart, Exit(h) \/ SwitchBack(h)
  PROVE  DomainInv'
<1> DEFINE c == caller[domain[h]][h]
<1>1. TypeOK /\ Current /\ pc[h] = "smode"
  BY DEF DomainInv, Exit, SwitchBack
<1>2. CallerWaits(h) => c \in Domain /\ c # domain[h] /\ ctx[c][h] = "CALLING"
  BY <1>1 DEF CallerWaits, TypeOK, Current, InDomain
<1>3. CASE CallerWaits(h) /\ LeaveFor(h, c, FALSE)
  BY <1>1, <1>2, <1>3, LeaveStep
<1>4. ASSUME NEW d \in Domain, CanBoot(h, d), LeaveFor(h, d, TRUE) PROVE DomainInv'
  BY <1>1, <1>4, LeaveStep DEF CanBoot
<1>5. ASSUME NEW d \in Domain, CanBootFirst(h, d), LeaveFor(h, d, TRUE) PROVE DomainInv'
  BY <1>1, <1>5, LeaveStep DEF CanBootFirst
<1>6. CASE Exit(h)
  BY <1>3, <1>4, <1>6 DEF Exit, Chained
<1>7. CASE SwitchBack(h)
  <2>1. PICK b \in Bridge :
          \/ CallerWaits(h) /\ LeaveFor(h, c, FALSE)
          \/ CanBootFirst(h, b[1]) /\ LeaveFor(h, b[1], TRUE)
    BY <1>7 DEF SwitchBack
  <2>2. b[1] \in Domain
    BY DomainAssumption
  <2> QED
    BY <1>3, <1>5, <2>1, <2>2
<1> QED
  BY <1>6, <1>7

\* domain_stop_self(): back to the caller that waits, or on to the wait loop.
LEMMA StopSelfStep ==
  ASSUME DomainInv, NEW h \in Hart, StopSelf(h)
  PROVE  DomainInv'
<1>1. TypeOK /\ Current /\ pc[h] = "stop_self"
  BY DEF DomainInv, StopSelf
<1>2. /\ ctx' = [ctx EXCEPT ![domain[h]][h] = "NONE"]
      /\ caller' \in [Domain -> [Hart -> Domain \cup {NoDomain}]]
  BY <1>1 DEF StopSelf, TypeOK
<1>3. CASE CallerWaits(h)
  <2> DEFINE c == caller[domain[h]][h]
  <2>1. c \in Domain /\ ctx[c][h] = "CALLING"
    BY <1>1, <1>3 DEF CallerWaits, TypeOK
  <2>2. ctx[domain[h]][h] # "CALLING"
    BY <1>1 DEF Current, Waiting, Moving
  <2>3. Switch(h, c, FALSE, "smode")
    BY <1>3 DEF StopSelf
  <2>4. parked' = [parked EXCEPT ![domain[h]] = IF "NONE" = "NONE" THEN @ ELSE @ \cup {h}]
    BY <1>1 DEF StopSelf, TypeOK
  <2> QED
    BY <1>1, <1>2, <2>1, <2>2, <2>3, <2>4, SwitchStep
<1>4. CASE ~CallerWaits(h)
  <2>0. /\ pc' = [pc EXCEPT ![h] = "force_stop"]
        /\ UNCHANGED <<members, stopping, hsm_state, call, msip, locks>>
    BY <1>4 DEF StopSelf, members
  <2>u. /\ UNCHANGED <<assigned, parked, domain, stopping, hsm_state, dom, after, target>>
        /\ UNCHANGED <<scanned, msip>>
        /\ UNCHANGED <<domain_lock, start_lock, stop_lock>>
    BY <2>0 DEF members, call, locks
  <2>p. /\ pc' \in [Hart -> Label] /\ pc'[h] = "force_stop"
        /\ \A i \in Hart : i # h => pc'[i] = pc[i]
    BY <1>1, <2>0 DEF TypeOK, Label
  <2>c. /\ ctx' \in [Domain -> [Hart -> Context]]
        /\ ctx'[domain[h]][h] = "NONE"
        /\ \A d \in Domain : \A i \in Hart :
             d # domain[h] \/ i # h => ctx'[d][i] = ctx[d][i]
    BY <1>1, <1>2 DEF TypeOK, Context
  <2>d. domain[h] \in Domain /\ \A i \in Hart : dom[i] \in Domain
    BY <1>1 DEF TypeOK
  <2>1. TypeOK'
    <3>1. TypeOK
      BY <1>1
    <3> QED
      BY <1>2, <2>u, <2>p, <2>c, <3>1 DEF TypeOK
  <2>2. Locks'
    BY <1>1, <2>u, <2>p DEF DomainInv, Locks, Moving, Stops
  <2>3. Masks'
    <3> SUFFICES ASSUME NEW i \in Hart, NEW d \in Domain
                 PROVE  /\ i \in assigned[d] <=>
                             d = domain[i] /\ pc'[i] \notin {"restore_parked", "restore_set"}
                        /\ i \in parked[d] <=>
                             ctx'[d][i] \in Waiting /\ ~(pc'[i] = "restore_set" /\ d = dom[i])
      BY <2>u DEF Masks
    <3>0. /\ i \in assigned[d] <=>
               d = domain[i] /\ pc[i] \notin {"restore_parked", "restore_set"}
          /\ i \in parked[d] <=>
               ctx[d][i] \in Waiting /\ ~(pc[i] = "restore_set" /\ d = dom[i])
      BY DEF DomainInv, Masks
    <3>1. CASE i = h
      <4>1. ctx[domain[h]][h] \notin Waiting
        BY <1>1 DEF Current, Moving
      <4>2. ctx'[d][h] \in Waiting <=> ctx[d][h] \in Waiting
        BY <2>c, <4>1 DEF Waiting
      <4> QED
        BY <1>1, <2>p, <3>0, <3>1, <4>2
    <3>2. CASE i # h
      BY <2>p, <2>c, <3>0, <3>2
    <3> QED
      BY <3>1, <3>2
  <2>4. Current'
    <3> SUFFICES ASSUME NEW i \in Hart
                 PROVE  /\ \A d \in Domain :
                              ctx'[d][i] = "RUNNING" => d = domain[i] /\ pc'[i] \notin Moving
                        /\ pc'[i] \notin Moving => ctx'[domain[i]][i] \notin Waiting
                        /\ pc'[i] \in Moving => dom[i] # domain[i]
                        /\ pc'[i] \in InDomain => ctx'[domain[i]][i] = "RUNNING"
      BY <2>u DEF Current
    <3>1. CASE i = h
      <4>1. pc'[h] \notin Moving /\ pc'[h] \notin InDomain
        BY <2>p DEF Moving, Stops, InDomain
      <4>2. \A d \in Domain : ctx[d][h] = "RUNNING" => d = domain[h]
        BY <1>1 DEF Current
      <4>3. \A d \in Domain : ctx'[d][h] # "RUNNING"
        BY <2>c, <4>2
      <4> QED
        BY <2>c, <2>d, <3>1, <4>1, <4>3 DEF Waiting
    <3>2. CASE i # h
      BY <1>1, <2>p, <2>c, <3>2 DEF Current, TypeOK
    <3> QED
      BY <3>1, <3>2
  <2>5. Stopped'
    BY <1>1, <2>u, <2>p DEF DomainInv, Stopped
  <2>6. Marked'
    <3> SUFFICES ASSUME NEW g \in Hart, pc'[g] \in Stops \ {"ds_mark"}
                 PROVE  /\ stopping[dom[g]]
                        /\ \A i \in Hart : ctx'[dom[g]][i] \notin Waiting
                        /\ \A i \in Hart : pc'[i] \in Moving => dom[i] # dom[g]
                        /\ pc'[g] # "ds_barrier" =>
                             \A i \in Hart : pc'[i] = "boot_store" => domain[target[i]] # dom[g]
      BY <2>u DEF Marked
    <3>1. g # h /\ pc'[g] = pc[g] /\ Marked
      BY <2>p DEF Stops, DomainInv
    <3>2. \A i \in Hart : pc'[i] \in Moving \cup {"boot_store"} => pc'[i] = pc[i]
      BY <2>p DEF Moving
    <3>3. \A i \in Hart : ctx'[dom[g]][i] \notin Waiting
      <4>1. \A i \in Hart : ctx'[dom[g]][i] \in {"NONE", ctx[dom[g]][i]}
        BY <2>c, <2>d
      <4>2. \A i \in Hart : ctx[dom[g]][i] \notin Waiting
        BY <3>1 DEF Marked
      <4> QED
        BY <4>1, <4>2 DEF Waiting
    <3> QED
      BY <3>1, <3>2, <3>3 DEF Marked
  <2>7. Scanned'
    BY <1>1, <2>u, <2>p DEF DomainInv, Scanned
  <2> QED
    BY <2>1, <2>2, <2>3, <2>4, <2>5, <2>6, <2>7 DEF DomainInv
<1> QED
  BY <1>3, <1>4


\* Every step of a hart, one by one.
LEMMA NextDomainInv == DomainInv /\ [Next]_vars => DomainInv'
<1> SUFFICES ASSUME DomainInv, [Next]_vars PROVE DomainInv'
  OBVIOUS
<1>1. ASSUME NEW h \in Hart, MonitorStep(h) PROVE DomainInv'
  BY <1>1, RestoreStep, RestoreParkedStep, RestoreSetStep, StopSelfStep, QuietSteps,
     ContextStartedStep, HartBootStep, HartBootStoreStep, StopMarkStep, StopBarrierStep,
     StopKickStep, StopScanStep, StopScannedStep, StopDoneStep, Zenon DEF MonitorStep
<1>2. ASSUME NEW h \in Hart, SmodeStep(h) PROVE DomainInv'
  <2>1. ASSUME NEW d \in Domain, SwitchTo(h, d) PROVE DomainInv'
    BY <2>1, EnterStep DEF SwitchTo
  <2>2. ASSUME NEW d \in Domain, Enter(h, d, FALSE) PROVE DomainInv'
    BY <2>2, EnterStep
  <2> QED
    BY <1>2, <2>1, <2>2, ExitStep, QuietSteps, DomainStartStep, DomainStopStep, Zenon DEF SmodeStep
<1>3. ASSUME NEW h \in Hart, TrapIpi(h) \/ Wake(h) \/ WakeNonRetentive(h) PROVE DomainInv'
  BY <1>3, QuietSteps, Zenon
<1>4. CASE UNCHANGED vars
  <2> USE <1>4 DEF vars, DomainInv
  <2>1. TypeOK' /\ Locks'
    BY DEF TypeOK, Locks
  <2>2. Masks'
    BY DEF Masks
  <2>3. Current'
    BY DEF Current
  <2>4. Stopped' /\ Scanned'
    BY DEF Stopped, Scanned
  <2>5. Marked'
    BY DEF Marked
  <2> QED
    BY <2>1, <2>2, <2>3, <2>4, <2>5
<1> QED
  BY <1>1, <1>2, <1>3, <1>4 DEF Next

\* DomainInv holds of every state.
LEMMA DomainInvHolds == Spec => []DomainInv
  BY InitDomainInv, NextDomainInv, PTL DEF Spec

\* The types, for any number of harts and domains.
THEOREM DomainTypes == Spec => []TypeOK
<1>1. DomainInv => TypeOK
  BY DEF DomainInv
<1> QED
  BY <1>1, DomainInvHolds, PTL

\* The masks of members and of waiting contexts are true whenever the hart is not
\* in the middle of context_restore(), through every sequence of enters, exits,
\* starts and stops.
THEOREM MasksStayTrue == Spec => []MasksAreTrue
<1>1. DomainInv => MasksAreTrue
  BY DEF DomainInv, Locks, Masks, MasksAreTrue, Moving, Waiting
<1> QED
  BY <1>1, DomainInvHolds, PTL

\* A hart in S-mode runs its domain's context and no other context of it runs:
\* neither domain_start() nor domain_stop() of another hart takes it away.
THEOREM ContextIsItsOwn == Spec => []RunsItsContext
<1>1. DomainInv => RunsItsContext
  BY DEF DomainInv, TypeOK, Locks, Current, RunsItsContext, InDomain
<1> QED
  BY <1>1, DomainInvHolds, PTL

\* domain_stop() is done only when every other hart of the domain is stopped and
\* no context of it waits to go on.
THEOREM StopsAreComplete == Spec => []StopIsComplete
<1>1. DomainInv => StopIsComplete
  <2> SUFFICES ASSUME DomainInv, NEW h \in Hart, pc[h] = "ds_done"
               PROVE  /\ \A i \in assigned[dom[h]] \ {h} : hsm_state[i] = "STOPPED"
                      /\ \A i \in Hart : ctx[dom[h]][i] \in {"NONE", "RUNNING"}
    BY DEF StopIsComplete
  <2>1. \A i \in Hart : ctx[dom[h]][i] \in Context /\ ctx[dom[h]][i] \notin Waiting
    <3>1. \A i \in Hart : ctx[dom[h]][i] \in Context
      BY DEF DomainInv, TypeOK
    <3>2. \A i \in Hart : ctx[dom[h]][i] \notin Waiting
      BY DEF DomainInv, Marked, Stops
    <3> QED
      BY <3>1, <3>2
  <2>2. \A i \in assigned[dom[h]] \ {h} : hsm_state[i] = "STOPPED"
    BY DEF DomainInv, Scanned
  <2> QED
    BY <2>1, <2>2 DEF Context, Waiting
<1> QED
  BY <1>1, DomainInvHolds, PTL
===============================================================================
