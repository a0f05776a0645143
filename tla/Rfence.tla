--------------------------------- MODULE Rfence ---------------------------------
(***************************************************************************)
(* Remote fences, arch/riscv/runtime/rfence.c, on harts that start, stop   *)
(* and suspend (Hsm).  A requester queues an entry at each target, sends   *)
(* it an IPI, and waits until its count of entries still out, a variable   *)
(* on its stack that every entry points at, is zero.  Who waits serves its *)
(* own queue.  Each lock-protected section and each atomic access is a     *)
(* step; an entry is its requester (what is to be flushed is left out).    *)
(***************************************************************************)
EXTENDS Hsm, Sequences, FiniteSets, FiniteSetsExt

CONSTANTS QueueLen,   \* RFENCE_QUEUE_LEN
          NoHart      \* "no entry is being served"

ASSUME QueueAssumption == QueueLen \in Nat \ {0}
ASSUME NoHartAssumption == NoHart \notin Hart

VARIABLES queue,     \* [Hart -> Seq(Hart)]: entries[], by requester
          out,       \* [Hart -> Nat]: a requester's entries still out
          rpc,       \* [Hart -> where rfence_request() is]
          todo,      \* [Hart -> SUBSET Hart]: targets not asked yet
          draining,  \* [Hart -> BOOLEAN]: in rfence_process()
          inflight,  \* [Hart -> Hart or NoHart]: the entry it is serving
          targets,   \* history: the targets of the request
          fenced     \* history: the harts that fenced for it

fenceVars == <<queue, out, rpc, todo, draining, inflight, targets, fenced>>
vars == <<hsmVars, fenceVars>>

FenceInit ==
  /\ queue = [h \in Hart |-> <<>>]
  /\ out = [h \in Hart |-> 0]
  /\ rpc = [h \in Hart |-> "none"]
  /\ todo = [h \in Hart |-> {}]
  /\ draining = [h \in Hart |-> FALSE]
  /\ inflight = [h \in Hart |-> NoHart]
  /\ targets = [h \in Hart |-> {}]
  /\ fenced = [h \in Hart |-> {}]

\* Neither requesting nor serving: the hart does what Hsm says.
Idle(h) == rpc[h] = "none" /\ ~draining[h]
At(h, l) == rpc[h] = l /\ ~draining[h]
First(h, t) == t \in todo[h] /\ \A u \in todo[h] : t <= u   \* ascending, as for_each_hart_in_mask()
-------------------------------------------------------------------------------
(* rfence_request(), on behalf of S-mode *)

\* The ecall: S-mode names the harts in 'mask', sbi_hartmask() picks the ones
\* that run; the queues come after.
RfenceRequest(h, mask) ==
  /\ Idle(h) /\ pc[h] = "smode"
  /\ rpc' = [rpc EXCEPT ![h] = "next"]
  /\ targets' = [targets EXCEPT ![h] = {t \in mask : Interruptible(t)}]
  /\ todo' = [todo EXCEPT ![h] = targets'[h] \ {h}]
  /\ fenced' = [fenced EXCEPT ![h] = {}]
  /\ UNCHANGED <<hsmVars, queue, out, draining, inflight>>

\* enqueue(), under the queue's lock.
Enqueue(h) ==
  /\ At(h, "next")
  /\ \E t \in todo[h] :
       /\ First(h, t)
       /\ IF Len(queue[t]) < QueueLen
            THEN /\ queue' = [queue EXCEPT ![t] = Append(@, h)]
                 /\ out' = [out EXCEPT ![h] = @ + 1]
                 /\ rpc' = [rpc EXCEPT ![h] = "send"]
            ELSE /\ rpc' = [rpc EXCEPT ![h] = "full"]
                 /\ UNCHANGED <<queue, out>>
  /\ UNCHANGED <<hsmVars, todo, draining, inflight, targets, fenced>>

\* ... a hart that waits for room and does not serve its own queue ...
QueueFullSpins(h) ==
  /\ At(h, "full")
  /\ \E t \in todo[h] : First(h, t) /\ IpiSend(t, "RFENCE")
  /\ rpc' = [rpc EXCEPT ![h] = "next"]
  /\ UNCHANGED <<hsm_state, present, start, pc, callVars, ssip, told>>
  /\ UNCHANGED <<queue, out, todo, draining, inflight, targets, fenced>>

\* The target's queue is full: it is interrupted (again), and the hart looks
\* after its own IPIs before it tries again.
QueueFull(h) ==
  /\ At(h, "full")
  /\ \E t \in todo[h] : First(h, t) /\ IpiSend(t, "RFENCE")
  /\ rpc' = [rpc EXCEPT ![h] = "full_poll"]
  /\ UNCHANGED <<hsm_state, present, start, pc, callVars, ssip, told>>
  /\ UNCHANGED <<queue, out, todo, draining, inflight, targets, fenced>>

SendIpi(h) ==
  /\ At(h, "send")
  /\ \E t \in todo[h] : /\ First(h, t)
                        /\ IpiSend(t, "RFENCE")
                        /\ todo' = [todo EXCEPT ![h] = @ \ {t}]
  /\ rpc' = [rpc EXCEPT ![h] = "next"]
  /\ UNCHANGED <<hsm_state, present, start, pc, callVars, ssip, told>>
  /\ UNCHANGED <<queue, out, draining, inflight, targets, fenced>>

\* All targets have theirs: the hart's own part.
FenceSelf(h) ==
  /\ At(h, "next") /\ todo[h] = {}
  /\ rpc' = [rpc EXCEPT ![h] = "wait"]
  /\ fenced' = [fenced EXCEPT ![h] = @ \cup (targets[h] \cap {h})]
  /\ UNCHANGED <<hsmVars, queue, out, todo, draining, inflight, targets>>

\* The wait: rfence_process(), then ipi_process(), then another look.
WaitServe(h) ==
  /\ At(h, "wait") /\ out[h] # 0
  /\ rpc' = [rpc EXCEPT ![h] = "wait_poll"]
  /\ draining' = [draining EXCEPT ![h] = TRUE]
  /\ UNCHANGED <<hsmVars, queue, out, todo, inflight, targets, fenced>>

\* ipi_process() of either wait.
RequestPoll(h) ==
  /\ rpc[h] \in {"full_poll", "wait_poll"} /\ ~draining[h]
  /\ IpiProcess(h)
  /\ rpc' = [rpc EXCEPT ![h] = IF @ = "full_poll" THEN "next" ELSE "wait"]
  /\ draining' = [draining EXCEPT ![h] = "RFENCE" \in ipi_pending[h]]
  /\ UNCHANGED <<hsm_state, present, start, pc, callVars, told>>
  /\ UNCHANGED <<queue, out, todo, inflight, targets, fenced>>

\* SBI_SUCCESS; the stack frame with the count is gone.
RfenceReturn(h) ==
  /\ At(h, "wait") /\ out[h] = 0
  /\ rpc' = [rpc EXCEPT ![h] = "none"]
  /\ targets' = [targets EXCEPT ![h] = {}]
  /\ fenced' = [fenced EXCEPT ![h] = {}]
  /\ UNCHANGED <<hsmVars, queue, out, todo, draining, inflight>>
-------------------------------------------------------------------------------
(* rfence_process() *)

\* ... and one less for the requester before the fence.
PopCounts(h) ==
  /\ draining[h] /\ inflight[h] = NoHart
  /\ IF queue[h] = <<>>
       THEN /\ draining' = [draining EXCEPT ![h] = FALSE]
            /\ UNCHANGED <<queue, inflight, out>>
       ELSE /\ inflight' = [inflight EXCEPT ![h] = Head(queue[h])]
            /\ queue' = [queue EXCEPT ![h] = Tail(@)]
            /\ out' = [out EXCEPT ![Head(queue[h])] = @ - 1]
            /\ UNCHANGED draining
  /\ UNCHANGED <<hsmVars, rpc, todo, targets, fenced>>

\* Under the queue's lock: the head, or nothing left.
Pop(h) ==
  /\ draining[h] /\ inflight[h] = NoHart
  /\ IF queue[h] = <<>>
       THEN /\ draining' = [draining EXCEPT ![h] = FALSE]
            /\ UNCHANGED <<queue, inflight>>
       ELSE /\ inflight' = [inflight EXCEPT ![h] = Head(queue[h])]
            /\ queue' = [queue EXCEPT ![h] = Tail(@)]
            /\ UNCHANGED draining
  /\ UNCHANGED <<hsmVars, out, rpc, todo, targets, fenced>>

\* fence_local(), then one less for the requester.
FenceLocal(h) ==
  /\ inflight[h] # NoHart
  /\ fenced' = [fenced EXCEPT ![inflight[h]] = @ \cup {h}]
  /\ out' = [out EXCEPT ![inflight[h]] = @ - 1]
  /\ inflight' = [inflight EXCEPT ![h] = NoHart]
  /\ UNCHANGED <<hsmVars, queue, rpc, todo, draining, targets>>
-------------------------------------------------------------------------------
(* Hsm's steps: an ipi_process() serves the queue when there is an RFENCE    *)
(* event, and the wait loop serves it once more on the way down.             *)
HsmIpiStep(h) ==
  /\ Idle(h) /\ IpiStep(h)
  /\ draining' = [draining EXCEPT ![h] = "RFENCE" \in ipi_pending[h]]
  /\ UNCHANGED <<queue, out, rpc, todo, inflight, targets, fenced>>

HsmWaitLoopInit(h) ==
  /\ Idle(h) /\ WaitLoopInit(h)
  /\ draining' = [draining EXCEPT ![h] = TRUE]
  /\ UNCHANGED <<queue, out, rpc, todo, inflight, targets, fenced>>

HsmMonitorStep(h) == Idle(h) /\ MonitorStep(h) /\ UNCHANGED fenceVars

HsmOutsideStep(h) == Idle(h) /\ OutsideStep(h) /\ UNCHANGED fenceVars

FenceStep(h) ==
  \/ Enqueue(h) \/ QueueFull(h) \/ SendIpi(h) \/ FenceSelf(h) \/ WaitServe(h)
  \/ RequestPoll(h) \/ RfenceReturn(h) \/ Pop(h) \/ FenceLocal(h)

HartStep(h) == FenceStep(h) \/ HsmIpiStep(h) \/ HsmWaitLoopInit(h) \/ HsmMonitorStep(h)

FenceNext ==
  \E h \in Hart : HartStep(h) \/ HsmOutsideStep(h)
                  \/ \E mask \in SUBSET Hart : RfenceRequest(h, mask)

(***************************************************************************)
(* Harts that do nothing but fence, all of them each time, until one stops *)
(* for good: no hart begins again with a clean slate.                      *)
(***************************************************************************)
LastStops(h) == h = N - 1 /\ Idle(h) /\ HartStop(h) /\ UNCHANGED fenceVars

FencingNext == \E h \in Hart : HartStep(h) \/ LastStops(h) \/ RfenceRequest(h, Hart)

\* All harts run S-mode.
InitRunning ==
  /\ hsm_state = [h \in Hart |-> "STARTED"]
  /\ present = [h \in Hart |-> TRUE]
  /\ start = [h \in Hart |-> NoArg]
  /\ pc = [h \in Hart |-> "smode"]
  /\ target = [h \in Hart |-> h]
  /\ kind = [h \in Hart |-> "RET"]
  /\ scan = [h \in Hart |-> 0]
  /\ msip = [h \in Hart |-> FALSE]
  /\ ipi_pending = [h \in Hart |-> {}]
  /\ ssip = [h \in Hart |-> FALSE]
  /\ told = [h \in Hart |-> FALSE]
  /\ FenceInit

(***************************************************************************)
(* A hart in the monitor gets on and takes a raised interrupt; S-mode      *)
(* traps between two of its calls, hence the strong fairness.              *)
(***************************************************************************)
FenceFairness ==
  \A h \in Hart : /\ WF_vars(FenceStep(h))
                  /\ WF_vars(HsmMonitorStep(h) \/ HsmWaitLoopInit(h))
                  /\ SF_vars(HsmIpiStep(h))

WakeFairness ==
  \A h \in Hart : WF_vars(Idle(h) /\ msip[h] /\ PowerWake(h) /\ UNCHANGED fenceVars)

FenceSpec == Init /\ FenceInit /\ [][FenceNext]_vars

RunningSpec == InitRunning /\ [][FenceNext]_vars

FairRunningSpec == RunningSpec /\ FenceFairness /\ WakeFairness

FairFencingSpec == InitRunning /\ [][FencingNext]_vars /\ FenceFairness
-------------------------------------------------------------------------------
RpcLabel == {"none", "next", "full", "full_poll", "send", "wait", "wait_poll"}

FenceTypeOK ==
  /\ queue \in [Hart -> Seq(Hart)]
  /\ out \in [Hart -> Nat]
  /\ rpc \in [Hart -> RpcLabel]
  /\ todo \in [Hart -> SUBSET Hart]
  /\ draining \in [Hart -> BOOLEAN]
  /\ inflight \in [Hart -> Hart \cup {NoHart}]
  /\ targets \in [Hart -> SUBSET Hart]
  /\ fenced \in [Hart -> SUBSET Hart]

Queued(r, t) == \E i \in 1 .. Len(queue[t]) : queue[t][i] = r
Owes(t, r) == Queued(r, t) \/ inflight[t] = r
Owing(r) == {t \in Hart : Owes(t, r)}

(***************************************************************************)
(* The count every entry points at is exact: it is the number of harts     *)
(* that have the request queued or are serving it, through every order of  *)
(* enqueue(), rfence_process() and the waits, and across hart stops and    *)
(* restarts.                                                               *)
(***************************************************************************)
OutIsExact == \A r \in Hart : out[r] = Cardinality(Owing(r))

(***************************************************************************)
(* "The requester's stack: not to be touched after this" (rfence.c): while *)
(* any hart holds an entry, its requester is still in rfence_request(), so *)
(* the count it points at exists.                                          *)
(***************************************************************************)
CountIsAlive ==
  \A r, t \in Hart : Owes(t, r) =>
    rpc[r] \in {"next", "full", "full_poll", "send", "wait", "wait_poll"}

(***************************************************************************)
(* A request that returns was carried out: every hart picked as a target   *)
(* has fenced for this request, whatever it did in the meantime (other     *)
(* requests, a stop, a suspend).                                           *)
(***************************************************************************)
FencedOnReturn ==
  \A r \in Hart : rpc[r] \in {"wait", "wait_poll"} /\ out[r] = 0 => targets[r] \subseteq fenced[r]

(***************************************************************************)
(* The queue of a hart never holds more than RFENCE_QUEUE_LEN entries, nor *)
(* two of the same requester: one hart's share of it is one entry.         *)
(***************************************************************************)
QueueBounded ==
  \A t \in Hart : /\ Len(queue[t]) <= QueueLen
                  /\ \A i, j \in 1 .. Len(queue[t]) : queue[t][i] = queue[t][j] => i = j

\* What the four need to be inductive.  An entry is its requester's only one
\* with that hart, for one of the targets that are done with or the one that
\* is to be sent its IPI ...
Asked(r, t) == t \in targets[r] \ {r} /\ (t \in todo[r] => rpc[r] = "send" /\ First(r, t))

EntriesAreAsked ==
  \A r, t \in Hart : /\ Owes(t, r) => rpc[r] # "none" /\ Asked(r, t)
                     /\ inflight[t] = r => ~Queued(r, t)

\* ... and every hart asked still has it, or has fenced.
AskedOweOrFenced ==
  \A r \in Hart :
    /\ todo[r] \subseteq targets[r] \ {r}
    /\ rpc[r] # "none" => \A t \in Hart : Asked(r, t) => Owes(t, r) \/ t \in fenced[r]
    /\ rpc[r] \in {"wait", "wait_poll"} => todo[r] = {} /\ (r \in targets[r] => r \in fenced[r])

FenceInv ==
  /\ FenceTypeOK /\ QueueBounded /\ OutIsExact
  /\ EntriesAreAsked /\ AskedOweOrFenced

(***************************************************************************)
(* "harts fencing each other cannot deadlock" (docs/sbi.md, rfence.c):     *)
(* once S-mode makes no new requests, all those under way return.          *)
(* (While it makes them without end, rfence_process() may keep finding a   *)
(* new entry and its caller never leave it.)                               *)
(***************************************************************************)
NoMoreRequests == <>[][\A h \in Hart : rpc[h] = "none" => rpc'[h] = "none"]_rpc

FenceReturns == NoMoreRequests => <>[](\A r \in Hart : rpc[r] = "none")
=================================================================================
