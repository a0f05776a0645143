------------------------------ MODULE RfenceProofs ------------------------------
(***************************************************************************)
(* Proofs about remote fences (Rfence), for any number of harts and any    *)
(* queue length: the count on the requester's stack is exact, it is only   *)
(* used while it exists, a request that returns was carried out by every   *)
(* target, and no queue overflows.  FenceInv is the inductive invariant;   *)
(* what Hsm's harts do only matters in that it leaves the queues alone.    *)
(***************************************************************************)
EXTENDS Rfence, FiniteSetTheorems, TLAPS

\* What enqueue() does to a queue: one more entry, the new one.
LEMMA AppendEntry ==
  ASSUME NEW S, NEW q \in Seq(S), NEW r \in S
  PROVE  /\ Append(q, r) \in Seq(S)
         /\ Len(Append(q, r)) = Len(q) + 1
         /\ \A i \in 1 .. Len(q) : Append(q, r)[i] = q[i]
         /\ Append(q, r)[Len(q) + 1] = r
  OBVIOUS

\* What rfence_process() does to one: the oldest entry goes.
LEMMA TailEntry ==
  ASSUME NEW S, NEW q \in Seq(S), q # <<>>
  PROVE  /\ Len(q) \in Nat \ {0}
         /\ Head(q) = q[1] /\ Head(q) \in S
         /\ Tail(q) \in Seq(S)
         /\ Len(Tail(q)) = Len(q) - 1
         /\ \A i \in 1 .. Len(q) - 1 : Tail(q)[i] = q[i + 1]
  OBVIOUS

\* The harts are finitely many, so the ones that owe a requester are.
LEMMA OwingIsFinite == \A r \in Hart : IsFiniteSet(Owing(r))
<1>1. IsFiniteSet(Hart)
  BY FS_Interval, HartAssumption DEF Hart
<1> QED
  BY <1>1, FS_Subset DEF Owing

\* At the start nobody owes anything.
LEMMA InitFenceInv == FenceInit => FenceInv
<1> SUFFICES ASSUME FenceInit PROVE FenceInv
  OBVIOUS
<1> USE NoHartAssumption, QueueAssumption DEF FenceInit
<1>1. FenceTypeOK
  BY DEF FenceTypeOK, RpcLabel
<1>2. \A r, t \in Hart : ~Owes(t, r)
  BY DEF Owes, Queued
<1>3. QueueBounded
  BY DEF QueueBounded
<1>4. OutIsExact
  <2>1. \A r \in Hart : Owing(r) = {}
    BY <1>2 DEF Owing
  <2> QED
    BY <2>1, FS_EmptySet DEF OutIsExact
<1>5. EntriesAreAsked
  BY <1>2 DEF EntriesAreAsked
<1>6. AskedOweOrFenced
  BY DEF AskedOweOrFenced
<1> QED
  BY <1>1, <1>3, <1>4, <1>5, <1>6 DEF FenceInv

\* A step that leaves the queues, the counts and the requests as they are.
LEMMA FenceFrame ==
  ASSUME FenceInv, UNCHANGED <<queue, out, rpc, todo, inflight, targets, fenced>>,
         draining' \in [Hart -> BOOLEAN]
  PROVE  FenceInv'
<1>1. FenceTypeOK'
  BY DEF FenceInv, FenceTypeOK
<1>2. QueueBounded'
  BY DEF FenceInv, QueueBounded
<1>3. \A r, t \in Hart : /\ Owes(t, r)' <=> Owes(t, r)
                         /\ Queued(r, t)' <=> Queued(r, t)
                         /\ Asked(r, t)' <=> Asked(r, t)
  BY DEF Owes, Queued, Asked, First
<1>4. OutIsExact'
  <2>1. \A r \in Hart : Owing(r)' = Owing(r)
    BY <1>3 DEF Owing
  <2> QED
    BY <2>1 DEF FenceInv, OutIsExact
<1>5. EntriesAreAsked'
  BY <1>3 DEF FenceInv, EntriesAreAsked
<1>6. AskedOweOrFenced'
  BY <1>3 DEF FenceInv, AskedOweOrFenced
<1> QED
  BY <1>1, <1>2, <1>4, <1>5, <1>6 DEF FenceInv

\* Hsm's steps are such steps.
LEMMA HsmStepFenceInv ==
  ASSUME FenceInv, NEW h \in Hart,
         HsmIpiStep(h) \/ HsmWaitLoopInit(h) \/ HsmMonitorStep(h) \/ HsmOutsideStep(h)
  PROVE  FenceInv'
<1>1. draining \in [Hart -> BOOLEAN]
  BY DEF FenceInv, FenceTypeOK
<1>2. UNCHANGED <<queue, out, rpc, todo, inflight, targets, fenced>>
  BY DEF HsmIpiStep, HsmWaitLoopInit, HsmMonitorStep, HsmOutsideStep, fenceVars
<1>3. draining' \in [Hart -> BOOLEAN]
  <2>1. CASE HsmIpiStep(h)
    <3>1. ("RFENCE" \in ipi_pending[h]) \in BOOLEAN
      OBVIOUS
    <3> QED
      BY <1>1, <2>1, <3>1, Zenon DEF HsmIpiStep
  <2>2. CASE HsmWaitLoopInit(h)
    BY <1>1, <2>2 DEF HsmWaitLoopInit
  <2>3. CASE HsmMonitorStep(h) \/ HsmOutsideStep(h)
    BY <1>1, <2>3 DEF HsmMonitorStep, HsmOutsideStep, fenceVars
  <2> QED
    BY <2>1, <2>2, <2>3
<1> QED
  BY <1>2, <1>3, FenceFrame

\* A step of rfence_request() that leaves every queue as it is.
LEMMA OwesFrame ==
  ASSUME FenceInv, UNCHANGED <<queue, out, inflight>>
  PROVE  /\ QueueBounded' /\ OutIsExact'
         /\ \A r, t \in Hart : (Owes(t, r)' <=> Owes(t, r)) /\ (Queued(r, t)' <=> Queued(r, t))
<1>1. QueueBounded'
  BY DEF FenceInv, QueueBounded
<1>2. \A r, t \in Hart : (Owes(t, r)' <=> Owes(t, r)) /\ (Queued(r, t)' <=> Queued(r, t))
  BY DEF Owes, Queued
<1>3. \A r \in Hart : Owing(r)' = Owing(r)
  BY <1>2 DEF Owing
<1> QED
  BY <1>1, <1>2, <1>3 DEF FenceInv, OutIsExact

\* A new request: its requester had none, so no entry is its.
LEMMA RfenceRequestFenceInv ==
  ASSUME FenceInv, NEW h \in Hart, NEW mask \in SUBSET Hart, RfenceRequest(h, mask)
  PROVE  FenceInv'
<1> USE DEF RfenceRequest, Idle
<1>1. FenceTypeOK'
  BY DEF FenceInv, FenceTypeOK, RpcLabel
<1>2. /\ QueueBounded' /\ OutIsExact'
      /\ \A r, t \in Hart : (Owes(t, r)' <=> Owes(t, r)) /\ (Queued(r, t)' <=> Queued(r, t))
  BY OwesFrame
<1>3. \A t \in Hart : ~Owes(t, h) /\ ~Asked(h, t)'
  BY DEF FenceInv, FenceTypeOK, EntriesAreAsked, Asked
<1>4. \A r, t \in Hart : r # h => (Asked(r, t)' <=> Asked(r, t))
  BY DEF FenceInv, FenceTypeOK, Asked, First
<1>5. EntriesAreAsked'
  BY <1>2, <1>3, <1>4 DEF FenceInv, FenceTypeOK, EntriesAreAsked
<1>6. AskedOweOrFenced'
  BY <1>2, <1>3, <1>4 DEF FenceInv, FenceTypeOK, AskedOweOrFenced
<1> QED
  BY <1>1, <1>2, <1>5, <1>6 DEF FenceInv

\* An entry goes to the first target left, which has none of this requester:
\* one more hart owes it.
LEMMA EnqueueFenceInv ==
  ASSUME FenceInv, NEW h \in Hart, Enqueue(h)
  PROVE  FenceInv'
<1> USE DEF At
<1>1. PICK t \in todo[h] :
        /\ First(h, t)
        /\ IF Len(queue[t]) < QueueLen
             THEN /\ queue' = [queue EXCEPT ![t] = Append(@, h)]
                  /\ out' = [out EXCEPT ![h] = @ + 1]
                  /\ rpc' = [rpc EXCEPT ![h] = "send"]
             ELSE /\ rpc' = [rpc EXCEPT ![h] = "full"]
                  /\ UNCHANGED <<queue, out>>
  BY DEF Enqueue
<1>2. t \in Hart /\ queue[t] \in Seq(Hart) /\ rpc[h] = "next"
      /\ UNCHANGED <<todo, draining, inflight, targets, fenced>>
  BY DEF FenceInv, FenceTypeOK, Enqueue
<1>3. ~Owes(t, h)
  BY <1>2 DEF FenceInv, EntriesAreAsked, Asked
<1>4. CASE Len(queue[t]) < QueueLen
  <2>1. /\ queue' = [queue EXCEPT ![t] = Append(queue[t], h)]
        /\ out' = [out EXCEPT ![h] = out[h] + 1]
        /\ rpc' = [rpc EXCEPT ![h] = "send"]
    BY <1>1, <1>4
  <2>2. /\ Append(queue[t], h) \in Seq(Hart)
        /\ Len(queue[t]) \in Nat
        /\ Len(Append(queue[t], h)) = Len(queue[t]) + 1
        /\ \A i \in 1 .. Len(queue[t]) : Append(queue[t], h)[i] = queue[t][i]
        /\ Append(queue[t], h)[Len(queue[t]) + 1] = h
    BY <1>2, AppendEntry
  <2>3. FenceTypeOK'
    BY <1>2, <2>1, <2>2 DEF FenceInv, FenceTypeOK, RpcLabel
  <2>4. /\ Len(queue[t]) \in Nat
        /\ Len(queue'[t]) = Len(queue[t]) + 1
        /\ \A i \in 1 .. Len(queue[t]) : queue'[t][i] = queue[t][i]
        /\ queue'[t][Len(queue[t]) + 1] = h
        /\ \A u \in Hart : u # t => queue'[u] = queue[u]
    <3>1. /\ queue'[t] = Append(queue[t], h)
          /\ \A u \in Hart : u # t => queue'[u] = queue[u]
      BY <1>2, <2>1 DEF FenceInv, FenceTypeOK
    <3> QED
      BY <2>2, <3>1, Zenon
  <2>5. QueueBounded'
    <3>1. \A i \in 1 .. Len(queue[t]) : queue[t][i] # h
      BY <1>3 DEF Owes, Queued
    <3>2. \A i \in 1 .. Len(queue'[t]) : i \in 1 .. Len(queue[t]) \/ i = Len(queue[t]) + 1
      BY <2>4
    <3>3. Len(queue'[t]) <= QueueLen
      BY <1>4, <2>4, QueueAssumption
    <3>4. \A i, j \in 1 .. Len(queue[t]) : queue[t][i] = queue[t][j] => i = j
      BY <1>2 DEF FenceInv, QueueBounded
    <3>5. ASSUME NEW i \in 1 .. Len(queue'[t]), NEW j \in 1 .. Len(queue'[t]),
                 queue'[t][i] = queue'[t][j]
          PROVE  i = j
      <4>1. CASE i \in 1 .. Len(queue[t]) /\ j \in 1 .. Len(queue[t])
        BY <2>4, <3>4, <3>5, <4>1, Zenon
      <4>2. CASE i = Len(queue[t]) + 1 \/ j = Len(queue[t]) + 1
        BY <2>4, <3>1, <3>2, <3>5, <4>2, Zenon
      <4> QED
        BY <3>2, <4>1, <4>2, Zenon
    <3> QED
      BY <1>2, <2>4, <3>3, <3>5 DEF FenceInv, QueueBounded
  <2>6. /\ Queued(h, t)'
        /\ \A r, u \in Hart : r # h \/ u # t => (Queued(r, u)' <=> Queued(r, u))
    <3>1. Queued(h, t)'
      <4>1. Len(queue[t]) + 1 \in 1 .. Len(queue'[t])
        BY <2>4
      <4> QED
        BY <2>4, <4>1 DEF Queued
    <3>2. \A r, u \in Hart : u # t => (Queued(r, u)' <=> Queued(r, u))
      BY <2>4 DEF Queued
    <3>3. \A i : i \in 1 .. Len(queue'[t]) <=> i \in 1 .. Len(queue[t]) \/ i = Len(queue[t]) + 1
      BY <2>4
    <3>4. \A r \in Hart : r # h => (Queued(r, t)' <=> Queued(r, t))
      BY <2>4, <3>3 DEF Queued
    <3> QED
      BY <3>1, <3>2, <3>4
  <2>7. /\ Owes(t, h)'
        /\ \A r, u \in Hart : r # h \/ u # t => (Owes(u, r)' <=> Owes(u, r))
    BY <1>2, <2>6 DEF Owes
  <2>8. OutIsExact'
    <3>1. Owing(h)' = Owing(h) \cup {t} /\ t \notin Owing(h)
      BY <1>2, <1>3, <2>7 DEF Owing
    <3>2. \A r \in Hart : r # h => Owing(r)' = Owing(r)
      BY <2>7 DEF Owing
    <3>3. Cardinality(Owing(h) \cup {t}) = Cardinality(Owing(h)) + 1
      BY <3>1, OwingIsFinite, FS_AddElement
    <3> QED
      BY <2>1, <3>1, <3>2, <3>3 DEF FenceInv, FenceTypeOK, OutIsExact
  <2>9. /\ Asked(h, t)' /\ ~Asked(h, t)
        /\ \A r, u \in Hart : r # h \/ u # t => (Asked(r, u)' <=> Asked(r, u))
    <3>1. Asked(h, t)' /\ ~Asked(h, t)
      BY <1>1, <1>2, <2>1 DEF FenceInv, FenceTypeOK, AskedOweOrFenced, Asked, First
    <3>2. \A u \in Hart : u # t => (Asked(h, u)' <=> Asked(h, u))
      BY <1>1, <1>2, <2>1 DEF FenceInv, FenceTypeOK, Asked, First, Hart
    <3>3. \A r, u \in Hart : r # h => (Asked(r, u)' <=> Asked(r, u))
      BY <1>2, <2>1 DEF FenceInv, FenceTypeOK, Asked, First
    <3> QED
      BY <3>1, <3>2, <3>3
  <2>10. EntriesAreAsked'
    <3>1. \A r, u \in Hart : r # h \/ u # t => (Owes(u, r)' => rpc'[r] # "none" /\ Asked(r, u)')
      BY <2>1, <2>7, <2>9 DEF FenceInv, FenceTypeOK, EntriesAreAsked
    <3>2. rpc'[h] # "none" /\ Asked(h, t)'
      BY <2>1, <2>9 DEF FenceInv, FenceTypeOK
    <3>3. \A r, u \in Hart : inflight'[u] = r => ~Queued(r, u)'
      BY <1>2, <1>3, <2>6 DEF FenceInv, EntriesAreAsked, Owes
    <3> QED
      BY <3>1, <3>2, <3>3 DEF EntriesAreAsked
  <2>11. AskedOweOrFenced'
    BY <1>2, <2>1, <2>7, <2>9 DEF FenceInv, FenceTypeOK, AskedOweOrFenced
  <2> QED
    BY <2>3, <2>5, <2>8, <2>10, <2>11 DEF FenceInv
<1>5. CASE ~(Len(queue[t]) < QueueLen)
  <2>1. rpc' = [rpc EXCEPT ![h] = "full"] /\ UNCHANGED <<queue, out>>
    BY <1>1, <1>5
  <2>2. FenceTypeOK'
    BY <1>2, <2>1 DEF FenceInv, FenceTypeOK, RpcLabel
  <2>3. /\ QueueBounded' /\ OutIsExact'
        /\ \A r, u \in Hart : (Owes(u, r)' <=> Owes(u, r)) /\ (Queued(r, u)' <=> Queued(r, u))
    BY <1>2, <2>1, OwesFrame
  <2>4. \A r, u \in Hart : Asked(r, u)' <=> Asked(r, u)
    BY <1>2, <2>1 DEF FenceInv, FenceTypeOK, Asked, First
  <2>5. EntriesAreAsked' /\ AskedOweOrFenced'
    BY <1>2, <2>1, <2>3, <2>4 DEF FenceInv, FenceTypeOK, EntriesAreAsked, AskedOweOrFenced
  <2> QED
    BY <2>2, <2>3, <2>5 DEF FenceInv
<1> QED
  BY <1>4, <1>5

\* The steps of rfence_request() that only move on: an IPI, a look at the
\* hart's own IPIs, its own fence.
LEMMA RequestStepFenceInv ==
  ASSUME FenceInv, NEW h \in Hart,
         QueueFull(h) \/ SendIpi(h) \/ FenceSelf(h) \/ WaitServe(h) \/ RequestPoll(h)
  PROVE  FenceInv'
<1> USE DEF At
<1>1. /\ UNCHANGED <<queue, out, inflight, targets>>
      /\ rpc[h] # "none" /\ rpc[h] \in RpcLabel
      /\ \A r \in Hart : r # h => /\ rpc'[r] = rpc[r] /\ todo'[r] = todo[r]
                                  /\ fenced'[r] = fenced[r]
  BY DEF FenceInv, FenceTypeOK, QueueFull, SendIpi, FenceSelf, WaitServe, RequestPoll
<1>2. /\ rpc' \in [Hart -> RpcLabel] /\ rpc'[h] # "none"
      /\ todo' \in [Hart -> SUBSET Hart] /\ todo'[h] \subseteq todo[h]
      /\ fenced' \in [Hart -> SUBSET Hart] /\ fenced[h] \subseteq fenced'[h]
  <2> USE DEF FenceInv, FenceTypeOK, RpcLabel
  <2>1. CASE QueueFull(h)
    BY <2>1 DEF QueueFull
  <2>2. CASE SendIpi(h)
    BY <2>2 DEF SendIpi
  <2>3. CASE FenceSelf(h)
    BY <2>3 DEF FenceSelf
  <2>4. CASE WaitServe(h)
    BY <2>4 DEF WaitServe
  <2>5. CASE RequestPoll(h)
    BY <2>5 DEF RequestPoll
  <2> QED
    BY <2>1, <2>2, <2>3, <2>4, <2>5
<1>3. draining' \in [Hart -> BOOLEAN]
  <2>1. CASE RequestPoll(h)
    <3>1. ("RFENCE" \in ipi_pending[h]) \in BOOLEAN
      OBVIOUS
    <3> QED
      BY <2>1, <3>1, Zenon DEF RequestPoll, FenceInv, FenceTypeOK
  <2>2. CASE ~RequestPoll(h)
    BY <2>2 DEF FenceInv, FenceTypeOK, QueueFull, SendIpi, FenceSelf, WaitServe
  <2> QED
    BY <2>1, <2>2
<1>4. FenceTypeOK'
  BY <1>1, <1>2, <1>3 DEF FenceInv, FenceTypeOK
<1>5. /\ QueueBounded' /\ OutIsExact'
      /\ \A r, t \in Hart : (Owes(t, r)' <=> Owes(t, r)) /\ (Queued(r, t)' <=> Queued(r, t))
  BY <1>1, OwesFrame
<1>6. \A r, t \in Hart : Asked(r, t)' <=> Asked(r, t)
  <2>1. \A r, t \in Hart : r # h => (Asked(r, t)' <=> Asked(r, t))
    BY <1>1 DEF Asked, First
  <2>2. CASE SendIpi(h)
    <3>1. PICK t \in todo[h] : First(h, t) /\ todo' = [todo EXCEPT ![h] = @ \ {t}]
      BY <2>2 DEF SendIpi
    <3>2. todo'[h] = todo[h] \ {t} /\ rpc[h] = "send" /\ rpc'[h] = "next"
          /\ targets' = targets
      BY <2>2, <3>1 DEF SendIpi, FenceInv, FenceTypeOK
    <3>3. \A u \in todo[h] : First(h, u) => u = t
      BY <3>1 DEF First, Hart, FenceInv, FenceTypeOK
    <3>4. \A u \in Hart : Asked(h, u)' <=> Asked(h, u)
      BY <3>1, <3>2, <3>3 DEF Asked
    <3> QED
      BY <2>1, <3>4
  <2>3. CASE ~SendIpi(h)
    <3>1. todo' = todo /\ targets' = targets
      BY <2>3 DEF QueueFull, FenceSelf, WaitServe, RequestPoll
    <3>2. rpc[h] # "send" /\ rpc'[h] # "send"
      BY <2>3 DEF QueueFull, FenceSelf, WaitServe, RequestPoll, FenceInv, FenceTypeOK
    <3>3. \A u \in Hart : Asked(h, u)' <=> Asked(h, u)
      BY <3>1, <3>2 DEF Asked
    <3> QED
      BY <2>1, <3>3
  <2> QED
    BY <2>2, <2>3
<1>7. EntriesAreAsked'
  BY <1>1, <1>2, <1>5, <1>6 DEF FenceInv, EntriesAreAsked
<1>8. AskedOweOrFenced'
  <2>1. rpc'[h] \in {"wait", "wait_poll"} =>
          todo'[h] = {} /\ (h \in targets'[h] => h \in fenced'[h])
    <3>1. CASE FenceSelf(h)
      BY <3>1 DEF FenceSelf, FenceInv, FenceTypeOK
    <3>2. CASE QueueFull(h) \/ SendIpi(h)
      BY <3>2 DEF QueueFull, SendIpi, FenceInv, FenceTypeOK
    <3>3. CASE WaitServe(h) \/ RequestPoll(h)
      BY <3>3 DEF WaitServe, RequestPoll, FenceInv, FenceTypeOK, AskedOweOrFenced
    <3> QED
      BY <3>1, <3>2, <3>3
  <2>2. todo'[h] \subseteq targets'[h] \ {h}
    BY <1>1, <1>2 DEF FenceInv, AskedOweOrFenced
  <2>3. \A t \in Hart : Asked(h, t)' => Owes(t, h)' \/ t \in fenced'[h]
    BY <1>1, <1>2, <1>5, <1>6 DEF FenceInv, AskedOweOrFenced
  <2>4. \A r \in Hart : r # h =>
          /\ todo'[r] \subseteq targets'[r] \ {r}
          /\ rpc'[r] # "none" => \A t \in Hart : Asked(r, t)' => Owes(t, r)' \/ t \in fenced'[r]
          /\ rpc'[r] \in {"wait", "wait_poll"} =>
               todo'[r] = {} /\ (r \in targets'[r] => r \in fenced'[r])
    BY <1>1, <1>5, <1>6 DEF FenceInv, AskedOweOrFenced
  <2> QED
    BY <2>1, <2>2, <2>3, <2>4 DEF AskedOweOrFenced
<1> QED
  BY <1>4, <1>5, <1>7, <1>8 DEF FenceInv

\* A return: the count is zero, so no entry points at it.
LEMMA RfenceReturnFenceInv ==
  ASSUME FenceInv, NEW h \in Hart, RfenceReturn(h)
  PROVE  FenceInv'
<1> USE DEF RfenceReturn, At
<1>1. FenceTypeOK'
  BY DEF FenceInv, FenceTypeOK, RpcLabel
<1>2. /\ QueueBounded' /\ OutIsExact'
      /\ \A r, t \in Hart : (Owes(t, r)' <=> Owes(t, r)) /\ (Queued(r, t)' <=> Queued(r, t))
  BY OwesFrame
<1>3. \A t \in Hart : ~Owes(t, h)
  <2>1. Owing(h) = {}
    BY OwingIsFinite, FS_EmptySet DEF FenceInv, OutIsExact
  <2> QED
    BY <2>1 DEF Owing
<1>4. \A r, t \in Hart : r # h => (Asked(r, t)' <=> Asked(r, t))
  BY DEF FenceInv, FenceTypeOK, Asked, First
<1>5. EntriesAreAsked'
  BY <1>2, <1>3, <1>4 DEF FenceInv, FenceTypeOK, EntriesAreAsked
<1>6. AskedOweOrFenced'
  BY <1>2, <1>4 DEF FenceInv, FenceTypeOK, AskedOweOrFenced
<1> QED
  BY <1>1, <1>2, <1>5, <1>6 DEF FenceInv

\* rfence_process() takes the oldest entry: it leaves the queue and is being
\* served, so its hart owes what it owed.
LEMMA PopFenceInv ==
  ASSUME FenceInv, NEW h \in Hart, Pop(h)
  PROVE  FenceInv'
<1>1. UNCHANGED <<out, rpc, todo, targets, fenced>> /\ inflight[h] = NoHart
  BY DEF Pop
<1>2. CASE queue[h] = <<>>
  <2>1. UNCHANGED <<queue, inflight>> /\ draining' \in [Hart -> BOOLEAN]
    BY <1>2 DEF Pop, FenceInv, FenceTypeOK
  <2> QED
    BY <1>1, <2>1, FenceFrame
<1>3. CASE queue[h] # <<>>
  <2>0. PICK r0 : r0 = Head(queue[h])
    OBVIOUS
  <2>1. /\ Len(queue[h]) \in Nat \ {0}
        /\ r0 = queue[h][1] /\ r0 \in Hart
        /\ Tail(queue[h]) \in Seq(Hart)
        /\ Len(Tail(queue[h])) = Len(queue[h]) - 1
        /\ \A i \in 1 .. Len(queue[h]) - 1 : Tail(queue[h])[i] = queue[h][i + 1]
    <3>1. queue[h] \in Seq(Hart)
      BY DEF FenceInv, FenceTypeOK
    <3> QED
      BY <1>3, <2>0, <3>1, TailEntry
  <2>2. /\ queue' = [queue EXCEPT ![h] = Tail(queue[h])]
        /\ inflight' = [inflight EXCEPT ![h] = r0]
        /\ draining' = draining
    BY <1>3, <2>0 DEF Pop
  <2>3. FenceTypeOK'
    BY <1>1, <2>1, <2>2 DEF FenceInv, FenceTypeOK
  <2>4. /\ Len(queue[h]) \in Nat \ {0}
        /\ r0 = queue[h][1]
        /\ Len(queue'[h]) = Len(queue[h]) - 1
        /\ \A i \in 1 .. Len(queue[h]) - 1 : queue'[h][i] = queue[h][i + 1]
        /\ \A u \in Hart : u # h => queue'[u] = queue[u]
    <3>1. /\ queue'[h] = Tail(queue[h])
          /\ \A u \in Hart : u # h => queue'[u] = queue[u]
      BY <2>2 DEF FenceInv, FenceTypeOK
    <3> QED
      BY <2>1, <3>1, Zenon
  <2>5. inflight'[h] = r0 /\ \A u \in Hart : u # h => inflight'[u] = inflight[u]
    BY <2>2 DEF FenceInv, FenceTypeOK
  <2>6. /\ \A i \in 1 .. Len(queue'[h]) : i + 1 \in 1 .. Len(queue[h]) /\ queue'[h][i] = queue[h][i + 1]
        /\ \A i \in 1 .. Len(queue[h]) : i = 1 \/ i - 1 \in 1 .. Len(queue'[h])
    BY <2>4
  <2>7. \A i, j \in 1 .. Len(queue[h]) : queue[h][i] = queue[h][j] => i = j
    BY DEF FenceInv, QueueBounded
  <2>8. QueueBounded'
    <3>1. \A i, j \in 1 .. Len(queue'[h]) : queue'[h][i] = queue'[h][j] => i = j
      BY <2>4, <2>6, <2>7
    <3>2. Len(queue'[h]) <= QueueLen
      BY <2>4, QueueAssumption DEF FenceInv, QueueBounded
    <3> QED
      BY <2>4, <3>1, <3>2 DEF FenceInv, QueueBounded
  <2>9. ~Queued(r0, h)'
    <3> SUFFICES ASSUME NEW i \in 1 .. Len(queue'[h]), queue'[h][i] = r0 PROVE FALSE
      BY DEF Queued
    <3>1. i + 1 \in 1 .. Len(queue[h]) /\ queue[h][i + 1] = queue[h][1] /\ 1 \in 1 .. Len(queue[h])
      BY <2>4, <2>6
    <3> QED
      BY <2>4, <2>7, <3>1
  <2>10. Queued(r0, h)
    BY <2>4 DEF Queued
  <2>11. \A r \in Hart : r # r0 => (Queued(r, h)' <=> Queued(r, h))
    <3> SUFFICES ASSUME NEW r \in Hart, r # r0 PROVE Queued(r, h)' <=> Queued(r, h)
      OBVIOUS
    <3>1. Queued(r, h)' => Queued(r, h)
      BY <2>6 DEF Queued
    <3>2. ASSUME NEW i \in 1 .. Len(queue[h]), queue[h][i] = r
          PROVE  i - 1 \in 1 .. Len(queue'[h]) /\ queue'[h][i - 1] = r
      BY <2>4, <2>6, <3>2
    <3> QED
      BY <3>1, <3>2 DEF Queued
  <2>12. \A r, u \in Hart : u # h => (Queued(r, u)' <=> Queued(r, u))
    BY <2>4 DEF Queued
  <2>13. \A r, u \in Hart : Owes(u, r)' <=> Owes(u, r)
    <3>1. \A r, u \in Hart : u # h => (Owes(u, r)' <=> Owes(u, r))
      BY <2>5, <2>12 DEF Owes
    <3>2. \A r \in Hart : r # r0 => (Owes(h, r)' <=> Owes(h, r))
      BY <1>1, <2>5, <2>11, NoHartAssumption DEF Owes
    <3>3. Owes(h, r0)' /\ Owes(h, r0)
      BY <2>5, <2>10 DEF Owes
    <3> QED
      BY <3>1, <3>2, <3>3
  <2>14. \A r, u \in Hart : Asked(r, u)' <=> Asked(r, u)
    BY <1>1 DEF Asked, First
  <2>15. OutIsExact'
    <3>1. \A r \in Hart : Owing(r)' = Owing(r)
      BY <2>13 DEF Owing
    <3> QED
      BY <1>1, <3>1 DEF FenceInv, OutIsExact
  <2>16. EntriesAreAsked'
    <3>1. \A r, u \in Hart : inflight'[u] = r => ~Queued(r, u)'
      BY <2>5, <2>9, <2>12 DEF FenceInv, EntriesAreAsked
    <3> QED
      BY <1>1, <2>13, <2>14, <3>1 DEF FenceInv, EntriesAreAsked
  <2>17. AskedOweOrFenced'
    BY <1>1, <2>13, <2>14 DEF FenceInv, AskedOweOrFenced
  <2> QED
    BY <2>3, <2>8, <2>15, <2>16, <2>17 DEF FenceInv
<1> QED
  BY <1>2, <1>3

\* The fence is done and the requester's count goes down by one: its entry
\* was the only one with this hart.
LEMMA FenceLocalFenceInv ==
  ASSUME FenceInv, NEW h \in Hart, FenceLocal(h)
  PROVE  FenceInv'
<1>0. PICK r0 : r0 = inflight[h]
  OBVIOUS
<1>1. r0 \in Hart /\ r0 # NoHart /\ UNCHANGED <<queue, rpc, todo, draining, targets>>
  BY <1>0 DEF FenceLocal, FenceInv, FenceTypeOK
<1>2. /\ fenced' = [fenced EXCEPT ![r0] = fenced[r0] \cup {h}]
      /\ out' = [out EXCEPT ![r0] = out[r0] - 1]
      /\ inflight' = [inflight EXCEPT ![h] = NoHart]
  BY <1>0 DEF FenceLocal
<1>3. Owes(h, r0) /\ ~Queued(r0, h)
  BY <1>0, <1>1 DEF FenceInv, EntriesAreAsked, Owes
<1>4. /\ inflight'[h] = NoHart /\ \A u \in Hart : u # h => inflight'[u] = inflight[u]
      /\ out'[r0] = out[r0] - 1 /\ \A r \in Hart : r # r0 => out'[r] = out[r]
      /\ fenced'[r0] = fenced[r0] \cup {h} /\ \A r \in Hart : r # r0 => fenced'[r] = fenced[r]
  BY <1>1, <1>2 DEF FenceInv, FenceTypeOK
<1>5. \A r, u \in Hart : (Queued(r, u)' <=> Queued(r, u)) /\ (Asked(r, u)' <=> Asked(r, u))
  BY <1>1 DEF Queued, Asked, First
<1>6. /\ ~Owes(h, r0)'
      /\ \A r, u \in Hart : r # r0 \/ u # h => (Owes(u, r)' <=> Owes(u, r))
  <2>1. ~Owes(h, r0)'
    BY <1>1, <1>3, <1>4, <1>5 DEF Owes
  <2>2. \A r \in Hart : r # r0 => inflight[h] # r /\ inflight'[h] # r
    BY <1>0, <1>4, NoHartAssumption
  <2> QED
    BY <1>4, <1>5, <2>1, <2>2 DEF Owes
<1>7. OutIsExact'
  <2>1. Owing(r0)' = Owing(r0) \ {h} /\ h \in Owing(r0)
    BY <1>1, <1>3, <1>6 DEF Owing
  <2>2. \A r \in Hart : r # r0 => Owing(r)' = Owing(r)
    BY <1>6 DEF Owing
  <2>3. Cardinality(Owing(r0) \ {h}) = Cardinality(Owing(r0)) - 1
    BY <1>1, <2>1, OwingIsFinite, FS_RemoveElement
  <2> QED
    BY <1>1, <1>4, <2>1, <2>2, <2>3 DEF FenceInv, OutIsExact
<1>8. FenceTypeOK'
  <2>1. Cardinality(Owing(r0)) \in Nat /\ Cardinality(Owing(r0)) # 0
    BY <1>1, <1>3, OwingIsFinite, FS_CardinalityType, FS_EmptySet DEF Owing
  <2>2. out'[r0] \in Nat
    BY <1>1, <1>4, <2>1 DEF FenceInv, OutIsExact
  <2> QED
    BY <1>1, <1>2, <2>2 DEF FenceInv, FenceTypeOK
<1>9. QueueBounded'
  BY <1>1 DEF FenceInv, QueueBounded
<1>10. EntriesAreAsked'
  <2>1. \A r, u \in Hart : Owes(u, r)' => rpc'[r] # "none" /\ Asked(r, u)'
    BY <1>1, <1>5, <1>6 DEF FenceInv, EntriesAreAsked
  <2>2. \A r, u \in Hart : inflight'[u] = r => ~Queued(r, u)'
    BY <1>4, <1>5, NoHartAssumption DEF FenceInv, EntriesAreAsked
  <2> QED
    BY <2>1, <2>2 DEF EntriesAreAsked
<1>11. AskedOweOrFenced'
  BY <1>1, <1>4, <1>5, <1>6 DEF FenceInv, AskedOweOrFenced
<1> QED
  BY <1>7, <1>8, <1>9, <1>10, <1>11 DEF FenceInv

\* So every step preserves it ...
LEMMA NextFenceInv == FenceInv /\ [FenceNext]_vars => FenceInv'
<1> SUFFICES ASSUME FenceInv, [FenceNext]_vars PROVE FenceInv'
  OBVIOUS
<1>1. CASE UNCHANGED vars
  <2>1. UNCHANGED <<queue, out, rpc, todo, inflight, targets, fenced>> /\ draining' = draining
    BY <1>1 DEF vars, fenceVars
  <2>2. draining' \in [Hart -> BOOLEAN]
    BY <2>1 DEF FenceInv, FenceTypeOK
  <2> QED
    BY <2>1, <2>2, FenceFrame
<1>2. ASSUME NEW h \in Hart, NEW mask \in SUBSET Hart, RfenceRequest(h, mask) PROVE FenceInv'
  BY <1>2, RfenceRequestFenceInv
<1>3. ASSUME NEW h \in Hart, HartStep(h) \/ HsmOutsideStep(h) PROVE FenceInv'
  BY <1>3, EnqueueFenceInv, RequestStepFenceInv, RfenceReturnFenceInv, PopFenceInv,
     FenceLocalFenceInv, HsmStepFenceInv DEF HartStep, FenceStep
<1> QED
  BY <1>1, <1>2, <1>3 DEF FenceNext

\* ... and it says what the code relies on.
LEMMA FenceInvImplies == FenceInv => CountIsAlive /\ FencedOnReturn
<1> SUFFICES ASSUME FenceInv PROVE CountIsAlive /\ FencedOnReturn
  OBVIOUS
<1>1. CountIsAlive
  BY DEF FenceInv, FenceTypeOK, RpcLabel, EntriesAreAsked, CountIsAlive
<1>2. ASSUME NEW r \in Hart, rpc[r] \in {"wait", "wait_poll"}, out[r] = 0, NEW t \in targets[r]
      PROVE  t \in fenced[r]
  <2>1. t \in Hart
    BY <1>2 DEF FenceInv, FenceTypeOK
  <2>2. Owing(r) = {}
    BY <1>2, OwingIsFinite, FS_EmptySet DEF FenceInv, OutIsExact
  <2>3. ~Owes(t, r)
    BY <2>1, <2>2 DEF Owing
  <2> QED
    BY <1>2, <2>1, <2>3 DEF FenceInv, AskedOweOrFenced, Asked
<1> QED
  BY <1>1, <1>2 DEF FencedOnReturn

\* The invariant holds from cold boot on, and from any state in which all
\* harts run S-mode and no request is under way.
LEMMA FenceInvariant ==
  /\ FenceSpec => []FenceInv
  /\ RunningSpec => []FenceInv
<1>1. InitRunning => FenceInit
  BY DEF InitRunning
<1> QED
  BY <1>1, InitFenceInv, NextFenceInv, PTL DEF FenceSpec, RunningSpec

(***************************************************************************)
(* rfence_request() and rfence_process(): the count on a requester's stack *)
(* is the number of harts that hold its entry, for any number of harts,    *)
(* any queue length and any stops, suspends and restarts.                  *)
(***************************************************************************)
THEOREM CountIsExact == (FenceSpec => []OutIsExact) /\ (RunningSpec => []OutIsExact)
<1>1. FenceInv => OutIsExact
  BY DEF FenceInv
<1> QED
  BY <1>1, FenceInvariant, PTL

(***************************************************************************)
(* "The requester's stack: not to be touched after this" (rfence.c): an    *)
(* entry's requester is always still in rfence_request(), so the pointer   *)
(* to its count never dangles.                                             *)
(***************************************************************************)
THEOREM CountIsNeverStale == (FenceSpec => []CountIsAlive) /\ (RunningSpec => []CountIsAlive)
  BY FenceInvImplies, FenceInvariant, PTL

(***************************************************************************)
(* When rfence_request()'s wait ends, every hart it picked has fenced for  *)
(* this very request.                                                      *)
(***************************************************************************)
THEOREM ReturnMeansFenced == (FenceSpec => []FencedOnReturn) /\ (RunningSpec => []FencedOnReturn)
  BY FenceInvImplies, FenceInvariant, PTL

(***************************************************************************)
(* No rfence queue outgrows RFENCE_QUEUE_LEN, and none holds two entries   *)
(* of one requester.                                                       *)
(***************************************************************************)
THEOREM QueuesAreBounded == (FenceSpec => []QueueBounded) /\ (RunningSpec => []QueueBounded)
<1>1. FenceInv => QueueBounded
  BY DEF FenceInv
<1> QED
  BY <1>1, FenceInvariant, PTL
=================================================================================
