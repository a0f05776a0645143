---------------------------------- MODULE Rpmi ----------------------------------
(***************************************************************************)
(* The RPMI client, drivers/rpmi/rpmi.c, over the shared memory transport  *)
(* of rpmi_shmem.c, with the platform microcontroller (PuC) at the other   *)
(* end, which is not part of this code: it uses the rings as the client    *)
(* expects it to, late or not at all.  One context: four rings, a lock, a  *)
(* token counter and the flag of the P2A doorbell.                         *)
(*                                                                         *)
(* A hart waits for the lock, for room and for an answer in loops that     *)
(* call ipi_process(), and that is where the doorbell interrupt is taken   *)
(* (imsic_ipi_clear()): on top of the call it interrupts.  So a hart is    *)
(* two threads, of which the second runs first.                            *)
(***************************************************************************)
EXTENDS Naturals, Sequences

CONSTANTS RpmiHart,      \* the harts
          NoRpmiHart,    \* "no hart"
          MsgSlots,      \* [RpmiQueue -> Nat \ {0}]: msg_slots[]
          TokenMod,      \* 2^16: a token is a uint16_t
          PucMisfits,    \* does the PuC send messages larger than p2a_buf?
          Budgets        \* bounds: how much of what may happen, and from which start

\* enum rpmi_queue
RpmiQueue == {"A2P_REQ", "P2A_ACK", "P2A_REQ", "A2P_ACK"}

ASSUME RpmiAssumption ==
  /\ MsgSlots \in [RpmiQueue -> Nat \ {0}]
  /\ TokenMod \in Nat \ {0}
  /\ Budgets \subseteq [request : Nat, posted : Nat, poll : Nat, note : Nat, expire : Nat,
                          ready : RpmiHart \cup {NoRpmiHart}]

RpmiThread == RpmiHart \X {"main", "irq"}
NoThread == <<NoRpmiHart, "main">>
NoMsg == [type |-> "none", svc |-> "none", tok |-> 0, live |-> FALSE]

VARIABLES ring,        \* [RpmiQueue -> [head, tail, slot]]
          fifo,        \* what the rings hold, as sequences (for RingIsFifo)
          lock,        \* who has the context
          rang, tried, doorbell,       \* the doorbell's three flags
          next_token,
          rpc,         \* [RpmiThread -> what it is about to do]
          back,        \* [RpmiThread -> where p2a_drain() returns to]
          call,        \* [RpmiHart -> the request or post it makes]
          result,      \* [RpmiHart -> what its last call returned]
          msi_hart,    \* msi_ids[]: the hart the doorbell MSI is enabled on
          msi,         \* is that MSI pending?
          puc,         \* the PuC: what it does next, the request it has, its system MSI
          left         \* what is left of the budget

rpmiVars == <<ring, fifo, lock, rang, tried, doorbell, next_token, rpc, back,
              call, result, msi_hart, msi, puc, left>>
clientVars == <<lock, rang, tried, doorbell, next_token, rpc, back, call, result, msi_hart>>

\* "live" tells the message of the call in progress from those of calls given up.
RpmiMsg == [type : {"request", "posted", "ack", "nack", "note", "misfit", "none"},
            svc : {"user", "target", "state", "again", "none"},
            tok : 0 .. TokenMod - 1, live : BOOLEAN]

\* The doorbell is yet to be set up, or a hart has done it.
RpmiInit ==
  /\ left \in Budgets
  /\ ring = [q \in RpmiQueue |->
               [head |-> 0, tail |-> 0, slot |-> [i \in 0 .. MsgSlots[q] - 1 |-> NoMsg]]]
  /\ fifo = [q \in RpmiQueue |-> <<>>]
  /\ lock = NoThread
  /\ rang = FALSE
  /\ msi_hart = left.ready /\ msi = FALSE
  /\ tried = (msi_hart # NoRpmiHart) /\ doorbell = tried
  /\ next_token = 0
  /\ rpc = [t \in RpmiThread |-> IF t[2] = "main" THEN "idle" ELSE "none"]
  /\ back = [t \in RpmiThread |-> "release"]
  /\ call = [h \in RpmiHart |-> NoMsg]
  /\ result = [h \in RpmiHart |-> "none"]
  /\ puc = [todo |-> "poll", msg |-> NoMsg, target |-> tried, enabled |-> tried]
-------------------------------------------------------------------------------
\* The transport: rpmi_shmem_send() and rpmi_shmem_recv(), enqueue() of the PuC.

\* A bug to tell apart: a ring filled to the last slot, which then looks empty.
RingFullLate(q) == FALSE

RingFull(q) == (ring[q].tail + 1) % MsgSlots[q] = ring[q].head

RingEmpty(q) == ring[q].head = ring[q].tail

RingFirst(q) == ring[q].slot[ring[q].head]

\* The message is in its slot before the tail makes it visible.
Put(r, q, m) ==
  [r EXCEPT ![q] = [head |-> @.head, tail |-> (@.tail + 1) % MsgSlots[q],
                    slot |-> [@.slot EXCEPT ![r[q].tail] = m]]]

\* The consumed slot's old contents are never read again: they are dropped here.
Take(r, q) ==
  [r EXCEPT ![q] = [head |-> (@.head + 1) % MsgSlots[q], tail |-> @.tail,
                    slot |-> [@.slot EXCEPT ![r[q].head] = NoMsg]]]

SendMsg(q, m) ==
  /\ ~RingFull(q)
  /\ ring' = Put(ring, q, m)
  /\ fifo' = [fifo EXCEPT ![q] = Append(@, m)]

RecvMsg(q) ==
  /\ ~RingEmpty(q)
  /\ ring' = Take(ring, q)
  /\ fifo' = [fifo EXCEPT ![q] = Tail(@)]

\* Every outstanding message belongs to a call that is over (see AnswerIsOurs).
Old(m) == [m EXCEPT !.live = FALSE]
Aged(r) == [q \in RpmiQueue |-> [r[q] EXCEPT !.slot = [i \in DOMAIN @ |-> Old(@[i])]]]
AgedFifo(f) == [q \in RpmiQueue |-> [i \in DOMAIN f[q] |-> Old(f[q][i])]]
-------------------------------------------------------------------------------
\* The thread of a hart that runs: the interrupt's until it has returned.
Runs(t) == t[2] = "irq" \/ rpc[<<t[1], "irq">>] = "none"
At(t, l) == rpc[t] = l /\ Runs(t)
Go(t, l) == rpc' = [rpc EXCEPT ![t] = l]
Spend(what) == left[what] > 0 /\ left' = [left EXCEPT ![what] = @ - 1]
GoBack(t) == Go(t, IF t[2] = "irq" THEN "none" ELSE "after")

\* rpmi_request(), rpmi_post() and rpmi_poll() are called.
RpmiRequest(h, svc) ==
  /\ call' = [call EXCEPT ![h] = [type |-> "request", svc |-> svc, tok |-> 0, live |-> TRUE]]
  /\ result' = [result EXCEPT ![h] = "none"]
  /\ Go(<<h, "main">>, "lock")

RpmiPost(h) ==
  /\ call' = [call EXCEPT ![h] = [type |-> "posted", svc |-> "user", tok |-> 0, live |-> FALSE]]
  /\ result' = [result EXCEPT ![h] = "none"]
  /\ Go(<<h, "main">>, "lock")

\* "then": what its caller, if that is doorbell_setup(), goes on with.
RpmiPoll(h, then) ==
  /\ call' = [call EXCEPT ![h] = [NoMsg EXCEPT !.svc = then]]
  /\ Go(<<h, "main">>, "lock")
  /\ UNCHANGED result

\* Back to the caller, who keeps nothing here.
RpmiReturns(h) ==
  /\ call' = [call EXCEPT ![h] = NoMsg]
  /\ result' = [result EXCEPT ![h] = "none"]
  /\ Go(<<h, "main">>, "idle")

RpmiCalled(h) ==
  /\ At(<<h, "main">>, "idle")
  /\ \/ Spend("request") /\ RpmiRequest(h, "user")
     \/ Spend("posted") /\ RpmiPost(h)
     \/ Spend("poll") /\ RpmiPoll(h, "none")
  /\ UNCHANGED <<ring, fifo, lock, rang, tried, doorbell, next_token, back, msi_hart, msi, puc>>

\* context_lock(), then the token: hdr.token = ctx->next_token++.
ContextLock(h) ==
  LET t == <<h, "main">> IN
  /\ At(t, "lock") /\ lock = NoThread
  /\ lock' = t
  /\ IF call[h].type = "none"
       THEN /\ Go(t, "drain")
            /\ back' = [back EXCEPT ![t] = "flag"]
            /\ UNCHANGED <<next_token, call>>
       ELSE /\ Go(t, "send")
            /\ call' = [call EXCEPT ![h].tok = next_token]
            /\ next_token' = (next_token + 1) % TokenMod
            /\ UNCHANGED back
  /\ UNCHANGED <<ring, fifo, rang, tried, doorbell, result, msi_hart, msi, puc, left>>

\* send_locked() on the A2P request queue: sent, or full until the deadline.
SendRequest(h) ==
  LET t == <<h, "main">> IN
  /\ At(t, "send")
  /\ SendMsg("A2P_REQ", call[h])
  /\ Go(t, IF call[h].type = "request" THEN "wait" ELSE "flag")
  /\ result' = [result EXCEPT ![h] = IF call[h].type = "request" THEN @ ELSE "ok"]
  /\ UNCHANGED <<lock, rang, tried, doorbell, next_token, back, call, msi_hart, msi, puc, left>>

\* Is the answer still to come?
AnswerOnItsWay ==
  \/ puc.msg.live
  \/ \E q \in {"A2P_REQ", "P2A_ACK"} : \E i \in DOMAIN fifo[q] : fifo[q][i].live

\* The deadline, in send_locked() and in wait_ack().  One the PuC would meet is bounded.
RequestExpires(h) ==
  LET t == <<h, "main">> IN
  /\ \/ At(t, "send") /\ RingFull("A2P_REQ")
     \/ At(t, "wait") /\ RingEmpty("P2A_ACK")
  /\ IF At(t, "send") \/ AnswerOnItsWay THEN Spend("expire") ELSE UNCHANGED left
  /\ result' = [result EXCEPT ![h] = "timeout"]
  /\ Go(t, "flag")
  /\ ring' = Aged(ring) /\ fifo' = AgedFifo(fifo)
  /\ puc' = [puc EXCEPT !.msg = Old(@)]
  /\ UNCHANGED <<lock, rang, tried, doorbell, next_token, back, call, msi_hart, msi>>

\* A bug to tell apart: the acknowledgment's service is checked, its token is not.
AckIsOursByService(h, ack) == ack.svc = call[h].svc

\* The check of wait_ack() on token, group, service and type.
AckIsOurs(h, ack) ==
  /\ ack.tok = call[h].tok
  /\ ack.svc = call[h].svc
  /\ ack.type \in {"ack", "nack", "misfit"}

\* wait_ack(): the next acknowledgment is dropped as stale, or it ends the wait.
WaitAck(h) ==
  LET t == <<h, "main">>
      ack == RingFirst("P2A_ACK") IN
  /\ At(t, "wait") /\ ~RingEmpty("P2A_ACK")
  /\ IF AckIsOurs(h, ack)
       THEN /\ result' = [result EXCEPT ![h] = CASE ack.type = "ack"  -> "ok"
                                                       [] ack.type = "nack" -> "refused"
                                                       [] OTHER             -> "io"]
            /\ Go(t, "flag")
            /\ ring' = Aged(Take(ring, "P2A_ACK"))
            /\ fifo' = AgedFifo([fifo EXCEPT !["P2A_ACK"] = Tail(@)])
            /\ puc' = [puc EXCEPT !.msg = Old(@)]
       ELSE RecvMsg("P2A_ACK") /\ UNCHANGED <<result, rpc, puc>>
  /\ UNCHANGED <<lock, rang, tried, doorbell, next_token, back, call, msi_hart, msi, left>>
-------------------------------------------------------------------------------
\* context_unlock(), by the caller or by the interrupt.

UnlockFlag(t) ==
  /\ At(t, "flag")
  /\ rang' = FALSE
  /\ Go(t, IF rang THEN "drain" ELSE "release")
  /\ back' = [back EXCEPT ![t] = "release"]
  /\ UNCHANGED <<ring, fifo, lock, tried, doorbell, next_token, call, result, msi_hart, msi, puc, left>>

\* A bug to tell apart: nobody looks at the flag once the lock is free.
UnlockReleaseOnly(t) ==
  /\ At(t, "release")
  /\ lock' = NoThread
  /\ GoBack(t)
  /\ UNCHANGED <<ring, fifo, rang, tried, doorbell, next_token, back, call, result, msi_hart, msi, puc, left>>

UnlockRelease(t) ==
  /\ At(t, "release")
  /\ lock' = NoThread
  /\ Go(t, "recheck")
  /\ UNCHANGED <<ring, fifo, rang, tried, doorbell, next_token, back, call, result, msi_hart, msi, puc, left>>

UnlockRecheck(t) ==
  /\ At(t, "recheck")
  /\ IF rang THEN Go(t, "retry") ELSE GoBack(t)
  /\ UNCHANGED <<ring, fifo, lock, rang, tried, doorbell, next_token, back, call, result, msi_hart, msi, puc, left>>

\* swap(lock, 1): the other side's if it was taken.  Also the end of doorbell_irq().
UnlockRetry(t) ==
  /\ At(t, "retry")
  /\ IF lock = NoThread THEN lock' = t /\ Go(t, "flag") ELSE GoBack(t) /\ UNCHANGED lock
  /\ UNCHANGED <<ring, fifo, rang, tried, doorbell, next_token, back, call, result, msi_hart, msi, puc, left>>

(***************************************************************************)
(* p2a_drain(): a notification goes to its sink (deliver_events()), a      *)
(* request of the PuC is answered "not supported", and recv() saying       *)
(* anything but success ends the loop: no message, or one that does not    *)
(* fit, which is consumed.                                                 *)
(***************************************************************************)
DrainStep(t) ==
  LET m == RingFirst("P2A_REQ") IN
  /\ At(t, "drain")
  /\ IF RingEmpty("P2A_REQ")
       THEN Go(t, back[t]) /\ UNCHANGED <<ring, fifo>>
       ELSE /\ RecvMsg("P2A_REQ")
            /\ CASE m.type = "request" -> Go(t, "ack")
                 [] m.type = "misfit"  -> Go(t, back[t])
                 [] OTHER              -> UNCHANGED rpc
  /\ UNCHANGED <<lock, rang, tried, doorbell, next_token, back, call, result, msi_hart, msi, puc, left>>

\* send_locked() of that answer; its result is not looked at.
DrainAck(t) ==
  /\ At(t, "ack")
  /\ \/ SendMsg("A2P_ACK", [NoMsg EXCEPT !.type = "ack"])
     \/ RingFull("A2P_ACK") /\ UNCHANGED <<ring, fifo>>
  /\ Go(t, "drain")
  /\ UNCHANGED <<lock, rang, tried, doorbell, next_token, back, call, result, msi_hart, msi, puc, left>>
-------------------------------------------------------------------------------
\* The doorbell.

\* Where a hart calls ipi_process(): in S-mode (it traps), or while it waits.
PollsIpis(h) ==
  LET l == rpc[<<h, "main">>] IN
  \/ l = "idle"
  \/ l = "lock" /\ lock # NoThread
  \/ l = "send" /\ RingFull("A2P_REQ")
  \/ l = "wait" /\ RingEmpty("P2A_ACK")
  \/ l = "ack" /\ RingFull("A2P_ACK")

\* imsic_ipi_clear() claims the MSI and calls doorbell_irq(), which sets the flag.
DoorbellIrq(h) ==
  /\ msi /\ msi_hart = h /\ rpc[<<h, "irq">>] = "none" /\ PollsIpis(h)
  /\ msi' = FALSE
  /\ rang' = TRUE
  /\ Go(<<h, "irq">>, "retry")
  /\ UNCHANGED <<ring, fifo, lock, tried, doorbell, next_token, back, call, result, msi_hart, puc, left>>

\* The same from inside the interrupt's own p2a_drain(): the hart has the lock.
DoorbellIrqNested(h) ==
  /\ msi /\ msi_hart = h /\ rpc[<<h, "irq">>] = "ack" /\ RingFull("A2P_ACK")
  /\ msi' = FALSE
  /\ rang' = TRUE
  /\ UNCHANGED <<ring, fifo, lock, tried, doorbell, next_token, rpc, back, call, result,
                 msi_hart, puc, left>>

(***************************************************************************)
(* The rest of rpmi_request() on success: doorbell_setup(), tried once and *)
(* only with an MSI of the monitor's own to be had, then a poll if there   *)
(* is no doorbell.  There is a sink (nr_sinks > 0).                        *)
(***************************************************************************)
AfterRequest(h) ==
  LET answered == result[h] \in {"ok", "refused"} IN
  /\ At(<<h, "main">>, "after") /\ call[h].type \in {"request", "posted"}
  /\ call[h].svc = "user"
  /\ \/ /\ call[h].type = "posted" \/ ~answered \/ (tried /\ doorbell)
        /\ Go(<<h, "main">>, "idle")
        /\ UNCHANGED <<tried, call, result, msi_hart>>
     \/ /\ call[h].type = "request" /\ answered /\ ~tried
        /\ tried' = TRUE
        /\ \/ RpmiRequest(h, "target") /\ msi_hart' = h
           \/ RpmiPoll(h, "none") /\ UNCHANGED msi_hart
     \/ /\ call[h].type = "request" /\ answered /\ tried /\ ~doorbell
        /\ RpmiPoll(h, "none")
        /\ UNCHANGED <<tried, msi_hart>>
  /\ UNCHANGED <<ring, fifo, lock, rang, doorbell, next_token, back, msi, puc, left>>

\* The end of a call of doorbell_setup(): polled if answered, and again on failure.
AfterSetupCall(h) ==
  /\ At(<<h, "main">>, "after") /\ call[h].type = "request"
  /\ call[h].svc \in {"target", "state"}
  /\ RpmiPoll(h, CASE result[h] = "ok"      -> call[h].svc
                   [] result[h] = "refused" -> "again"
                   [] OTHER                 -> "none")
  /\ UNCHANGED <<ring, fifo, lock, rang, tried, doorbell, next_token, back, msi_hart, msi, puc, left>>

\* The end of a poll: doorbell_setup() goes on, and polls once it has its doorbell.
AfterPoll(h) ==
  /\ At(<<h, "main">>, "after") /\ call[h].type = "none"
  /\ CASE call[h].svc = "target" -> RpmiRequest(h, "state")
       [] call[h].svc \in {"state", "again"} -> RpmiPoll(h, "none")
       [] OTHER -> RpmiReturns(h)
  /\ doorbell' = (doorbell \/ call[h].svc = "state")
  /\ UNCHANGED <<ring, fifo, lock, rang, tried, next_token, back, msi_hart, msi, puc, left>>
-------------------------------------------------------------------------------
\* The PuC: puc_poll(), and what it sends of its own accord.

\* A request is read and the head moves on; serve_sysmsi() does what it says.
PucPoll ==
  LET m == RingFirst("A2P_REQ") IN
  /\ puc.todo = "poll"
  /\ RecvMsg("A2P_REQ")
  /\ puc' = [todo |-> IF m.type = "request" THEN "answer" ELSE "poll",
             msg |-> IF m.type = "request" THEN m ELSE NoMsg,
             target |-> puc.target \/ m.svc = "target",
             enabled |-> puc.enabled \/ m.svc = "state"]
  /\ UNCHANGED <<clientVars, msi, left>>

\* Its acknowledgment, if any: fine, with an error STATUS or too long; dropped when full.
PucAnswer ==
  /\ puc.todo = "answer"
  /\ \/ \E type \in {"ack", "nack", "misfit"} :
          SendMsg("P2A_ACK", [puc.msg EXCEPT !.type = type])
     \/ UNCHANGED <<ring, fifo>>
  /\ puc' = [puc EXCEPT !.todo = "poll", !.msg = NoMsg]
  /\ UNCHANGED <<clientVars, msi, left>>

\* notify(), and requests of its own (external).
PucNotify ==
  /\ puc.todo = "poll" /\ Spend("note")
  /\ \E type \in {"note", "request"} \cup (IF PucMisfits THEN {"misfit"} ELSE {}) :
       \/ SendMsg("P2A_REQ", [NoMsg EXCEPT !.type = type])
       \/ RingFull("P2A_REQ") /\ UNCHANGED <<ring, fifo>>
  /\ puc' = [puc EXCEPT !.todo = "ring"]
  /\ UNCHANGED <<clientVars, msi>>

\* ring_p2a_doorbell(), as the system MSI is set up by then.
PucRing ==
  /\ puc.todo = "ring"
  /\ msi' = (msi \/ (puc.target /\ puc.enabled))
  /\ puc' = [puc EXCEPT !.todo = "poll"]
  /\ UNCHANGED <<clientVars, ring, fifo, left>>

\* The PuC reads the answers to its requests (external).
PucTakeAck ==
  /\ RecvMsg("A2P_ACK")
  /\ UNCHANGED <<clientVars, msi, puc, left>>

RpmiClientStep(h) ==
  \/ ContextLock(h) \/ SendRequest(h) \/ RequestExpires(h) \/ WaitAck(h)
  \/ AfterRequest(h) \/ AfterSetupCall(h) \/ AfterPoll(h)

RpmiUnlockStep(t) ==
  \/ UnlockFlag(t) \/ UnlockRelease(t) \/ UnlockRecheck(t) \/ UnlockRetry(t)
  \/ DrainStep(t) \/ DrainAck(t)

RpmiNext ==
  \/ \E h \in RpmiHart : RpmiCalled(h) \/ RpmiClientStep(h) \/ DoorbellIrq(h) \/ DoorbellIrqNested(h)
  \/ \E t \in RpmiThread : RpmiUnlockStep(t)
  \/ PucPoll \/ PucAnswer \/ PucNotify \/ PucRing \/ PucTakeAck

(***************************************************************************)
(* A hart in the client gets on: it runs with interrupts off, every wait   *)
(* but the one for the lock ends with a deadline (there is a timer), and   *)
(* the lock, a test-and-set lock in code that always releases it, is       *)
(* assumed to be had in the end by whoever keeps trying.  The MSI is taken *)
(* as an interrupt or by a loop.  The PuC serves its queue (puc_poll() is  *)
(* called in a loop); one that does not is a matter of deadlines.          *)
(***************************************************************************)
RpmiFairness ==
  /\ \A h \in RpmiHart : /\ WF_rpmiVars(RpmiClientStep(h))
                          /\ SF_rpmiVars(ContextLock(h))
                          /\ SF_rpmiVars(DoorbellIrq(h))
  /\ \A t \in RpmiThread : WF_rpmiVars(RpmiUnlockStep(t))
  /\ WF_rpmiVars(PucPoll) /\ WF_rpmiVars(PucAnswer) /\ WF_rpmiVars(PucRing)

RpmiSpec == RpmiInit /\ [][RpmiNext]_rpmiVars /\ RpmiFairness
-------------------------------------------------------------------------------
(***************************************************************************)
(* A ring is a queue: whatever the two ends do, the slots from head to     *)
(* tail hold the messages that were sent and not yet received, in order.   *)
(* No message is overwritten when indices wrap round or a ring is full.    *)
(***************************************************************************)
RingIsFifo ==
  \A q \in RpmiQueue :
    LET n == (ring[q].tail + MsgSlots[q] - ring[q].head) % MsgSlots[q] IN
    fifo[q] = [i \in 1 .. n |-> ring[q].slot[(ring[q].head + i - 1) % MsgSlots[q]]]

\* An empty ring takes a message: what "at least one [slot] for a message" means in
\* rpmi_shmem_probe().  This FAILS with one slot, which it accepts: a ring keeps a
\* slot free, so that one is full when it is empty and every send times out.
EmptyRingTakesOne == \A q \in RpmiQueue : RingEmpty(q) => ~RingFull(q)

(***************************************************************************)
(* An acknowledgment that ends a wait answers this very request: one that  *)
(* comes after its request was given up is not taken for the answer to a   *)
(* later one, though tokens are 16 bits wide and come round again.         *)
(***************************************************************************)
AnswerIsOurs ==
  [][\A h \in RpmiHart :
       result[h] = "none" /\ result'[h] \in {"ok", "refused", "io"}
         /\ call[h].type = "request" => RingFirst("P2A_ACK").live]_rpmiVars

(***************************************************************************)
(* The PuC is heard: once the doorbell is set up, a message it sends is    *)
(* received in the end, whoever has the lock when the doorbell rings and   *)
(* although nobody polls.                                                  *)
(***************************************************************************)
PucIsHeard == (doorbell /\ ~RingEmpty("P2A_REQ")) ~> RingEmpty("P2A_REQ")
================================================================================
