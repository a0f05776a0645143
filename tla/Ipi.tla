---------------------------------- MODULE Ipi ----------------------------------
(***************************************************************************)
(* The IPI core, drivers/ipi/ipi.c: events multiplexed over one interrupt  *)
(* per hart.  A sender sets the event's bit in the target's ipi_pending    *)
(* and then raises the interrupt; the target clears the interrupt and then *)
(* swaps the bits out.  Every atomic operation or device access is a step  *)
(* of its own, so every interleaving of senders and receivers is here.     *)
(***************************************************************************)
CONSTANTS Hart,    \* the harts of the hart table
          NoHart   \* "no target"

ASSUME NoHartAssumption == NoHart \notin Hart

\* enum ipi_event
Event == {"SMODE", "RFENCE", "HALT", "SSE"}

VARIABLES ipi_pending,  \* [Hart -> SUBSET Event]: the event bits
          msip,         \* [Hart -> BOOLEAN]: the interrupt, as the device holds it
          pc,           \* what the hart's monitor code is about to do
          target,       \* [Hart -> Hart or NoHart]: whom a sender is about to raise
          ssip,         \* [Hart -> BOOLEAN]: mip.SSIP
          halted        \* the harts in hart_halt()

vars == <<ipi_pending, msip, pc, target, ssip, halted>>

TypeOK ==
  /\ ipi_pending \in [Hart -> SUBSET Event]
  /\ msip \in [Hart -> BOOLEAN]
  /\ pc \in [Hart -> {"run", "raise", "swap", "store"}]
  /\ target \in [Hart -> Hart \cup {NoHart}]
  /\ \A h \in Hart : pc[h] = "raise" <=> target[h] # NoHart
  /\ ssip \in [Hart -> BOOLEAN]
  /\ halted \in SUBSET Hart

Init ==
  /\ ipi_pending = [h \in Hart |-> {}]
  /\ msip = [h \in Hart |-> FALSE]
  /\ pc = [h \in Hart |-> "run"]
  /\ target = [h \in Hart |-> NoHart]
  /\ ssip = [h \in Hart |-> FALSE]
  /\ halted = {}

Runs(h) == pc[h] = "run" /\ h \notin halted

\* ipi_send(), first half: the event's bit.
SendPost(h, t, e) ==
  /\ Runs(h)
  /\ ipi_pending' = [ipi_pending EXCEPT ![t] = @ \cup {e}]
  /\ pc' = [pc EXCEPT ![h] = "raise"]
  /\ target' = [target EXCEPT ![h] = t]
  /\ UNCHANGED <<msip, ssip, halted>>

\* ipi_send(), second half: the device.
SendRaise(h) ==
  /\ pc[h] = "raise"
  /\ msip' = [msip EXCEPT ![target[h]] = TRUE]
  /\ pc' = [pc EXCEPT ![h] = "run"]
  /\ target' = [target EXCEPT ![h] = NoHart]
  /\ UNCHANGED <<ipi_pending, ssip, halted>>

\* ipi_kick(): the interrupt and no event.
Kick(h, t) ==
  /\ Runs(h)
  /\ msip' = [msip EXCEPT ![t] = TRUE]
  /\ UNCHANGED <<ipi_pending, pc, target, ssip, halted>>

\* ipi_process(), from the trap or from a loop that polls: "Clear first".
ProcessClear(h) ==
  /\ Runs(h)
  /\ msip' = [msip EXCEPT ![h] = FALSE]
  /\ pc' = [pc EXCEPT ![h] = "swap"]
  /\ UNCHANGED <<ipi_pending, target, ssip, halted>>

\* The rest of ipi_process(): what was pending is done.
ProcessSwap(h) ==
  /\ pc[h] = "swap"
  /\ ipi_pending' = [ipi_pending EXCEPT ![h] = {}]
  /\ pc' = [pc EXCEPT ![h] = "run"]
  /\ IF "HALT" \in ipi_pending[h]
       THEN halted' = halted \cup {h} /\ UNCHANGED ssip
       ELSE /\ UNCHANGED halted
            /\ ssip' = [ssip EXCEPT ![h] = @ \/ "SMODE" \in ipi_pending[h]]
  /\ UNCHANGED <<msip, target>>

\* A bug to tell apart: the interrupt goes, the bits stay.
HartInitClearOnly(h) ==
  /\ Runs(h)
  /\ msip' = [msip EXCEPT ![h] = FALSE]
  /\ UNCHANGED <<ipi_pending, pc, target, ssip, halted>>

\* ipi_hart_init(): the device first, then the bits, whatever they are.
HartInitClear(h) ==
  /\ Runs(h)
  /\ msip' = [msip EXCEPT ![h] = FALSE]
  /\ pc' = [pc EXCEPT ![h] = "store"]
  /\ UNCHANGED <<ipi_pending, target, ssip, halted>>

HartInitStore(h) ==
  /\ pc[h] = "store"
  /\ ipi_pending' = [ipi_pending EXCEPT ![h] = {}]
  /\ pc' = [pc EXCEPT ![h] = "run"]
  /\ UNCHANGED <<msip, target, ssip, halted>>

\* S-mode takes its interrupt.
SmodeAck(h) ==
  /\ Runs(h) /\ ssip[h]
  /\ ssip' = [ssip EXCEPT ![h] = FALSE]
  /\ UNCHANGED <<ipi_pending, msip, pc, target, halted>>

Next ==
  \E h \in Hart :
    \/ \E t \in Hart : Kick(h, t) \/ \E e \in Event : SendPost(h, t, e)
    \/ SendRaise(h)
    \/ ProcessClear(h)
    \/ ProcessSwap(h)
    \/ HartInitClear(h)
    \/ HartInitStore(h)
    \/ SmodeAck(h)

(***************************************************************************)
(* M-mode code is not interrupted and none of these functions waits, so a  *)
(* hart inside one gets on.  A raised interrupt is taken: with strong      *)
(* fairness, as a hart may be in the monitor for calls of its own again    *)
(* and again, but traps between two of them.                               *)
(***************************************************************************)
Fairness ==
  \A h \in Hart : /\ WF_vars(SendRaise(h))
                  /\ WF_vars(ProcessSwap(h))
                  /\ WF_vars(HartInitStore(h))
                  /\ SF_vars(msip[h] /\ ProcessClear(h))

Spec == Init /\ [][Next]_vars

FairSpec == Spec /\ Fairness
-------------------------------------------------------------------------------
(***************************************************************************)
(* No event is stranded: while an event bit is set for a hart that has not *)
(* halted, its interrupt is pending, or a sender is about to raise it, or  *)
(* the hart is about to read (or to drop) the bits.  This is what "Clear   *)
(* first" in ipi_process() is for.                                         *)
(***************************************************************************)
AboutToRaise(h) == \E s \in Hart : pc[s] = "raise" /\ target[s] = h

NoStrandedEvent ==
  \A h \in Hart : ipi_pending[h] # {} =>
    msip[h] \/ AboutToRaise(h) \/ pc[h] \in {"swap", "store"} \/ h \in halted

(***************************************************************************)
(* An S-mode IPI that leaves a hart's mailbox is in mip.SSIP, unless the   *)
(* hart halts or starts over: whatever events it was taken together with,  *)
(* ipi_process() gets to it.                                               *)
(***************************************************************************)
SmodeIpiReachesSmode ==
  [][\A h \in Hart :
       "SMODE" \in ipi_pending[h] /\ "SMODE" \notin ipi_pending'[h] =>
         ssip'[h] \/ h \in halted' \/ pc[h] = "store"]_vars

(***************************************************************************)
(* The protocol is a mailbox (IpiMailbox): every event that is posted is   *)
(* taken, by a hart that has not halted, however senders, kicks and        *)
(* receivers interleave.                                                   *)
(***************************************************************************)
Mailbox == INSTANCE IpiMailbox

ImplementsMailbox == Mailbox!MailboxSpec

\* Its safety half: an event stays until its hart takes or forgets the whole
\* mailbox, and a hart that has taken HALT takes nothing any more.
MailboxMoves == Mailbox!MailboxSafety
================================================================================
