------------------------------ MODULE IpiMailbox ------------------------------
(***************************************************************************)
(* What the IPI core promises: a mailbox of events per hart.  An event     *)
(* that is posted stays until its hart takes the whole mailbox, and a hart *)
(* with a non-empty mailbox takes it eventually, unless it has halted.     *)
(* The modules above the IPI core (Hsm, Rfence) use the core this way;     *)
(* Ipi shows that the register protocol of drivers/ipi/ipi.c provides it.  *)
(***************************************************************************)
CONSTANTS Hart,   \* the harts of the hart table
          Event   \* enum ipi_event

VARIABLES ipi_pending,  \* [Hart -> SUBSET Event]: struct hart's event bits
          halted        \* harts that took IPI_EVENT_HALT

mailboxVars == <<ipi_pending, halted>>

MailboxInit ==
  /\ ipi_pending = [h \in Hart |-> {}]
  /\ halted = {}

Post(h, e) ==
  /\ ipi_pending' = [ipi_pending EXCEPT ![h] = @ \cup {e}]
  /\ UNCHANGED halted

\* A hart takes all its events at once; HALT is the last thing it takes.
Take(h) ==
  /\ h \notin halted
  /\ ipi_pending[h] # {}
  /\ ipi_pending' = [ipi_pending EXCEPT ![h] = {}]
  /\ halted' = IF "HALT" \in ipi_pending[h] THEN halted \cup {h} ELSE halted

\* A hart that (re)starts forgets what was posted before (ipi_hart_init()).
Forget(h) ==
  /\ h \notin halted
  /\ ipi_pending' = [ipi_pending EXCEPT ![h] = {}]
  /\ UNCHANGED halted

MailboxNext ==
  \E h \in Hart : Take(h) \/ Forget(h) \/ \E e \in Event : Post(h, e)

\* What a mailbox may do, whatever it gets round to.
MailboxSafety == MailboxInit /\ [][MailboxNext]_mailboxVars

MailboxSpec ==
  /\ MailboxSafety
  /\ \A h \in Hart : WF_mailboxVars(Take(h) \/ Forget(h))
===============================================================================
