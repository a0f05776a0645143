---------------------------------- MODULE Sse ----------------------------------
(***************************************************************************)
(* Supervisor software events, arch/riscv/runtime/sse.c: the events of one *)
(* domain, whose harts start, stop, suspend and go to another domain and   *)
(* back.  What runs under sse_lock is one step; kick and unmasked are also *)
(* written without it, by their own hart.                                  *)
(*                                                                         *)
(* Of what an injection saves and a completion puts back (sepc, the flags, *)
(* a6 and a7, each in the event it belongs to) the model keeps whose it    *)
(* is: 'stack' is the handlers S-mode is in, the innermost one last.       *)
(* S-mode is taken to complete its handlers before it stops a hart or lets *)
(* it lose its state.                                                      *)
(***************************************************************************)
EXTENDS Integers, Sequences, Functions

CONSTANTS N,          \* harts, indexes 0 .. N - 1
          LocalId,    \* the events each hart has one of
          GlobalId,   \* the events the domain has one of
          Priority,   \* values of the PRIORITY attribute
          Used,       \* the events S-mode makes use of
          Movers,     \* the harts that suspend and go to other domains
          Written     \* <<attribute, event id>>: what S-mode ever writes

ASSUME SseAssumption ==
  /\ N \in Nat \ {0}
  /\ LocalId \subseteq Nat /\ GlobalId \subseteq Nat
  /\ LocalId \cap GlobalId = {}
  /\ Priority \subseteq Nat /\ 0 \in Priority
  /\ Written \subseteq {"PRIORITY", "CONFIG", "PREFERRED_HART"} \X (LocalId \cup GlobalId)
  /\ Movers \subseteq 0 .. N - 1
  /\ Used \subseteq (LocalId \X (0 .. N - 1)) \cup (GlobalId \X {-1})

Hart == 0 .. N - 1
NoHart == -1
Event == (LocalId \X Hart) \cup (GlobalId \X {NoHart})
Id(e) == e[1]
IsGlobal(e) == Id(e) \in GlobalId
EventOf(i, h) == IF i \in GlobalId THEN <<i, NoHart>> ELSE <<i, h>>   \* event_find()

VARIABLES status,     \* [Event -> the SSE states]
          pending,    \* [Event -> BOOLEAN]
          hart,       \* [Event -> Hart]: handles it, or is to
          prio,       \* [Event -> Priority]
          oneshot,    \* [Event -> BOOLEAN]: the CONFIG attribute
          pref,       \* [Event -> Hart]: the PREFERRED_HART attribute
          ready,      \* globals_ready
          stopping,   \* the domain is being stopped
          unmasked,   \* [Hart -> BOOLEAN]
          kick,       \* [Hart -> BOOLEAN]: something may be deliverable
          ipi,        \* [Hart -> BOOLEAN]: an IPI is on its way
          pc,         \* what the hart is about to do
          stack,      \* [Hart -> Seq(Event)]: the handlers S-mode is in
          late        \* [Hart -> BOOLEAN]: in S-mode, but not by a trap exit

attrs == <<prio, oneshot, pref>>
events == <<status, pending, hart, attrs, ready, stopping>>
vars == <<events, unmasked, kick, ipi, pc, stack, late>>

Status == {"UNUSED", "REGISTERED", "ENABLED", "RUNNING"}

\* smode: in S-mode.  tail: at the end of a trap, before sse_process().
\* sleep, wfi: suspended, about to look for work and waiting for it.  suspending,
\* resuming: between the stores of hart_suspend() that make the hart SUSPENDED and
\* STARTED again.
Label == {"stopped", "smode", "tail", "suspending", "sleep", "wfi",
          "resuming", "away"}

Init ==
  /\ status = [e \in Event |-> "UNUSED"]
  /\ pending = [e \in Event |-> FALSE]
  /\ hart = [e \in Event |-> IF IsGlobal(e) THEN 0 ELSE e[2]]
  /\ prio = [e \in Event |-> 0]
  /\ oneshot = [e \in Event |-> FALSE]
  /\ pref = hart
  /\ ready = FALSE
  /\ stopping = FALSE
  /\ unmasked = [h \in Hart |-> FALSE]
  /\ kick = [h \in Hart |-> FALSE]
  /\ ipi = [h \in Hart |-> FALSE]
  /\ pc = [h \in Hart |-> "stopped"]
  /\ stack = [h \in Hart |-> <<>>]
  /\ late = [h \in Hart |-> FALSE]

Goto(h, from, to) == pc[h] = from /\ pc' = [pc EXCEPT ![h] = to]
-------------------------------------------------------------------------------
(* Which event is next *)

Outranks(a, b) == prio[a] < prio[b] \/ (prio[a] = prio[b] /\ Id(a) < Id(b))

Candidates(h, s) ==
  {e \in Event : status[e] = s /\ hart[e] = h /\ (s = "ENABLED" => pending[e])}

\* top_event(): one event, or none.
TopEvent(h, s) ==
  {e \in Candidates(h, s) : \A f \in Candidates(h, s) \ {e} : Outranks(e, f)}

\* hsm_interruptible_mask_of() the domain, and the hart takes events.
Listens(h) == unmasked[h] /\ pc[h] \notin {"stopped", "away", "suspending", "resuming"}

\* global_target(), for a caller on hart h.
GlobalTarget(e, h) ==
  CASE Listens(pref[e]) -> pref[e]
    [] ~Listens(pref[e]) /\ Listens(h) -> h
    [] ~Listens(pref[e]) /\ ~Listens(h) ->
         LET others == {t \in Hart : Listens(t)}
         IN IF others = {} THEN pref[e] ELSE CHOOSE t \in others : \A u \in others : t <= u

\* A bug to tell apart: an event that is being handled moves, too.
MakePendingMoves(e, h) ==
  LET t == IF IsGlobal(e) THEN GlobalTarget(e, h) ELSE hart[e]
  IN /\ pending' = [pending EXCEPT ![e] = TRUE]
     /\ hart' = [hart EXCEPT ![e] = t]
     /\ kick' = [kick EXCEPT ![t] = TRUE]
     /\ ipi' = [ipi EXCEPT ![t] = @ \/ t # h]

\* make_pending(), on hart h.
MakePending(e, h) ==
  LET t == IF IsGlobal(e) /\ status[e] # "RUNNING" THEN GlobalTarget(e, h) ELSE hart[e]
  IN /\ pending' = [pending EXCEPT ![e] = TRUE]
     /\ hart' = [hart EXCEPT ![e] = t]
     /\ kick' = [kick EXCEPT ![t] = TRUE]
     /\ ipi' = [ipi EXCEPT ![t] = @ \/ t # h]
-------------------------------------------------------------------------------
(* The SBI calls: a trap from S-mode each, in a handler or not.  What they   *)
(* refuse is a trap like any other (Trap).                                   *)

Call(h) == Goto(h, "smode", "tail") /\ late' = [late EXCEPT ![h] = FALSE]

Trap(h) == Call(h) /\ UNCHANGED <<events, unmasked, kick, ipi, stack>>

Register(h, i) ==
  LET e == EventOf(i, h) IN
    /\ e \in Used
    /\ Call(h)
    /\ status[e] = "UNUSED"
    /\ status' = [status EXCEPT ![e] = "REGISTERED"]
    /\ UNCHANGED <<pending, hart, attrs, ready, stopping, unmasked, kick, ipi, stack>>

\* event_reset()
Reset(E, who) ==
  /\ status' = [e \in Event |-> IF e \in E THEN "UNUSED" ELSE status[e]]
  /\ pending' = [e \in Event |-> pending[e] /\ e \notin E]
  /\ hart' = [e \in Event |-> IF e \in E THEN who ELSE hart[e]]
  /\ prio' = [e \in Event |-> IF e \in E THEN 0 ELSE prio[e]]
  /\ oneshot' = [e \in Event |-> oneshot[e] /\ e \notin E]
  /\ pref' = [e \in Event |-> IF e \in E THEN who ELSE pref[e]]

Unregister(h, i) ==
  LET e == EventOf(i, h) IN
    /\ Call(h)
    /\ status[e] = "REGISTERED"
    /\ Reset({e}, hart[e])
    /\ UNCHANGED <<ready, stopping, unmasked, kick, ipi, stack>>

Enable(h, i) ==
  LET e == EventOf(i, h) IN
    /\ Call(h)
    /\ status[e] = "REGISTERED"
    /\ status' = [status EXCEPT ![e] = "ENABLED"]
    /\ IF pending[e] THEN MakePending(e, h) ELSE UNCHANGED <<pending, hart, kick, ipi>>
    /\ UNCHANGED <<attrs, ready, stopping, unmasked, stack>>

Disable(h, i) ==
  LET e == EventOf(i, h) IN
    /\ Call(h)
    /\ status[e] = "ENABLED"
    /\ status' = [status EXCEPT ![e] = "REGISTERED"]
    /\ UNCHANGED <<pending, hart, attrs, ready, stopping, unmasked, kick, ipi, stack>>

\* sse_write_attrs(), one attribute: what attr_write_check() lets through.
WriteAttrs(h, i) ==
  LET e == EventOf(i, h) IN
    /\ e \in Used
    /\ Call(h)
    /\ status[e] \in {"UNUSED", "REGISTERED"}
    /\ \/ /\ <<"PRIORITY", i>> \in Written
          /\ \E p \in Priority : prio' = [prio EXCEPT ![e] = p]
          /\ UNCHANGED <<oneshot, pref>>
       \/ /\ <<"CONFIG", i>> \in Written
          /\ oneshot' = [oneshot EXCEPT ![e] = ~@]
          /\ UNCHANGED <<prio, pref>>
       \/ /\ <<"PREFERRED_HART", i>> \in Written
          /\ IsGlobal(e)
          /\ \E t \in Hart : pref' = [pref EXCEPT ![e] = t]
          /\ UNCHANGED <<prio, oneshot>>
    /\ UNCHANGED <<status, pending, hart, ready, stopping, unmasked, kick, ipi, stack>>

\* sse_inject(): of a hart of the domain, for a local event.
Inject(h, i, t) ==
  /\ EventOf(i, t) \in Used
  /\ Call(h)
  /\ MakePending(EventOf(i, t), h)
  /\ UNCHANGED <<status, attrs, ready, stopping, unmasked, stack>>

\* A bug to tell apart: whatever this event kept waiting stays where it is.
CompleteQuietly(h) ==
  /\ Call(h)
  /\ \E e \in TopEvent(h, "RUNNING") :
       status' = [status EXCEPT ![e] = IF oneshot[e] THEN "REGISTERED" ELSE "ENABLED"]
  /\ stack' = [stack EXCEPT ![h] = SubSeq(@, 1, Len(@) - 1)]
  /\ UNCHANGED <<pending, hart, attrs, ready, stopping, unmasked, kick, ipi>>

\* sse_complete(): the register file is what the event interrupted.
Complete(h) ==
  /\ Call(h)
  /\ \E e \in TopEvent(h, "RUNNING") :
       status' = [status EXCEPT ![e] = IF oneshot[e] THEN "REGISTERED" ELSE "ENABLED"]
  /\ stack' = [stack EXCEPT ![h] = SubSeq(@, 1, Len(@) - 1)]
  /\ kick' = [kick EXCEPT ![h] = TRUE]
  /\ UNCHANGED <<pending, hart, attrs, ready, stopping, unmasked, ipi>>

\* sse_hart_unmask(), two writes: who raises an event in between sets kick as
\* well.
HartUnmask(h) ==
  /\ ~unmasked[h]
  /\ Call(h)
  /\ unmasked' = [unmasked EXCEPT ![h] = TRUE]
  /\ kick' = [kick EXCEPT ![h] = TRUE]
  /\ UNCHANGED <<events, ipi, stack>>

HartMask(h) ==
  /\ unmasked[h]
  /\ Call(h)
  /\ unmasked' = [unmasked EXCEPT ![h] = FALSE]
  /\ UNCHANGED <<events, kick, ipi, stack>>
-------------------------------------------------------------------------------
(* Sources in the monitor, and the IPI that takes a hart through its trap    *)
(* exit                                                                      *)

RaiseLocal(h, i) ==
  /\ Call(h)
  /\ status[<<i, h>>] # "UNUSED"
  /\ MakePending(<<i, h>>, h)
  /\ UNCHANGED <<status, attrs, ready, stopping, unmasked, stack>>

\* From any hart that passes through the monitor, in a trap, asleep, stopped or
\* in another domain.
RaiseGlobal(h, i) ==
  LET e == EventOf(i, h) IN
    /\ ready /\ status[e] # "UNUSED"
    /\ \/ Call(h)
       \/ pc[h] \in {"sleep", "stopped", "away"} /\ UNCHANGED <<pc, late>>
    /\ MakePending(e, h)
    /\ UNCHANGED <<status, attrs, ready, stopping, unmasked, stack>>

TrapIpi(h) ==
  /\ ipi[h]
  /\ Call(h)
  /\ ipi' = [ipi EXCEPT ![h] = FALSE]
  /\ UNCHANGED <<events, unmasked, kick, stack>>

\* sse_process(), when kick is not set.
TrapExit(h) ==
  /\ ~stopping /\ ~kick[h]
  /\ Goto(h, "tail", "smode")
  /\ UNCHANGED <<events, unmasked, kick, ipi, stack, late>>

\* Is the next event to be delivered now?
Due(h) ==
  /\ unmasked[h]
  /\ \E e \in TopEvent(h, "ENABLED") :
       \A r \in TopEvent(h, "RUNNING") : Outranks(e, r)

\* sse_process(), inject() included.  That kick is read before the lock is taken
\* makes no difference: only its own hart ever clears it.
Process(h) ==
  /\ ~stopping /\ kick[h]
  /\ Goto(h, "tail", "smode")
  /\ kick' = [kick EXCEPT ![h] = TopEvent(h, "ENABLED") # {}]
  /\ IF Due(h)
       THEN \E e \in TopEvent(h, "ENABLED") :
              /\ status' = [status EXCEPT ![e] = "RUNNING"]
              /\ pending' = [pending EXCEPT ![e] = FALSE]
              /\ stack' = [stack EXCEPT ![h] = Append(@, e)]
       ELSE UNCHANGED <<status, pending, stack>>
  /\ UNCHANGED <<hart, attrs, ready, stopping, unmasked, ipi, late>>
-------------------------------------------------------------------------------
(* Harts come and go *)

\* sse_hart_init()
HartInit(h) ==
  /\ Reset({e \in Event : e[2] = h \/ (IsGlobal(e) /\ ~ready)}, h)
  /\ ready' = TRUE
  /\ unmasked' = [unmasked EXCEPT ![h] = FALSE]

\* hart_runtime_init(), for a hart that starts or that lost its state in a
\* non-retentive suspend.
HartStart(h) ==
  /\ ~stopping /\ stack[h] = <<>>
  /\ pc[h] \in {"stopped", "sleep", "wfi"}
  /\ pc' = [pc EXCEPT ![h] = "smode"]
  /\ HartInit(h)
  /\ ipi' = [ipi EXCEPT ![h] = FALSE]
  /\ UNCHANGED <<stopping, kick, stack, late>>

\* sse_hart_switch_in(true): the hart's first entry into the domain is a switch
\* from another one, and it stops there if it is not the one the domain boots on.
SwitchInFresh(h) ==
  /\ ~stopping /\ pc[h] = "stopped"
  /\ \E next \in {"tail", "stopped"} : pc' = [pc EXCEPT ![h] = next]
  /\ HartInit(h)
  /\ kick' = [kick EXCEPT ![h] = TRUE]
  /\ UNCHANGED <<stopping, ipi, stack, late>>

HartStop(h) ==
  /\ stack[h] = <<>>
  /\ Goto(h, "smode", "stopped")
  /\ ipi' = [ipi EXCEPT ![h] = FALSE]
  /\ late' = [late EXCEPT ![h] = FALSE]
  /\ UNCHANGED <<events, unmasked, kick, stack>>

\* domain_stop(): contexts that wait go at once, harts that run stop where a trap
\* ends or asleep, handlers or not, and sse_domain_reset() follows the last one.
DomainStop ==
  /\ ~stopping
  /\ stopping' = TRUE
  /\ pc' = [h \in Hart |-> IF pc[h] = "away" THEN "stopped" ELSE pc[h]]
  /\ stack' = [h \in Hart |-> IF pc[h] = "away" THEN <<>> ELSE stack[h]]
  /\ UNCHANGED <<status, pending, hart, attrs, ready, unmasked, kick, ipi, late>>

StopSelf(h) ==
  /\ stopping
  /\ pc[h] \in {"tail", "sleep"}
  /\ pc' = [pc EXCEPT ![h] = "stopped"]
  /\ stack' = [stack EXCEPT ![h] = <<>>]
  /\ ipi' = [ipi EXCEPT ![h] = FALSE]
  /\ UNCHANGED <<events, unmasked, kick, late>>

DomainReset ==
  /\ stopping /\ \A h \in Hart : pc[h] = "stopped"
  /\ stopping' = FALSE
  /\ ready' = FALSE
  /\ UNCHANGED <<status, pending, hart, attrs, unmasked, kick, ipi, pc, stack, late>>

\* hart_suspend(), and hsm_wait_for_wakeup(): awake for an event, or for an
\* interrupt of S-mode's.  A retentive suspend ends like any call; the other
\* one enters S-mode at the resume address.
Suspend(h) ==
  /\ h \in Movers
  /\ Goto(h, "smode", "suspending")
  /\ late' = [late EXCEPT ![h] = FALSE]
  /\ UNCHANGED <<events, unmasked, kick, ipi, stack>>

Suspended(h) ==
  /\ Goto(h, "suspending", "sleep")
  /\ UNCHANGED <<events, unmasked, kick, ipi, stack, late>>

SleepCheck(h) ==
  /\ ~kick[h]
  /\ Goto(h, "sleep", "wfi")
  /\ UNCHANGED <<events, unmasked, kick, ipi, stack, late>>

WfiEnds(h) ==
  /\ Goto(h, "wfi", "sleep")
  /\ ipi' = [ipi EXCEPT ![h] = FALSE]
  /\ UNCHANGED <<events, unmasked, kick, stack, late>>

Wake(h) ==
  /\ Goto(h, "sleep", "resuming")
  /\ UNCHANGED <<events, unmasked, kick, ipi, stack, late>>

Resume(h) ==
  /\ Goto(h, "resuming", "tail")
  /\ UNCHANGED <<events, unmasked, kick, ipi, stack, late>>

ResumeNonRetentive(h) ==
  /\ stack[h] = <<>>
  /\ Goto(h, "resuming", "smode")
  /\ late' = [late EXCEPT ![h] = TRUE]
  /\ UNCHANGED <<events, unmasked, kick, ipi, stack>>

\* To another domain, where sse_process() finds nothing of this one's.
Leave(h) ==
  /\ h \in Movers /\ ~stopping
  /\ Goto(h, "smode", "away")
  /\ late' = [late EXCEPT ![h] = FALSE]
  /\ UNCHANGED <<events, unmasked, kick, ipi, stack>>

AwayTrap(h) ==
  /\ pc[h] = "away"
  /\ ipi' = [ipi EXCEPT ![h] = FALSE]
  /\ kick' = [kick EXCEPT ![h] = FALSE]
  /\ UNCHANGED <<events, unmasked, pc, stack, late>>

\* sse_hart_switch_in(), on the way out of a trap ...
Return(h) ==
  /\ Goto(h, "away", "tail")
  /\ kick' = [kick EXCEPT ![h] = TRUE]
  /\ UNCHANGED <<events, unmasked, ipi, stack, late>>

\* ... or from domain_stop_self() without one.
ReturnStopped(h) ==
  /\ Goto(h, "away", "smode")
  /\ kick' = [kick EXCEPT ![h] = TRUE]
  /\ late' = [late EXCEPT ![h] = TRUE]
  /\ UNCHANGED <<events, unmasked, ipi, stack>>
-------------------------------------------------------------------------------
Next ==
  \/ DomainStop \/ DomainReset
  \/ \E h \in Hart :
       \/ TrapExit(h) \/ Process(h) \/ TrapIpi(h)
       \/ Trap(h) \/ Complete(h) \/ HartUnmask(h) \/ HartMask(h)
       \/ \E i \in LocalId \cup GlobalId :
            \/ Register(h, i) \/ Unregister(h, i) \/ Enable(h, i) \/ Disable(h, i)
            \/ WriteAttrs(h, i)
            \/ \E t \in Hart : Inject(h, i, t)
       \/ \E i \in LocalId : RaiseLocal(h, i)
       \/ \E i \in GlobalId : RaiseGlobal(h, i)
       \/ HartStart(h) \/ SwitchInFresh(h) \/ HartStop(h) \/ StopSelf(h)
       \/ Suspend(h) \/ Suspended(h) \/ SleepCheck(h) \/ WfiEnds(h) \/ Wake(h)
       \/ Resume(h) \/ ResumeNonRetentive(h)
       \/ Leave(h) \/ AwayTrap(h) \/ Return(h) \/ ReturnStopped(h)

Spec == Init /\ [][Next]_vars
-------------------------------------------------------------------------------
(* sse.c: every event has its state, its hart and its attributes; a hart is in *)
(* as many handlers as the domain has events for it, at most.                  *)
TypeOK ==
  /\ status \in [Event -> Status]
  /\ pending \in [Event -> BOOLEAN]
  /\ hart \in [Event -> Hart]
  /\ \A e \in Event : ~IsGlobal(e) => hart[e] = e[2] /\ pref[e] = e[2]
  /\ prio \in [Event -> Priority]
  /\ oneshot \in [Event -> BOOLEAN]
  /\ pref \in [Event -> Hart]
  /\ ready \in BOOLEAN
  /\ stopping \in BOOLEAN
  /\ unmasked \in [Hart -> BOOLEAN]
  /\ kick \in [Hart -> BOOLEAN]
  /\ ipi \in [Hart -> BOOLEAN]
  /\ pc \in [Hart -> Label]
  /\ stack \in [Hart -> Seq(Event)]
  /\ late \in [Hart -> BOOLEAN]

(* sse_complete() picks the top RUNNING event of the hart and puts back what   *)
(* that one saved: right only if it is the innermost handler S-mode is in.     *)
(* The RUNNING events of a hart are the handlers it is in, and each outranks   *)
(* the ones it interrupted, whatever moves, starts or is raised meanwhile.     *)
HandlersNest ==
  \A h \in Hart : pc[h] # "stopped" =>
    /\ Candidates(h, "RUNNING") = Range(stack[h])
    /\ \A i, j \in DOMAIN stack[h] : i < j => Outranks(stack[h][j], stack[h][i])

(* sse.h, "is an event waiting for this hart": an event that can be delivered  *)
(* to a hart in S-mode or asleep is never forgotten.  kick is set, and an IPI  *)
(* takes the hart through a trap exit, unless it entered S-mode without one.   *)
NothingForgotten ==
  \A h \in Hart :
    Due(h) /\ pc[h] \in {"smode", "wfi"} => kick[h] /\ (ipi[h] \/ late[h])

(* docs/domains.md: an event "that becomes due for a hart that is away is      *)
(* delivered when the hart is back".  Not by domain_stop_self() on a hart that  *)
(* was suspended without its state: it goes back to S-mode by no trap exit, and *)
(* the event waits for the next trap.                                           *)
DeliveredWhenBack ==
  [][\A h \in Hart : pc[h] = "away" /\ pc'[h] = "smode" => ~Due(h)' \/ ipi'[h]]_vars
================================================================================
