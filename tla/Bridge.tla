--------------------------------- MODULE Bridge ---------------------------------
(***************************************************************************)
(* Requests that travel with the hart: the bridge of                       *)
(* services/mpxy/mpxy_rpmi_fw.c.  A source domain's MM_COMMUNICATE puts    *)
(* its message into a slot and takes the hart to the bridge's domain,      *)
(* which retrieves it, and completing it takes the hart back with the      *)
(* answer.  The moves are those of domain_context.c, on one hart that      *)
(* every domain boots on; other harts may stop a domain meanwhile and a    *)
(* domain that was stopped starts over.                                    *)
(*                                                                         *)
(* A context keeps what its call expects when the hart is back, so that    *)
(* what it is given can be compared with it.                               *)
(***************************************************************************)
EXTENDS Naturals

CONSTANTS BDomain,      \* the domains
          NoBDomain,
          Host,         \* the domain at the bridge's end
          Source,       \* the domains of the bridge's sources
          BEntry,       \* <<from, to>>: riscv,entry-allowed-from
          MayStop,      \* the domains that others stop
          MaxLives      \* bound: how often a domain starts

ASSUME BridgeAssumption ==
  /\ NoBDomain \notin BDomain
  /\ Host \in BDomain /\ Source \subseteq BDomain \ {Host}
  /\ BEntry \subseteq BDomain \X BDomain
  /\ MayStop \subseteq BDomain
  /\ MaxLives \in Nat \ {0}

VARIABLES bcur,         \* the domain the hart is in, NoBDomain when it is stopped
          bctx,         \* [BDomain -> enum context_state]
          bcaller,      \* [BDomain -> its context's caller]
          bstopping,    \* [BDomain -> BOOLEAN]
          lives,        \* [BDomain -> how often it has started]
          waits,        \* [BDomain -> the call its context waits in]
          slot,         \* [BDomain -> the slot of its context]
          request,      \* the switch_request of the hart
          given         \* what the context that last got the hart was given

bridgeVars == <<bcur, bctx, bcaller, bstopping, lives, waits, slot, request, given>>

SlotState == {"FREE", "SENT", "RETRIEVED", "COMPLETED", "FAILED"}
NothingGiven == [waited |-> "none", got |-> "none"]

\* The hart boots one of its domains.
BridgeInit ==
  /\ bcur \in Source \cup {Host}
  /\ bctx = [d \in BDomain |-> IF d = bcur THEN "RUNNING" ELSE "NONE"]
  /\ bcaller = [d \in BDomain |-> NoBDomain]
  /\ bstopping = [d \in BDomain |-> FALSE]
  /\ lives = [d \in BDomain |-> IF d = bcur THEN 1 ELSE 0]
  /\ waits = [d \in BDomain |-> "none"]
  /\ slot = [d \in BDomain |-> "FREE"]
  /\ request = "NONE"
  /\ given = NothingGiven

BCallerWaits == bcaller[bcur] # NoBDomain /\ bctx[bcaller[bcur]] = "CALLING"
CanStart(d) == bctx[d] = "NONE" /\ lives[d] < MaxLives

\* slot_for(): is there a message the hart came with?
SlotFor == BCallerWaits /\ slot[bcaller[bcur]] \in {"SENT", "RETRIEVED"}

\* domain_enterable()
BEnterable(to) ==
  /\ to # bcur /\ ~bstopping[to]
  /\ bctx[to] = "IDLE" \/ CanStart(to)

\* A bug to tell apart: a hart that is back without an answer gives none.
ResumedIfCompleted(to) == IF slot[to] = "COMPLETED" THEN "mm" ELSE "call"

\* mpxy_context_resumed(): any state but FREE is an answer to MM_COMMUNICATE.
Resumed(to) == IF slot[to] # "FREE" THEN "mm" ELSE "call"

\* context_park() and context_switch(); a context that is new starts from its
\* entry point, any other is given the answer to a message, or to its call.
Move(park, call, to, caller) ==
  /\ bcur' = to
  /\ bctx' = [bctx EXCEPT ![bcur] = park, ![to] = "RUNNING"]
  /\ bcaller' = [bcaller EXCEPT ![bcur] = IF park = "CALLING" THEN @ ELSE NoBDomain,
                                ![to] = caller]
  /\ waits' = [waits EXCEPT ![bcur] = call, ![to] = "none"]
  /\ IF bctx[to] = "NONE"
       THEN /\ lives' = [lives EXCEPT ![to] = @ + 1]
            /\ UNCHANGED <<slot, given>>
       ELSE /\ given' = [waited |-> waits[to], got |-> Resumed(to)]
            /\ slot' = [slot EXCEPT ![to] = "FREE"]
            /\ UNCHANGED lives
  /\ UNCHANGED bstopping
-------------------------------------------------------------------------------
(* Channel operations; mpxy_switch_pending() ends the ecall they are part of *)

\* mm_service(): with this very hart, where that gets the request there.
MmCommunicate ==
  /\ bcur \in Source /\ request = "NONE" /\ BEnterable(Host)
  /\ slot' = [slot EXCEPT ![bcur] = "SENT"]
  /\ request' = "TO"
  /\ UNCHANGED <<bcur, bctx, bcaller, bstopping, lives, waits, given>>

\* SWITCH_TO: the domain it was for may be stopping by now, and that is the answer.
SwitchTo ==
  /\ request = "TO" /\ request' = "NONE"
  /\ IF BEnterable(Host) /\ ~bstopping[bcur]
       THEN Move("CALLING", "mm", Host, bcur)
       ELSE /\ slot' = [slot EXCEPT ![bcur] = "FREE"]
            /\ given' = [waited |-> "mm", got |-> "mm"]
            /\ UNCHANGED <<bcur, bctx, bcaller, bstopping, lives, waits>>

\* reqfwd_service(), RETRIEVE: the slot's message; with none in the queue either,
\* somebody else's turn.
BridgeRetrieve ==
  /\ bcur = Host /\ request = "NONE"
  /\ IF SlotFor
       THEN slot' = [slot EXCEPT ![bcaller[bcur]] = "RETRIEVED"] /\ UNCHANGED request
       ELSE request' = "YIELD" /\ UNCHANGED slot
  /\ UNCHANGED <<bcur, bctx, bcaller, bstopping, lives, waits, given>>

\* COMPLETE, with an answer that fits or one that does not.
BridgeComplete ==
  /\ bcur = Host /\ request = "NONE"
  /\ SlotFor /\ slot[bcaller[bcur]] = "RETRIEVED"
  /\ \E fits \in BOOLEAN :
       slot' = [slot EXCEPT ![bcaller[bcur]] = IF fits THEN "COMPLETED" ELSE "FAILED"]
  /\ request' = "BACK"
  /\ UNCHANGED <<bcur, bctx, bcaller, bstopping, lives, waits, given>>

\* leave(), quiet: to the caller, or to a source that has not started here yet.
Leave(call) ==
  \/ BCallerWaits /\ ~bstopping[bcur] /\ Move("IDLE", call, bcaller[bcur], bcaller[bcaller[bcur]])
  \/ /\ ~BCallerWaits /\ ~bstopping[bcur] /\ call = "retrieve"
     /\ \E d \in Source : CanStart(d) /\ ~bstopping[d] /\ Move("IDLE", call, d, NoBDomain)

SwitchBack ==
  /\ request = "BACK" /\ request' = "NONE"
  /\ \/ Leave("complete")
     \/ /\ ~BCallerWaits \/ bstopping[bcur]
        /\ UNCHANGED <<bcur, bctx, bcaller, bstopping, lives, waits, slot, given>>

\* SWITCH_YIELD: RETRIEVE is made again when the hart is back.
SwitchYield ==
  /\ request = "YIELD" /\ request' = "NONE"
  /\ \/ Leave("retrieve")
     \/ /\ bstopping[bcur] \/ (~BCallerWaits /\ ~\E d \in Source : CanStart(d) /\ ~bstopping[d])
        /\ UNCHANGED <<bcur, bctx, bcaller, bstopping, lives, waits, slot, given>>
-------------------------------------------------------------------------------
(* The calls of the domain service, and stops *)

\* domain_enter()
BridgeEnter(to) ==
  /\ bcur # NoBDomain /\ request = "NONE" /\ to # bcur
  /\ <<bcur, to>> \in BEntry /\ ~bstopping[to] /\ ~bstopping[bcur]
  /\ bctx[to] = "IDLE" \/ CanStart(to)
  /\ Move("CALLING", "enter", to, bcur)
  /\ UNCHANGED request

\* domain_exit() to the caller.
BridgeExit ==
  /\ bcur # NoBDomain /\ request = "NONE"
  /\ BCallerWaits /\ ~bstopping[bcur]
  /\ Move("IDLE", "exit", bcaller[bcur], bcaller[bcaller[bcur]])
  /\ UNCHANGED request

\* domain_stop() on another hart: the contexts that wait are gone at once.
StopDomain(d) ==
  /\ d \in MayStop /\ ~bstopping[d] /\ bctx[d] # "NONE"
  /\ bstopping' = [bstopping EXCEPT ![d] = TRUE]
  /\ IF bctx[d] \in {"CALLING", "IDLE"}
       THEN /\ bctx' = [bctx EXCEPT ![d] = "NONE"]
            /\ bcaller' = [bcaller EXCEPT ![d] = NoBDomain]
            /\ waits' = [waits EXCEPT ![d] = "none"]
       ELSE UNCHANGED <<bctx, bcaller, waits>>
  /\ UNCHANGED <<bcur, lives, slot, request, given>>

\* domain_stop_self(), on the way out of a trap: back to the caller, its call
\* failed, or the hart stops.
StopSelf ==
  /\ bcur # NoBDomain /\ request = "NONE" /\ bstopping[bcur]
  /\ IF BCallerWaits
       THEN Move("NONE", "none", bcaller[bcur], bcaller[bcaller[bcur]])
       ELSE /\ bctx' = [bctx EXCEPT ![bcur] = "NONE"]
            /\ bcaller' = [bcaller EXCEPT ![bcur] = NoBDomain]
            /\ bcur' = NoBDomain
            /\ UNCHANGED <<bstopping, lives, waits, slot, given>>
  /\ UNCHANGED request

StopDone(d) ==
  /\ bstopping[d] /\ bcur # d
  /\ bstopping' = [bstopping EXCEPT ![d] = FALSE]
  /\ UNCHANGED <<bcur, bctx, bcaller, lives, waits, slot, request, given>>

\* domain_start(): a domain with no context here gets the stopped hart.
StartDomain(d) ==
  /\ bcur = NoBDomain /\ CanStart(d) /\ ~bstopping[d]
  /\ bcur' = d
  /\ bctx' = [bctx EXCEPT ![d] = "RUNNING"]
  /\ lives' = [lives EXCEPT ![d] = @ + 1]
  /\ UNCHANGED <<bcaller, bstopping, waits, slot, request, given>>

BridgeNext ==
  \/ MmCommunicate \/ SwitchTo \/ BridgeRetrieve \/ BridgeComplete
  \/ SwitchBack \/ SwitchYield
  \/ \E d \in BDomain : BridgeEnter(d) \/ StopDomain(d) \/ StopDone(d) \/ StartDomain(d)
  \/ BridgeExit \/ StopSelf

BridgeSpec == BridgeInit /\ [][BridgeNext]_bridgeVars
-------------------------------------------------------------------------------
(* Properties *)

\* A context that gets the hart back is given what its call expects: the answer
\* to MM_COMMUNICATE when it waits in one, however the hart came back, and in any
\* other call never such an answer over the call's own result
\* (mpxy_context_resumed()).
AnswerGoesToSender == given.waited = "mm" <=> given.got = "mm"
================================================================================
