------------------------------- MODULE RpmiClients -------------------------------
(***************************************************************************)
(* What the monitor asks the platform microcontroller (PuC) and keeps: the *)
(* CPPC fast channels (drivers/cppc/rpmi_cppc.c), the suspend types of     *)
(* drivers/hsm/rpmi_hsm.c, the reset types of drivers/reset/rpmi_reset.c   *)
(* and the MPXY channels of services/mpxy/mpxy_rpmi.c, with the rules of   *)
(* mpxy_rpmi_groups.c and the buffer of notification events.               *)
(*                                                                         *)
(* rpmi_call() is one step (module Rpmi has its inside): the PuC answers,  *)
(* or is silent, which it is until it is up.  What the PuC would answer is *)
(* fixed from the start.                                                   *)
(***************************************************************************)
EXTENDS Naturals, Sequences, FiniteSets, SequencesExt

CONSTANTS CHart,
          PucFacts,       \* what the PuC may be, one of them from the start
          MaxTypes,       \* CONFIG_HSM_RPMI_MAX_SUSPEND_TYPES
          PageTypes,      \* suspend types in an answer
          MaxSysmsi,      \* CONFIG_MPXY_RPMI_MAX_SYSMSI
          EventBuf,       \* CONFIG_MPXY_RPMI_EVENT_BUF_SIZE
          EventMax,       \* the room for events in a page of shared memory
          MaxEvents,      \* bound: the events the PuC sends
          StoresReorder   \* may another hart see a later plain store first?

ASSUME ClientAssumption ==
  /\ {MaxTypes, PageTypes} \subseteq Nat \ {0}
  /\ {MaxSysmsi, EventBuf, MaxEvents} \subseteq Nat
  /\ EventMax \in Nat /\ StoresReorder \in BOOLEAN

VARIABLES facts,         \* the PuC: autonomous, usable, types, resets, msis, reserved, topic
          up,            \* does it answer?
          fc,            \* the fast channels: state, autonomous
          fc_harts,      \* [CHart -> its channels: not known, usable or not]
          fc_request,    \* [CHart -> the words of its request channel]
          reg,           \* [CHart -> the register it writes]
          cpc,           \* [CHart -> what it is about to do]
          suspend_types, suspend_types_known,
          fetched,       \* [CHart -> the types it has fetched so far]
          support,       \* [reset type -> UNKNOWN, NO, YES]
          probed, msi_denied, passed_on,   \* the SYSTEM_MSI channel
          ebuf, elost, enext, edelivered, ereported   \* events, numbered

clientsVars == <<facts, up, fc, fc_harts, fc_request, reg, cpc, suspend_types,
                suspend_types_known, fetched, support, probed, msi_denied, passed_on,
                ebuf, elost, enext, edelivered, ereported>>
fcVars == <<fc, fc_harts, fc_request, reg>>
typeVars == <<suspend_types, suspend_types_known, fetched>>
msiVars == <<probed, msi_denied, passed_on>>
eventVars == <<ebuf, elost, enext, edelivered, ereported>>

Reg == {"DESIRED", "EARLY", "MIN", "MAX"}
ResetType == {"SHUTDOWN", "COLD", "WARM"}

ClientInit ==
  /\ facts \in PucFacts
  /\ up = facts.upAtBoot
  /\ fc = IF ~up THEN [state |-> "UNKNOWN", autonomous |-> FALSE]
          ELSE [state |-> IF facts.usable THEN "READY" ELSE "NONE",
                autonomous |-> facts.usable /\ facts.autonomous]   \* fc_discover(true)
  /\ fc_harts = [h \in CHart |-> "UNKNOWN"]
  /\ fc_request = [h \in CHart |-> <<"none", "none">>]
  /\ reg = [h \in CHart |-> "EARLY"]
  /\ cpc = [h \in CHart |-> "smode"]
  /\ suspend_types = <<>> /\ suspend_types_known = FALSE
  /\ fetched = [h \in CHart |-> 0]
  /\ support = [t \in ResetType |-> "UNKNOWN"]
  /\ probed = FALSE /\ msi_denied = {} /\ passed_on = {}
  /\ ebuf = <<>> /\ elost = 0 /\ enext = 1 /\ edelivered = <<>> /\ ereported = 0

ClientGoes(h, from, to) == cpc[h] = from /\ cpc' = [cpc EXCEPT ![h] = to]

PucComesUp ==
  /\ ~up /\ up' = TRUE
  /\ UNCHANGED <<facts, fcVars, cpc, typeVars, support, msiVars, eventVars>>
-------------------------------------------------------------------------------
(* CPPC *)

\* fc_write()'s look at the mode; other registers go by message.  "EARLY" is the
\* desired performance too, of a write that begins before the mode is known.
CppcWrite(h) ==
  /\ facts.topic = "cppc"
  /\ \E r \in Reg :
       /\ r \in (CASE fc.autonomous -> {"MIN", "MAX"}
                 [] fc.state = "READY" -> {"DESIRED"}
                 [] OTHER -> {"EARLY"})
       /\ reg' = [reg EXCEPT ![h] = r]
  /\ ClientGoes(h, "smode", "fc_discover")
  /\ UNCHANGED <<facts, up, fc, fc_harts, fc_request, typeVars, support, msiVars, eventVars>>

\* fc_discover(), under fc_lock: an answer is "none" until it has been looked at.
FcDiscover(h) ==
  LET asks == fc.state = "UNKNOWN" /\ up
  IN  /\ ClientGoes(h, "fc_discover", IF asks /\ facts.usable THEN "fc_region" ELSE "fc_hart")
      /\ fc' = IF asks THEN [fc EXCEPT !.state = "NONE"] ELSE fc
      /\ UNCHANGED <<facts, up, fc_harts, fc_request, reg, typeVars, support, msiVars, eventVars>>

\* Its end, with a region that can be used
FcReady(h) ==
  /\ ClientGoes(h, "fc_region", "fc_hart")
  /\ fc' = [state |-> "READY", autonomous |-> facts.autonomous]
  /\ UNCHANGED <<facts, up, fc_harts, fc_request, reg, typeVars, support, msiVars, eventVars>>

\* fc_hart(): the hart's own channels are asked for until there is an answer; with
\* none that can be used, a message.
FcHart(h) ==
  /\ IF fc.state = "READY" /\ fc_harts[h] = "UNKNOWN" /\ up
       THEN \E k \in {"USABLE", "UNUSABLE"} : fc_harts' = [fc_harts EXCEPT ![h] = k]
       ELSE UNCHANGED fc_harts
  /\ ClientGoes(h, "fc_hart",
       IF fc.state = "READY" /\ fc_harts'[h] = "USABLE" THEN "fc_write" ELSE "smode")
  /\ UNCHANGED <<facts, up, fc, fc_request, reg, typeVars, support, msiVars, eventVars>>

\* (desired, 0), or (minimum, maximum)
FcWrite(h) ==
  /\ ClientGoes(h, "fc_write", "smode")
  /\ fc_request' = [fc_request EXCEPT ![h] =
       LET first == IF reg[h] = "MAX" THEN @[1] ELSE reg[h]
           second == IF reg[h] = "MAX" THEN reg[h] ELSE @[2]
       IN  <<first, IF fc.autonomous THEN second ELSE "zero">>]
  /\ UNCHANGED <<facts, up, fc, fc_harts, reg, typeVars, support, msiVars, eventVars>>
-------------------------------------------------------------------------------
(* Suspend types, reset types *)

\* rpmi_hsm_hart_suspend() with a platform type: the list first, if it is not known
HartSuspend(h) ==
  /\ facts.topic = "suspend" /\ ~suspend_types_known
  /\ ClientGoes(h, "smode", "fetch")
  /\ fetched' = [fetched EXCEPT ![h] = 0]
  /\ UNCHANGED <<facts, up, fcVars, suspend_types, suspend_types_known, support,
                 msiVars, eventVars>>

Smaller(m, n) == IF m < n THEN m ELSE n

\* suspend_types_fetch(), an answer at a time: each writes its part of the one list
FetchTypes(h) ==
  LET n == fetched[h]
      returned == Smaller(PageTypes, Len(facts.types) - n)
      upto == Smaller(n + returned, MaxTypes)
      more == n + returned < Len(facts.types) /\ upto < MaxTypes
  IN  /\ up
      /\ ClientGoes(h, "fetch", IF more THEN "fetch" ELSE "known")
      /\ fetched' = [fetched EXCEPT ![h] = upto]
      /\ suspend_types' =
           SubSeq(facts.types, 1, upto) \o SubSeq(suspend_types, upto + 1, Len(suspend_types))
      /\ UNCHANGED <<facts, up, fcVars, suspend_types_known, support, msiVars, eventVars>>

FetchSilent(h) ==
  /\ ~up /\ ClientGoes(h, "fetch", "smode")
  /\ UNCHANGED <<facts, up, fcVars, typeVars, support, msiVars, eventVars>>

TypesKnown(h) ==
  /\ ClientGoes(h, "known", "smode")
  /\ suspend_types_known' = TRUE
  /\ UNCHANGED <<facts, up, fcVars, suspend_types, fetched, support, msiVars, eventVars>>

\* rpmi_reset_supported(): silence is not remembered.
ResetSupported(t) ==
  /\ facts.topic = "reset" /\ up /\ support[t] = "UNKNOWN"
  /\ support' = [support EXCEPT ![t] = IF t \in facts.resets THEN "YES" ELSE "NO"]
  /\ UNCHANGED <<facts, up, fcVars, cpc, typeVars, msiVars, eventVars>>
-------------------------------------------------------------------------------
(* The MPXY channel of the SYSTEM_MSI group *)

\* sysmsi_setup() after n answers about one MSI each.
SysmsiSetup(n) == msi_denied \cup (facts.reserved \cap 0 .. n - 1)

\* mpxy_rpmi_ask_puc() with sysmsi_setup(): the PuC may fall silent after any of
\* its answers, and then it is asked again next time.
AskPuc ==
  /\ facts.topic = "msi" /\ up /\ ~probed
  /\ \E n \in 0 .. Smaller(facts.msis, MaxSysmsi) :
       /\ msi_denied' = SysmsiSetup(n)
       /\ probed' = (n = Smaller(facts.msis, MaxSysmsi))
  /\ UNCHANGED <<facts, up, fcVars, cpc, typeVars, support, passed_on, eventVars>>

\* What another hart reads once it has read "probed": the bit of the last MSI and
\* "probed" are two plain stores after the last call, in no order of their own.
DeniedSeen ==
  {msi_denied} \cup
  (IF StoresReorder THEN {msi_denied \ {Smaller(facts.msis, MaxSysmsi) - 1}} ELSE {})

\* sysmsi_filter(): an MSI there is, and not one of the monitor's own.
SysmsiFilter(i) == i < facts.msis /\ i < MaxSysmsi /\ \E seen \in DeniedSeen : i \notin seen

\* mpxy_rpmi_send(): a request about MSI i reaches the PuC.
MpxyRpmiSend(i) ==
  /\ probed
  /\ SysmsiFilter(i)
  /\ passed_on' = passed_on \cup {i}
  /\ UNCHANGED <<facts, up, fcVars, cpc, typeVars, support, probed, msi_denied, eventVars>>
-------------------------------------------------------------------------------
(* Notification events *)

Size(e) == 1 + (e % 2)
SumSizes(s) == FoldLeft(LAMBDA n, e : n + Size(e), 0, s)

\* A bug to tell apart: an event that does not fit pushes out the oldest.
EventSinkDrops ==
  /\ facts.topic = "events" /\ enext <= MaxEvents
  /\ enext' = enext + 1
  /\ ebuf' = IF SumSizes(ebuf) + Size(enext) <= EventBuf THEN Append(ebuf, enext)
             ELSE Append(Tail(ebuf), enext)
  /\ UNCHANGED <<facts, up, fcVars, cpc, typeVars, support, msiVars, elost, edelivered, ereported>>

\* mpxy_rpmi_event_sink()
EventSink ==
  /\ facts.topic = "events" /\ enext <= MaxEvents
  /\ enext' = enext + 1
  /\ IF SumSizes(ebuf) + Size(enext) <= EventBuf
       THEN ebuf' = Append(ebuf, enext) /\ UNCHANGED elost
       ELSE elost' = elost + 1 /\ UNCHANGED ebuf
  /\ UNCHANGED <<facts, up, fcVars, cpc, typeVars, support, msiVars, edelivered, ereported>>

\* mpxy_rpmi_get_events(): the whole events that fit, oldest first, and the losses
GetRpmiEvents ==
  LET fits == {n \in 0 .. Len(ebuf) : SumSizes(SubSeq(ebuf, 1, n)) <= EventMax}
      n == CHOOSE m \in fits : \A k \in fits : k <= m
  IN  /\ facts.topic = "events" /\ (ebuf # <<>> \/ elost > 0)
      /\ edelivered' = edelivered \o SubSeq(ebuf, 1, n)
      /\ ebuf' = SubSeq(ebuf, n + 1, Len(ebuf))
      /\ ereported' = ereported + elost
      /\ elost' = 0
      /\ UNCHANGED <<facts, up, fcVars, cpc, typeVars, support, msiVars, enext>>

ClientNext ==
  \/ PucComesUp \/ AskPuc \/ EventSink \/ GetRpmiEvents
  \/ \E t \in ResetType : ResetSupported(t)
  \/ \E i \in 0 .. facts.msis : MpxyRpmiSend(i)
  \/ \E h \in CHart :
       \/ CppcWrite(h) \/ FcDiscover(h) \/ FcReady(h) \/ FcHart(h) \/ FcWrite(h)
       \/ HartSuspend(h) \/ FetchTypes(h) \/ FetchSilent(h) \/ TypesKnown(h)

ClientSpec == ClientInit /\ [][ClientNext]_clientsVars
-------------------------------------------------------------------------------
(* Properties *)

\* The words of a request channel hold what the PuC reads there in the mode it is
\* in: the desired performance and zero, or the minimum and the maximum.  Where the
\* minimum belongs there may be a desired performance, but only one whose write
\* began before any answer about the mode had been looked at (fc_write()).
FastChannelMeans ==
  \A h \in CHart :
    fc_request[h] \in (IF facts.autonomous
                      THEN {"none", "MIN", "EARLY"} \X {"none", "MAX"}
                      ELSE {<<"none", "none">>} \cup ({"DESIRED", "EARLY"} \X {"zero"}))

\* The same without the exception: a PuC "that shows up later still gets its fast
\* channels used".  This FAILS for one in autonomous mode: fc_write() looks at
\* fc.autonomous before fc_hart() asks, and the desired performance is written
\* where the PuC reads the minimum.
LateChannelMeans ==
  FastChannelMeans /\ \A h \in CHart : facts.autonomous => fc_request[h][1] # "EARLY"

\* What is kept is what the PuC says: silence, at boot or between two answers, is
\* never taken for an answer, and harts that fetch the suspend types at the same
\* time leave the PuC's list (fc_discover(), suspend_types_fetch(),
\* rpmi_reset_supported()).
KeptIsThePucs ==
  /\ fc.state = "NONE" /\ facts.usable => \E h \in CHart : cpc[h] = "fc_region"
  /\ fc.state = "READY" => facts.usable /\ fc.autonomous = facts.autonomous
  /\ suspend_types_known =>
       suspend_types = SubSeq(facts.types, 1, Smaller(Len(facts.types), MaxTypes))
  /\ \A t \in ResetType :
       support[t] # "UNKNOWN" => (support[t] = "YES" <=> t \in facts.resets)

\* No request about a system MSI that is M-mode's, the P2A doorbell among them,
\* is passed on, whichever of the PuC's answers was lost while the channel was
\* set up (sysmsi_setup(), sysmsi_filter()).
MsiStaysOurs == passed_on \cap facts.reserved = {}

\* Every event is delivered once and in order, is still waiting, or is counted
\* as lost in what S-mode is told, once (mpxy_rpmi_event_sink(),
\* mpxy_rpmi_get_events()).
EventsAccounted ==
  LET kept == edelivered \o ebuf
  IN  /\ \A i, j \in DOMAIN kept : i < j => kept[i] < kept[j]
      /\ Len(kept) + ereported + elost = enext - 1

\* The clients of the PuC go by what it said: channels, reset types, MSIs and events are
\* what the PuC has, whichever call found out about them first.
ClientsFollowThePuc == FastChannelMeans /\ KeptIsThePucs /\ MsiStaysOurs /\ EventsAccounted
================================================================================
