---------------------------------- MODULE Mpxy ----------------------------------
(***************************************************************************)
(* Message proxy channels, services/mpxy/mpxy.c: the probes that register  *)
(* them at boot (mpxy_rpmi.c, mpxy_rpmi_fw.c), the list S-mode reads, each *)
(* hart's shared memory, the standard attributes and the MSI that tells    *)
(* S-mode of events.                                                       *)
(*                                                                         *)
(* A channel is known by its id.  An MSI address is two halves; an address *)
(* is S-mode's to write or it is not.  No lock covers a channel's          *)
(* attributes: a hart that writes them stores one after the other.         *)
(***************************************************************************)
EXTENDS Naturals, Sequences, FiniteSets, SequencesExt

CONSTANTS MpxyHart,
          HartDomain,     \* [MpxyHart -> domain], from 1: its key + 1
          MTree,          \* the channel nodes: [id, owner, kind, wellformed]
          Sources,        \* [id of a bridge -> its child nodes]
          BadOwner,       \* the owner of a node that names no domain
          RunChannels,    \* what the probes registered, where no node is left
          NrSseEvents,    \* SSE_MPXY_EVENTS
          PoolSize,       \* CONFIG_MPXY_RPMI_FW_MAX_CHANNELS
          PageIds,        \* the ids a page of shared memory holds
          GoodMsi,        \* <<high, low>>: words the domain could write itself
          Writes          \* the attribute writes: [base, vals]

OwnerAny == 0
MsiOff == [control |-> 0, low |-> 0, high |-> 0, data |-> 0, events |-> 0]

ASSUME MpxyAssumption ==
  /\ HartDomain \in [MpxyHart -> Nat \ {0}]
  /\ BadOwner \notin Nat
  /\ {NrSseEvents, PoolSize} \subseteq Nat /\ PageIds \in Nat \ {0}
  /\ \A w \in Writes : w.base \in Nat /\ Len(w.vals) > 0

VARIABLES todo,         \* nodes not probed yet
          channels,     \* the registered channels, in the order of the list
          nr_sse_events,
          pool, pool_used,   \* fw_channels: entries, and how many are in use
          server,       \* [domain -> the pool entries that serve its queue, and
                        \* whether each one's channel was registered]
          shmem,        \* [MpxyHart -> "NONE" or a page]
          listed,       \* [MpxyHart -> the ids it has read of the list]
          attr,         \* the attributes of the channel with the MSI
          mpc, staged,  \* [MpxyHart -> what it is about to do], its copy
          events, due,  \* is the channel's events_due set, how often it may yet be
          msi_read,     \* [MpxyHart -> the halves mpxy_indicate() has read]
          msi_sent      \* the MSIs it has written

mpxyVars == <<todo, channels, nr_sse_events, pool, pool_used, server, shmem, listed,
              attr, mpc, staged, events, due, msi_read, msi_sent>>
bootVars == <<todo, channels, nr_sse_events, pool, pool_used, server>>
attrVars == <<attr, mpc, staged, events, due, msi_read, msi_sent>>

MpxyInit ==
  /\ \/ todo = MTree /\ channels = <<>> /\ due = 0
     \/ todo = {} /\ channels = RunChannels /\ due = 1
  /\ nr_sse_events = 0
  /\ pool = [i \in 1 .. PoolSize |-> [id |-> 0, owner |-> 0, kind |-> "none"]]
  /\ pool_used = 0
  /\ server = [d \in {n.owner : n \in MTree} |-> <<>>]
  /\ shmem = [h \in MpxyHart |-> "NONE"]
  /\ listed = [h \in MpxyHart |-> <<>>]
  /\ attr = MsiOff
  /\ mpc = [h \in MpxyHart |-> "smode"]
  /\ staged = [h \in MpxyHart |-> MsiOff]
  /\ events = FALSE
  /\ msi_read = [h \in MpxyHart |-> <<0, 0>>]
  /\ msi_sent = {}
-------------------------------------------------------------------------------
(* The probes *)

Ids(list) == {list[i].id : i \in DOMAIN list}

\* mpxy_channel_register(): in the order of the ids, each id once; an SSE event
\* for a channel with notifications, while they last.
Register(ch) ==
  LET before == SelectSeq(channels, LAMBDA c : c.id <= ch.id)
      behind == SelectSeq(channels, LAMBDA c : c.id > ch.id)
      sse == ch.kind \notin {"mm", "source"} /\ nr_sse_events < NrSseEvents
  IN  /\ ch.id \notin Ids(channels)
      /\ channels' = before \o
           <<[id |-> ch.id, owner |-> ch.owner,
              sse |-> IF sse THEN nr_sse_events + 1 ELSE 0]>> \o behind
      /\ nr_sse_events' = IF sse THEN nr_sse_events + 1 ELSE nr_sse_events

RegisterOrRefuse(ch) ==
  \/ Register(ch)
  \/ ch.id \in Ids(channels) /\ UNCHANGED <<channels, nr_sse_events>>

\* mpxy_rpmi_channel_add(): groups that are the monitor's own are not proxied.
ProbeRpmi(n) ==
  /\ n.kind \in {"rpmi", "denied"}
  /\ IF n.kind = "denied" \/ n.owner = BadOwner \/ ~n.wellformed
       THEN UNCHANGED <<channels, nr_sse_events>>
       ELSE RegisterOrRefuse(n)
  /\ todo' = todo \ {n}
  /\ UNCHANGED <<pool, pool_used, server>>

\* fw_channel_new(): room, and a domain's node; the pool entry is written before
\* the rest of the node is looked at, and counts only when its channel registers.
FwChannelNew(n) == pool_used < PoolSize /\ n.owner \notin {OwnerAny, BadOwner}

FwEntry(n) == [pool EXCEPT ![pool_used + 1] = [id |-> n.id, owner |-> n.owner, kind |-> n.kind]]

FwRegister(n) ==
  \/ Register(n) /\ pool_used' = pool_used + 1
  \/ n.id \in Ids(channels) /\ UNCHANGED <<channels, nr_sse_events, pool_used>>

\* reqfwd_serve(): a channel and a bridge is what a queue may have.
ReqfwdServe(d, s) ==
  Len(server[d]) < 2 /\ server' = [server EXCEPT ![d] = Append(@, s)]

Serve(n) ==
  \/ /\ n.wellformed
     /\ ReqfwdServe(n.owner, [entry |-> pool_used + 1, registered |-> n.id \notin Ids(channels)])
     /\ FwRegister(n)
  \/ /\ ~n.wellformed \/ Len(server[n.owner]) = 2
     /\ UNCHANGED <<channels, nr_sse_events, pool_used, server>>

NotForUs(n) == ~FwChannelNew(n) /\ UNCHANGED <<channels, nr_sse_events, pool, pool_used, server>>

\* reqfwd_probe()
ProbeReqfwd(n) ==
  /\ n.kind = "reqfwd"
  /\ NotForUs(n) \/ (FwChannelNew(n) /\ pool' = FwEntry(n) /\ Serve(n))
  /\ todo' = todo \ {n}

\* bridge_probe(): a bridge that registers goes on with its sources.
ProbeBridge(n) ==
  /\ n.kind = "bridge"
  /\ NotForUs(n) \/ (FwChannelNew(n) /\ pool' = FwEntry(n) /\ Serve(n))
  /\ todo' = IF pool_used' > pool_used THEN (todo \ {n}) \cup Sources[n.id] ELSE todo \ {n}

\* mm_channel_add(), of mm_probe() or of a bridge
ProbeMm(n) ==
  /\ n.kind \in {"mm", "source"}
  /\ \/ NotForUs(n)
     \/ /\ FwChannelNew(n) /\ pool' = FwEntry(n)
        /\ IF n.wellformed THEN FwRegister(n) ELSE UNCHANGED <<channels, nr_sse_events, pool_used>>
        /\ UNCHANGED server
  /\ todo' = todo \ {n}

\* One node after the other, a bridge's sources right behind it.
MpxyProbe ==
  \E n \in todo :
    /\ (\E m \in todo : m.kind = "source") => n.kind = "source"
    /\ ProbeRpmi(n) \/ ProbeReqfwd(n) \/ ProbeBridge(n) \/ ProbeMm(n)
    /\ UNCHANGED <<shmem, listed, attrVars>>
-------------------------------------------------------------------------------
(* What S-mode calls *)

\* channel_visible(), channel_find()
VisibleIn(d) == SelectSeq(channels, LAMBDA c : c.owner \in {OwnerAny, d})
Visible(h) == VisibleIn(HartDomain[h])

\* mpxy_set_shmem(): a page of the domain's own, or none; the old one is returned.
SetShmem(h) ==
  /\ todo = {} /\ mpc[h] = "smode" /\ listed[h] = <<>>
  /\ \E page \in {"NONE", "page"} : shmem' = [shmem EXCEPT ![h] = page]
  /\ UNCHANGED <<bootVars, listed, attrVars>>

\* A bug to tell apart: a page begins with the last id of the one before.
GetChannelIdsOverlap(h) ==
  LET ids == Visible(h)
      start == Len(listed[h])
  IN  /\ todo = {} /\ shmem[h] # "NONE" /\ start < Len(ids)
      /\ listed' = [listed EXCEPT ![h] =
           @ \o SubSeq(ids, IF start = 0 THEN 1 ELSE start,
                       IF start + PageIds > Len(ids) THEN Len(ids) ELSE start + PageIds)]
      /\ UNCHANGED <<bootVars, shmem, attrVars>>

\* mpxy_get_channel_ids(), from the index S-mode has got to.
GetChannelIds(h) ==
  LET ids == Visible(h)
      start == Len(listed[h])
  IN  /\ todo = {} /\ shmem[h] # "NONE" /\ start < Len(ids)
      /\ listed' = [listed EXCEPT ![h] =
           @ \o SubSeq(ids, start + 1,
                       IF start + PageIds > Len(ids) THEN Len(ids) ELSE start + PageIds)]
      /\ UNCHANGED <<bootVars, shmem, attrVars>>

\* std_attr_write() to the copy; 7 to 11 are the attributes that can be written.
AttrField == <<"control", "low", "high", "data", "events">>
AttrOk(id, val) == id \in 7 .. 11 /\ (id \in {7, 11} => val <= 1)
StdAttrWrite(a, id, val) == [a EXCEPT ![AttrField[id - 6]] = val]
StagedBy(w) ==
  FoldLeftDomain(LAMBDA a, i : StdAttrWrite(a, w.base + i - 1, w.vals[i]), attr, w.vals)
WriteOk(w) == \A i \in DOMAIN w.vals : AttrOk(w.base + i - 1, w.vals[i])

\* msi_target_ok()
MsiTargetOk(a) == a.control = 1 => <<a.high, a.low>> \in GoodMsi

MpxyGoes(h, from, to) == mpc[h] = from /\ mpc' = [mpc EXCEPT ![h] = to]

\* mpxy_write_attributes(): all of them valid, and as a whole; then the stores.
WriteAttributes(h) ==
  \E w \in Writes :
    /\ todo = {} /\ due > 0 /\ shmem[h] # "NONE"
    /\ WriteOk(w) /\ MsiTargetOk(StagedBy(w))
    /\ MpxyGoes(h, "smode", "msi_off")
    /\ staged' = [staged EXCEPT ![h] = StagedBy(w)]
    /\ UNCHANGED <<bootVars, shmem, listed, attr, events, due, msi_read, msi_sent>>

StoreAttr(h, field, val, from, to) ==
  /\ MpxyGoes(h, from, to)
  /\ attr' = [attr EXCEPT ![field] = val]
  /\ UNCHANGED <<bootVars, shmem, listed, staged, events, due, msi_read, msi_sent>>

StoreAttrs(h) ==
  \/ StoreAttr(h, "control", 0, "msi_off", "msi_low")
  \/ StoreAttr(h, "low", staged[h].low, "msi_low", "msi_high")
  \/ StoreAttr(h, "high", staged[h].high, "msi_high", "msi_data")
  \/ StoreAttr(h, "data", staged[h].data, "msi_data", "msi_on")
  \/ StoreAttr(h, "control", staged[h].control, "msi_on", "events_state")
  \/ StoreAttr(h, "events", staged[h].events, "events_state", "smode")
-------------------------------------------------------------------------------
(* Telling S-mode *)

\* mpxy_channel_events_due(), from whatever context
ChannelEventsDue ==
  /\ todo = {} /\ due > 0 /\ ~events
  /\ events' = TRUE /\ due' = due - 1
  /\ UNCHANGED <<bootVars, shmem, listed, attr, mpc, staged, msi_read, msi_sent>>

\* mpxy_indicate(): the channel's flag, is there an MSI, its address, its data
IndicateBegin(h) ==
  /\ events /\ events' = FALSE
  /\ MpxyGoes(h, "smode", "ind_control")
  /\ UNCHANGED <<bootVars, shmem, listed, attr, staged, due, msi_read, msi_sent>>

IndicateControl(h) ==
  /\ MpxyGoes(h, "ind_control", IF attr.control = 1 THEN "ind_high" ELSE "smode")
  /\ UNCHANGED <<bootVars, shmem, listed, attr, staged, events, due, msi_read, msi_sent>>

IndicateAddr(h) ==
  /\ \/ /\ MpxyGoes(h, "ind_high", "ind_low")
        /\ msi_read' = [msi_read EXCEPT ![h] = <<attr.high, 0>>]
     \/ /\ MpxyGoes(h, "ind_low", "ind_poke")
        /\ msi_read' = [msi_read EXCEPT ![h] = <<@[1], attr.low>>]
  /\ UNCHANGED <<bootVars, shmem, listed, attr, staged, events, due, msi_sent>>

IndicatePoke(h) ==
  /\ MpxyGoes(h, "ind_poke", "smode")
  /\ msi_sent' = msi_sent \cup {msi_read[h]}
  /\ UNCHANGED <<bootVars, shmem, listed, attr, staged, events, due, msi_read>>

MpxyNext ==
  \/ MpxyProbe \/ ChannelEventsDue
  \/ \E h \in MpxyHart :
       \/ SetShmem(h) \/ GetChannelIds(h) \/ WriteAttributes(h) \/ StoreAttrs(h)
       \/ IndicateBegin(h) \/ IndicateControl(h) \/ IndicateAddr(h) \/ IndicatePoke(h)

MpxySpec == MpxyInit /\ [][MpxyNext]_mpxyVars
-------------------------------------------------------------------------------
(* Properties *)

\* S-mode that reads the list page by page, from the index it has got to, has
\* read each channel its domain may see once (mpxy_get_channel_ids()).
EachIdOnce ==
  \A h \in MpxyHart : IsPrefix(listed[h], Visible(h))

\* The monitor writes an MSI only to an address that was checked as S-mode's,
\* and as a whole (mpxy_write_attributes(), mpxy_indicate()).
MsiIsWhole == msi_sent \subseteq GoodMsi

\* Whatever order the nodes are probed in and whichever are refused, the list
\* has each id once, in order, and no two channels share an SSE event, so that
\* S-mode reads the list the same way each time (mpxy_channel_register()).
ChannelsInOrder ==
  \A i, j \in DOMAIN channels :
    i < j => /\ channels[i].id < channels[j].id
             /\ channels[i].sse # 0 => channels[i].sse # channels[j].sse

\* What a server's callback is given: an entry of a channel of that domain.
TellsItsServer(d, s) ==
  pool[s.entry].owner = d /\ pool[s.entry].kind \in {"reqfwd", "bridge"}

\* Whoever serves a domain's queue is told through a channel of that domain,
\* whichever nodes are refused behind it: a channel that was registered keeps its
\* pool entry (reqfwd_probe(), bridge_probe()).
ServersAreTheirs ==
  \A d \in DOMAIN server : \A i \in DOMAIN server[d] :
    server[d][i].registered => TellsItsServer(d, server[d][i])

\* A server whose channel is refused is not told through another domain's: this
\* FAILS, because reqfwd_serve() comes before mpxy_channel_register() and stays
\* when that finds the id taken, while the pool entry goes to the next channel.
RefusedServersAreTheirs ==
  \A d \in DOMAIN server : \A i \in DOMAIN server[d] : TellsItsServer(d, server[d][i])

\* The channels are those of the device tree, and S-mode of each domain finds its own.
ChannelsAreTheTrees == ChannelsInOrder /\ EachIdOnce /\ ServersAreTheirs
================================================================================
