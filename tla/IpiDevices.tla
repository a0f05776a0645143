------------------------------ MODULE IpiDevices ------------------------------
(***************************************************************************)
(* The devices that carry an inter-processor interrupt: the software       *)
(* interrupt registers of an ACLINT or CLINT (drivers/ipi/aclint_mswi.c),  *)
(* the Andes PLIC for software interrupts (andes_plicsw.c) and the IMSIC   *)
(* (drivers/irqchip/imsic.c), which carries MSIs of the monitor as well.   *)
(*                                                                         *)
(* A hart's registers are numbered by its position among the harts the     *)
(* device's node lists (fdt_hart_positions(), see Timer.tla); here         *)
(* the order is a given.  Who kicks whom and when is Ipi.tla's subject.    *)
(***************************************************************************)
EXTENDS Naturals, FiniteSets

CONSTANTS Order,      \* [position -> hart]: the harts the node lists
          WordBits,   \* the bits of a PLIC register
          Msis,       \* IMSIC_MSIS
          Kinds,      \* the devices
          MaxEvents   \* kicks, messages and restarts

ASSUME IpiDevicesAssumption ==
  /\ DOMAIN Order \subseteq Nat
  /\ WordBits \in Nat \ {0}
  /\ Msis \in Nat
  /\ Kinds \subseteq {"mswi", "plicsw", "imsic"}
  /\ MaxEvents \in Nat

VARIABLES device,
          msip_reg,        \* [position -> BOOLEAN]: the ACLINT's registers
          pending,     \* the PLIC's pending bits, as <<register, bit>>
          enabled,     \* [position -> the PLIC's enabled bits]
          eip, eie,    \* [hart -> identities pending, enabled]: the IMSIC's files
          nr_msis,     \* MSIs handed out
          owner,       \* [MSI -> the hart that asked for it]
          msi_ids,     \* [hart -> identities it keeps enabled]
          clearing,    \* [hart -> BOOLEAN]: in the IMSIC's claim loop
          kicked,      \* the harts kicked and not yet cleared
          due,         \* the MSIs sent whose handler has not run since
          ipiEvents

ipiDeviceVars == <<device, msip_reg, pending, enabled, eip, eie, nr_msis, owner,
                   msi_ids, clearing, kicked, due, ipiEvents>>
plic == <<pending, enabled>>
imsic == <<eip, eie, nr_msis, owner, msi_ids, clearing, due>>

Position == DOMAIN Order
Harts == {Order[p] : p \in Position}
PositionOf(h) == CHOOSE p \in Position : Order[p] = h

IpiId == 1
FirstMsi == 2

\* The bit of a source in the PLIC's registers: source 0 there is none of
SourceBit(p) == <<(p + 1) \div WordBits, (p + 1) % WordBits>>

\* plicsw_probe(): a context gets the one source of its hart
PlicswEnable(p) == {SourceBit(p)}

IpiDevicesInit ==
  /\ device \in Kinds
  /\ msip_reg = [p \in Position |-> FALSE]
  /\ pending = {}
  /\ enabled = [p \in Position |-> PlicswEnable(p)]
  /\ eip = [h \in Harts |-> {}]
  /\ eie = [h \in Harts |-> {IpiId}]
  /\ nr_msis = 0
  /\ owner = [m \in 0 .. Msis - 1 |-> CHOOSE h \in Harts : TRUE]
  /\ msi_ids = [h \in Harts |-> {}]
  /\ clearing = [h \in Harts |-> FALSE]
  /\ kicked = {}
  /\ due = {}
  /\ ipiEvents = 0

DeviceEvent == ipiEvents < MaxEvents /\ ipiEvents' = ipiEvents + 1

\* aclint_mswi_send()
MswiSend(h) ==
  /\ device = "mswi"
  /\ msip_reg' = [msip_reg EXCEPT ![PositionOf(h)] = TRUE]
  /\ UNCHANGED <<plic, imsic>>

\* A bug to tell apart: the register of the position, not of the source
PlicswSendByPosition(h) ==
  /\ device = "plicsw"
  /\ pending' = pending \cup {<<PositionOf(h) \div WordBits,
                                (PositionOf(h) + 1) % WordBits>>}
  /\ UNCHANGED <<enabled, msip_reg, imsic>>

\* plicsw_send()
PlicswSend(h) ==
  /\ device = "plicsw"
  /\ pending' = pending \cup {SourceBit(PositionOf(h))}
  /\ UNCHANGED <<enabled, msip_reg, imsic>>

\* imsic_ipi_send()
ImsicSend(h) ==
  /\ device = "imsic"
  /\ eip' = [eip EXCEPT ![h] = @ \cup {IpiId}]
  /\ UNCHANGED <<msip_reg, plic, eie, nr_msis, owner, msi_ids, clearing, due>>

DeviceKick(h) ==
  /\ DeviceEvent
  /\ MswiSend(h) \/ PlicswSend(h) \/ ImsicSend(h)
  /\ kicked' = kicked \cup {h}
  /\ UNCHANGED device

\* The interrupt of the hart, as the device raises it
Irq(h) ==
  CASE device = "mswi" -> msip_reg[PositionOf(h)]
    [] device = "plicsw" -> pending \cap enabled[PositionOf(h)] # {}
    [] OTHER -> eip[h] \cap eie[h] # {}

\* aclint_mswi_clear()
MswiClear(h) ==
  /\ device = "mswi"
  /\ msip_reg' = [msip_reg EXCEPT ![PositionOf(h)] = FALSE]
  /\ kicked' = kicked \ {h}
  /\ UNCHANGED <<plic, imsic>>

\* plicsw_clear(): the claim drops what it returns
PlicswClear(h) ==
  /\ device = "plicsw"
  /\ \E b \in pending \cap enabled[PositionOf(h)] : pending' = pending \ {b}
  /\ kicked' = kicked \ {h}
  /\ UNCHANGED <<enabled, msip_reg, imsic>>

\* imsic_ipi_clear(), a claim: the lowest identity is the top one, and an MSI's
\* handler runs; until there is none
ImsicClear(h) ==
  /\ device = "imsic"
  /\ LET ready == eip[h] \cap eie[h]
     IN  IF ready = {}
         THEN /\ clearing' = [clearing EXCEPT ![h] = FALSE]
              /\ UNCHANGED <<eip, due, kicked>>
         ELSE \E top \in ready :
                /\ \A i \in ready : top <= i
                /\ eip' = [eip EXCEPT ![h] = @ \ {top}]
                /\ due' = IF top >= FirstMsi /\ top - FirstMsi < nr_msis
                          THEN due \ {top - FirstMsi} ELSE due
                /\ kicked' = IF top = IpiId THEN kicked \ {h} ELSE kicked
                /\ clearing' = [clearing EXCEPT ![h] = TRUE]
  /\ UNCHANGED <<msip_reg, plic, eie, nr_msis, owner, msi_ids>>

\* The hart takes the interrupt, and goes on until the driver returns
ClearIpi(h) ==
  /\ Irq(h) \/ clearing[h]
  /\ MswiClear(h) \/ PlicswClear(h) \/ ImsicClear(h)
  /\ UNCHANGED <<device, ipiEvents>>

\* irqchip_msi_request()
MsiRequest(h) ==
  /\ device = "imsic"
  /\ ~clearing[h]
  /\ nr_msis < Msis
  /\ nr_msis' = nr_msis + 1
  /\ owner' = [owner EXCEPT ![nr_msis] = h]
  /\ msi_ids' = [msi_ids EXCEPT ![h] = @ \cup {FirstMsi + nr_msis}]
  /\ eie' = [eie EXCEPT ![h] = @ \cup {FirstMsi + nr_msis}]
  /\ UNCHANGED <<device, msip_reg, plic, eip, clearing, kicked, due, ipiEvents>>

\* A device sends the message it was given
MsiArrives(m) ==
  /\ DeviceEvent
  /\ m < nr_msis
  /\ eip' = [eip EXCEPT ![owner[m]] = @ \cup {FirstMsi + m}]
  /\ due' = due \cup {m}
  /\ UNCHANGED <<device, msip_reg, plic, eie, nr_msis, owner, msi_ids, clearing, kicked>>

\* imsic_hart_init()
ImsicHartInit(h) == [eie EXCEPT ![h] = {IpiId} \cup msi_ids[h]]

\* The hart was off, and its file's enables with it
HartComesBack(h) ==
  /\ DeviceEvent
  /\ device = "imsic"
  /\ ~clearing[h]
  /\ eie' = ImsicHartInit(h)
  /\ UNCHANGED <<device, msip_reg, plic, eip, nr_msis, owner, msi_ids, clearing, kicked,
                 due>>

IpiDevicesNext ==
  \/ \E h \in Harts : DeviceKick(h) \/ ClearIpi(h) \/ MsiRequest(h) \/ HartComesBack(h)
  \/ \E m \in 0 .. Msis - 1 : MsiArrives(m)

IpiDevicesSpec == IpiDevicesInit /\ [][IpiDevicesNext]_ipiDeviceVars

-----------------------------------------------------------------------------
\* A hart that was kicked, or has an MSI its handler has not seen, has its
\* interrupt, whatever was kicked, cleared, requested or restarted meanwhile;
\* and no other hart has one (the send and clear functions of the drivers,
\* imsic_hart_init()).
KickReachesItsHart ==
  \A h \in Harts :
    Irq(h) <=> (h \in kicked \/ \E m \in due : owner[m] = h)
=============================================================================
