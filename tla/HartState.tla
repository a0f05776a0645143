------------------------------- MODULE HartState -------------------------------
(***************************************************************************)
(* What a hart's registers hold when it goes from one domain's context to  *)
(* another's: context_save(), context_restore() and context_fresh() of     *)
(* domain_context.c, the tables of hypervisor registers they walk, the     *)
(* floating-point and vector units, the pending S-mode IPI and the guests' *)
(* translations; with the S-mode state a started hart gets (hart.c).       *)
(*                                                                         *)
(* A register is its name and a value a number: 0 and the other values of  *)
(* FreshValue are what software starts with, the rest is what it wrote.    *)
(* Software writes one register in a behaviour, any one, or gets IPIs, or  *)
(* runs guests: none of them depends on another.  When contexts switch is  *)
(* DomainContext.tla's subject, the timer Timer.tla's, the counters,       *)
(* triggers and features are Pmu.tla's, Dbtr.tla's and Fwft.tla's.         *)
(***************************************************************************)
EXTENDS Naturals, Sequences

CONSTANTS Domains, Boot,
          HartFeatures,      \* sets of features a hart may have
          Written,       \* what software writes
          MaxSwitches

ASSUME HartStateAssumption ==
  /\ Boot \in Domains
  /\ \A f \in HartFeatures : f \subseteq {"h", "aia", "menvcfg", "smstateen", "sstc",
                                      "rv32", "f", "vec", "large_vec"}
  /\ Written \subseteq Nat \ {0, 1, 2}
  /\ MaxSwitches \in Nat

VARIABLES features,   \* the hart's
          reg,        \* [register -> value]
          saved,      \* [domain -> [register -> value]]: struct domain_context
          state,      \* [domain -> "none", "running" or "parked"]
          domain,     \* the hart's
          ssip,       \* mip.SSIP
          sip,        \* [domain -> BOOLEAN]: SSIP when it was left
          ipi,        \* [domain -> BOOLEAN]: it came while it was parked
          posted,     \* the domains whose IPI is IPI_EVENT_SMODE in its ipi_pending
          ipc,        \* where another hart's sbi_ipi_ecall() is: "none", "loop", "lock"
          ifor,       \* the domain that one is in
          guests,     \* the domains with guest translations in the hart's caches
          watched,    \* the register software writes, "ssip" or "guests"
          left,       \* [domain -> what it had in the watched register last]
          owed,       \* [domain -> BOOLEAN]: the hart took an IPI in it, or one was kept
                      \* for it, and it has not seen it
          ipisSent,   \* the domains that were sent an IPI and have not seen one since
          switches

ipiVars == <<posted, ipc, ifor, ipisSent>>
hartStateVars == <<features, reg, saved, state, domain, ssip, sip, ipi, ipiVars, guests,
                   watched, left, owed, switches>>

Has(f) == f \in features

-----------------------------------------------------------------------------
(* The registers.                                                          *)

\* Always switched, in context_save()'s order; "gprs" stands for struct trap_regs
SupervisorCsrs == {"gprs", "sie", "stvec", "sscratch", "sepc", "scause", "stval",
                   "satp", "scounteren", "mpxy_shmem"}

Sstateen == [n \in 0 .. 3 |-> <<"sstateen0", "sstateen1", "sstateen2",
                                 "sstateen3">>[n + 1]]

\* enum hyp_csr, HYP_FIRST_AIA and HYP_CSR_COUNT
HypCsr == <<"hstatus", "hedeleg", "hideleg", "hie", "hcounteren", "hgeie", "htval",
            "htinst", "hvip", "hgatp", "vsstatus", "vsie", "vstvec", "vsscratch",
            "vsepc", "vscause", "vstval", "vsatp", "hvien", "hvictl", "hviprio1",
            "hviprio2", "vsiselect", "hidelegh", "hvienh", "hviph", "hviprio1h",
            "hviprio2h", "vsieh">>
FirstAia == 19
HypCsrCount == IF Has("rv32") THEN 30 ELSE 24

Registers == SupervisorCsrs \cup {"senvcfg", "htimedelta", "henvcfg", "hstateen0",
                                  "vstimecmp", "fp", "vec"}
                            \cup {Sstateen[n] : n \in 0 .. 3}
                            \cup {HypCsr[i] : i \in 1 .. Len(HypCsr)}

\* The ISA: the registers a hart of these features has
Exists(r) ==
  CASE r = "senvcfg" -> Has("menvcfg")
    [] r \in {Sstateen[n] : n \in 0 .. 3} -> Has("smstateen")
    [] r \in {HypCsr[i] : i \in 1 .. 18} \cup {"htimedelta"} -> Has("h")
    [] r \in {HypCsr[i] : i \in 19 .. 23} -> Has("h") /\ Has("aia")
    [] r \in {HypCsr[i] : i \in 24 .. 29} -> Has("h") /\ Has("aia") /\ Has("rv32")
    [] r = "henvcfg" -> Has("h") /\ Has("menvcfg")
    [] r = "hstateen0" -> Has("h") /\ Has("smstateen")
    [] r = "vstimecmp" -> Has("h") /\ Has("sstc")
    [] r = "fp" -> Has("f")
    [] r = "vec" -> Has("vec") \/ Has("large_vec")
    [] OTHER -> TRUE

-----------------------------------------------------------------------------
(* Saving.                                                                 *)

\* hyp_csr_read(): the register of that number
HypCsrRead(i) == reg[HypCsr[i]]

\* The registers of the table a hart's features have it walk
HypLast == IF Has("aia") THEN HypCsrCount ELSE FirstAia
HypTable == {HypCsr[i] : i \in 1 .. HypLast - 1}

\* hyp_state_save(): the table, and the 64-bit ones
HypStateSave(ctx) ==
  IF ~Has("h") THEN ctx
  ELSE [r \in Registers |->
          CASE r \in HypTable ->
                 HypCsrRead(CHOOSE i \in 1 .. Len(HypCsr) : HypCsr[i] = r)
            [] r = "htimedelta"
               \/ (r = "henvcfg" /\ Has("menvcfg"))
               \/ (r = "hstateen0" /\ Has("smstateen"))
               \/ (r = "vstimecmp" /\ Has("sstc")) -> reg[r]
            [] OTHER -> ctx[r]]

\* vector_unit(): whether its registers fit what a context has room for, which
\* is the boot hart's
VectorUnit == IF Has("vec") THEN "switched"
              ELSE IF Has("large_vec") THEN "cleared" ELSE "none"

\* unit_state_save(): in use or not
UnitStateSave(ctx) ==
  [r \in Registers |->
     IF (r = "fp" /\ Has("f")) \/ (r = "vec" /\ VectorUnit = "switched")
     THEN reg[r] ELSE ctx[r]]

\* hart_sstateen_read() of the four of them
SstateenSave(ctx) ==
  [r \in Registers |->
     IF \E n \in 0 .. 3 : r = Sstateen[n] /\ Has("smstateen") THEN reg[r] ELSE ctx[r]]

\* context_save(); the buffer of the MPXY calls is nobody's meanwhile
ContextSave(ctx) ==
  UnitStateSave(HypStateSave(SstateenSave(
    [r \in Registers |->
       IF r \in SupervisorCsrs \/ (r = "senvcfg" /\ Has("menvcfg"))
       THEN reg[r] ELSE ctx[r]])))

-----------------------------------------------------------------------------
(* Restoring.                                                              *)

\* What software finds in a register that a context never had: the domain's
\* next stage (1) in stvec and mepc, all ones (2) where that means open or never
FreshValue(r) ==
  CASE r \in {"gprs", "stvec"} -> 1
    [] r \in {Sstateen[n] : n \in 0 .. 3} \cup {"vstimecmp", "mpxy_shmem"} -> 2
    [] OTHER -> 0

\* context_fresh()
ContextFresh == [r \in Registers |-> FreshValue(r)]

\* hyp_csr_write()
HypCsrWrite(r, ctx) == ctx[r]

\* A bug to tell apart: the registers of the AIA stay
HypStateRestoreBase(r, ctx) ==
  IF Has("h")
     /\ (r \in {HypCsr[i] : i \in 1 .. FirstAia - 1} \cup {"htimedelta"}
         \/ (r = "henvcfg" /\ Has("menvcfg"))
         \/ (r = "hstateen0" /\ Has("smstateen"))
         \/ (r = "vstimecmp" /\ Has("sstc")))
  THEN HypCsrWrite(r, ctx) ELSE reg[r]

\* hyp_state_restore(), of one register
HypStateRestore(r, ctx) ==
  IF Has("h")
     /\ (r \in HypTable \cup {"htimedelta"}
         \/ (r = "henvcfg" /\ Has("menvcfg"))
         \/ (r = "hstateen0" /\ Has("smstateen"))
         \/ (r = "vstimecmp" /\ Has("sstc")))
  THEN HypCsrWrite(r, ctx) ELSE reg[r]

\* unit_state_restore(): vector registers that do not fit are lost rather than
\* left for the next domain to read
UnitStateRestore(r, ctx) ==
  CASE r = "fp" /\ Has("f") -> ctx[r]
    [] r = "vec" /\ VectorUnit = "switched" -> ctx[r]
    [] r = "vec" /\ VectorUnit = "cleared" -> 0
    [] OTHER -> reg[r]

\* hart_sstateen_write() of the four of them
SstateenRestore(r, ctx) == IF Has("smstateen") THEN ctx[r] ELSE reg[r]

\* context_restore(), the registers
Restored(ctx) ==
  [r \in Registers |->
     CASE r \in SupervisorCsrs -> ctx[r]
       [] r = "senvcfg" -> IF Has("menvcfg") THEN ctx[r] ELSE reg[r]
       [] r \in {Sstateen[n] : n \in 0 .. 3} -> SstateenRestore(r, ctx)
       [] r \in {"fp", "vec"} -> UnitStateRestore(r, ctx)
       [] OTHER -> HypStateRestore(r, ctx)]

-----------------------------------------------------------------------------
HartStateInit ==
  /\ features \in HartFeatures
  /\ reg = [r \in Registers |-> FreshValue(r)]
  /\ saved = [d \in Domains |-> [r \in Registers |-> 0]]
  /\ state = [d \in Domains |-> IF d = Boot THEN "running" ELSE "none"]
  /\ domain = Boot
  /\ ssip = FALSE
  /\ sip = [d \in Domains |-> FALSE]
  /\ ipi = [d \in Domains |-> FALSE]
  /\ guests = {}
  /\ watched \in {r \in Registers : Exists(r)} \cup {"ssip", "guests"}
  /\ left = [d \in Domains |-> FreshValue(watched)]
  /\ owed = [d \in Domains |-> FALSE]
  /\ posted = {} /\ ipc = "none" /\ ifor = Boot /\ ipisSent = {}
  /\ switches = 0

\* The domain's software
SmodeWrites(v) ==
  /\ watched \in Registers
  /\ reg' = [reg EXCEPT ![watched] = v]
  /\ left' = [left EXCEPT ![domain] = v]
  /\ UNCHANGED <<features, saved, state, domain, ssip, sip, ipi, ipiVars, guests,
                 watched, owed, switches>>

SmodeClearsIpi ==
  /\ ssip
  /\ ssip' = FALSE
  /\ owed' = [owed EXCEPT ![domain] = FALSE]
  /\ ipisSent' = ipisSent \ {domain}
  /\ UNCHANGED <<features, reg, saved, state, domain, sip, ipi, posted, ipc, ifor, guests,
                 watched, left, switches>>

GuestRuns ==
  /\ watched = "guests" /\ Has("h")
  /\ guests' = guests \cup {domain}
  /\ UNCHANGED <<features, reg, saved, state, domain, ssip, sip, ipi, ipiVars, watched,
                 left, owed, switches>>

\* sbi_ipi_ecall() of another hart of the domain: posted to the hart if the domain
\* has it (ipi_send_mask())
SmodeIpi(d) ==
  /\ watched = "ssip" /\ state[d] # "none" /\ ipc = "none"
  /\ posted' = IF domain = d THEN posted \cup {d} ELSE posted
  /\ ipc' = "loop" /\ ifor' = d
  /\ ipisSent' = ipisSent \cup {d}
  /\ UNCHANGED <<features, reg, saved, state, domain, ssip, sip, ipi, guests, watched, left,
                 owed, switches>>

\* ipi_parked_harts(): whether the hart is one of the domain's parked ones now
IpiParkedHarts ==
  /\ ipc = "loop"
  /\ ipc' = IF state[ifor] = "parked" THEN "lock" ELSE "none"
  /\ UNCHANGED <<features, reg, saved, state, domain, ssip, sip, ipi, posted, ifor, ipisSent,
                 guests, watched, left, owed, switches>>

\* domain_ipi_parked(): posted if it is "back in the meantime", kept for the context
\* if there is still one
DomainIpiParked ==
  /\ ipc = "lock" /\ ipc' = "none"
  /\ \/ /\ domain = ifor
        /\ posted' = posted \cup {ifor} /\ UNCHANGED <<ipi, owed>>
     \/ /\ domain # ifor /\ state[ifor] # "none"
        /\ ipi' = [ipi EXCEPT ![ifor] = TRUE]
        /\ owed' = [owed EXCEPT ![ifor] = TRUE]
        /\ UNCHANGED posted
     \/ domain # ifor /\ state[ifor] = "none" /\ UNCHANGED <<ipi, owed, posted>>
  /\ UNCHANGED <<features, reg, saved, state, domain, ssip, sip, ifor, ipisSent, guests,
                 watched, left, switches>>

\* ipi_process(): the hart takes what was posted, whichever domain it is in by now.
IpiProcess ==
  /\ posted # {}
  /\ posted' = {}
  /\ ssip' = TRUE
  /\ owed' = [owed EXCEPT ![domain] = TRUE]
  /\ UNCHANGED <<features, reg, saved, state, domain, sip, ipi, ipc, ifor, ipisSent, guests,
                 watched, left, switches>>

\* The caches of guest translations: guest_tlb_flush()
GuestTlbFlush == guests' = IF Has("h") THEN {} ELSE guests

\* context_park() of the one, context_switch() to the other
ContextSwitch(d) ==
  /\ d # domain
  /\ switches < MaxSwitches
  /\ saved' = [saved EXCEPT ![domain] = ContextSave(@)]
  /\ reg' = Restored(IF state[d] = "none" THEN ContextFresh ELSE saved[d])
  /\ ssip' = IF state[d] = "none" THEN FALSE ELSE sip[d] \/ ipi[d]
  /\ sip' = [sip EXCEPT ![domain] = ssip]
  /\ ipi' = [ipi EXCEPT ![d] = FALSE]
  /\ state' = [state EXCEPT ![domain] = "parked", ![d] = "running"]
  /\ domain' = d
  /\ GuestTlbFlush
  /\ left' = [left EXCEPT ![d] = IF state[d] = "none" THEN FreshValue(watched)
                                 ELSE @]
  /\ owed' = [owed EXCEPT ![d] = IF state[d] = "none" THEN FALSE ELSE @]
  /\ switches' = switches + 1
  /\ UNCHANGED <<features, ipiVars, watched>>

\* A domain that is parked here is stopped: what it ran is history
DomainStopped(d) ==
  /\ d # domain
  /\ state[d] = "parked"
  /\ state' = [state EXCEPT ![d] = "none"]
  /\ ipisSent' = ipisSent \ {d}
  /\ UNCHANGED <<features, reg, saved, domain, ssip, sip, ipi, posted, ipc, ifor, guests,
                 watched, left, owed, switches>>

\* hart_sstateen_reset()
SstateenReset(r) == Has("smstateen") /\ r \in {Sstateen[n] : n \in 0 .. 3}

\* hart_enter_smode(): no translation, no interrupts; the rest is as it was
EnterSmode ==
  [r \in Registers |->
     CASE r \in {"gprs", "stvec"} -> 1
       [] r \in {"sscratch", "sie", "satp"} -> 0
       [] SstateenReset(r) -> 2
       [] OTHER -> reg[r]]

\* A started hart: hart_runtime_init() before it, with ipi_hart_init()
HartStarts ==
  /\ switches < MaxSwitches
  /\ reg' = [EnterSmode EXCEPT !["scounteren"] = 0, !["mpxy_shmem"] = 2]
  /\ ssip' = FALSE
  /\ left' = [left EXCEPT ![domain] =
                IF watched \in Registers THEN reg'[watched] ELSE @]
  /\ owed' = [owed EXCEPT ![domain] = FALSE]
  /\ posted' = {} /\ ipisSent' = ipisSent \ {domain}
  /\ switches' = switches + 1
  /\ UNCHANGED <<features, saved, state, domain, sip, ipi, ipc, ifor, guests, watched>>

HartStateNext ==
  \/ \E v \in Written : SmodeWrites(v)
  \/ SmodeClearsIpi
  \/ GuestRuns
  \/ \E d \in Domains : SmodeIpi(d)
  \/ IpiParkedHarts \/ DomainIpiParked \/ IpiProcess
  \/ \E d \in Domains : ContextSwitch(d)
  \/ \E d \in Domains : DomainStopped(d)
  \/ HartStarts

HartStateSpec == HartStateInit /\ [][HartStateNext]_hartStateVars

-----------------------------------------------------------------------------
\* Software of a domain finds its own on the hart, whoever had it meanwhile: in
\* whatever register it uses what it left there or what a hart starts with (only
\* vector registers larger than the boot hart's may be lost, and then are zero);
\* an S-mode IPI that the hart took while it was the domain's, or that was kept for
\* it while the hart was away, until it clears it, and none that another domain took;
\* and no guest translations of another domain (context_save(), context_restore()
\* and the tables they walk, ipi_process(), domain_ipi_parked(), guest_tlb_flush()).
FindsItsState ==
  /\ watched \in Registers =>
       \/ reg[watched] = left[domain]
       \/ watched = "vec" /\ VectorUnit = "cleared" /\ reg[watched] = 0
  /\ ssip = owed[domain]
  /\ guests \subseteq {domain}

\* "Losing it is not an option: it finds it when it is back" (services/sbi/ipi.c): a
\* domain that was sent an IPI and has not seen one since has it pending on the hart
\* or in its context, unless it is still on its way there.
NoIpiIsLost ==
  \A d \in ipisSent :
    \/ IF d = domain THEN ssip ELSE sip[d] \/ ipi[d]
    \/ d \in posted
    \/ ipc # "none" /\ ifor = d
=============================================================================
