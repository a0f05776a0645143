-------------------------------- MODULE Misaligned --------------------------------
(***************************************************************************)
(* The emulation of misaligned loads and stores                            *)
(* (arch/riscv/runtime/misaligned.c, misaligned_vector.c, unpriv.c) and    *)
(* the redirection of faults to S-mode (trap.c).                           *)
(*                                                                         *)
(* An access is redone byte by byte, as the trapping context; a fault goes *)
(* to S-mode, which maps the page and executes the instruction again. A    *)
(* scalar access is one element of one register. Registers and memory hold *)
(* bytes; a vector register has VLenB of them.                             *)
(***************************************************************************)
EXTENDS Integers, Sequences, FiniteSets, SequencesExt

CONSTANTS
  VLenB,       \* bytes of a vector register
  VRegs,       \* registers are 0 .. VRegs-1
  MemSize, VPageSize,
  Insns        \* the instructions to try

Pages == 0 .. (MemSize \div VPageSize) - 1
ASSUME MisalignedAssumption ==
  {VLenB, VRegs, MemSize, VPageSize} \subseteq Nat \ {0} /\ MemSize % VPageSize = 0

VARIABLES
  insn,        \* the instruction: what decode32(), decode16() and the vector fields give
  vreg,        \* [0..VRegs-1 -> [0..VLenB-1 -> byte]]: the register file
  mem,         \* [address -> byte]
  mapped,      \* the pages S-mode has mapped
  vstart, vl,
  ssdbl, sdt, handler,   \* menvcfg.DTE, sstatus.SDT, an SSE double trap handler is ready
  mphase,      \* "trap", "redirected", "done", "event" or "halted"
  faultAt
misalignedVars ==
  <<insn, vreg, mem, mapped, vstart, vl, ssdbl, sdt, handler, mphase, faultAt>>

Reg0 == [r \in 0 .. VRegs-1 |-> [b \in 0 .. VLenB-1 |-> 100 + 10 * r + b]]
Mem0 == [a \in 0 .. MemSize-1 |-> a]

MisalignedInit ==
  /\ insn \in Insns /\ vreg = Reg0 /\ mem = Mem0
  /\ mapped \in SUBSET Pages
  /\ vstart = 0 /\ vl = insn.vl
  /\ ssdbl \in BOOLEAN /\ sdt = FALSE /\ handler = FALSE
  /\ mphase = "trap" /\ faultAt = 0

-----------------------------------------------------------------------------
(* misaligned_vector.c: where an element is                                *)

Scalar == insn.kind = "scalar"
Whole == insn.kind = "whole"
DataBytes == IF insn.kind = "indexed" THEN insn.sew ELSE insn.eew
\* bytes of one field's register group: LMUL registers
LmulBytes == IF Whole \/ Scalar THEN VLenB ELSE VLenB * insn.lmul
\* elements: of the whole register, or up to vl
Elements == IF Scalar THEN 1 ELSE IF Whole THEN VLenB \div DataBytes ELSE vl
First == IF Whole THEN 0 ELSE vstart
ActiveElem(i) == i \notin insn.off       \* not masked off

ElemAddr(i) ==
  CASE insn.kind = "indexed" -> insn.base + insn.index[i + 1]
    [] insn.kind = "strided" -> insn.base + i * insn.stride
    [] OTHER -> insn.base + i * insn.nf * DataBytes
FieldAddr(i, f) == ElemAddr(i) + f * DataBytes
\* vgroup_access(): the register and the byte in it
GroupOff(i, f) == f * LmulBytes + i * DataBytes
GroupReg(off) == (insn.vd + (off \div VLenB)) % VRegs
GroupByte(off) == off % VLenB

\* the accesses in order: element by element, field by field, byte by byte
Active == SelectSeq([k \in 1 .. Elements |-> k - 1], LAMBDA i : i >= First /\ ActiveElem(i))
PerElem == insn.nf * DataBytes
MoveAt(k) ==
  LET i == Active[1 + ((k - 1) \div PerElem)]
      f == ((k - 1) % PerElem) \div DataBytes
      n == (k - 1) % DataBytes
  IN  [elem |-> i, addr |-> FieldAddr(i, f) + n,
       reg |-> GroupReg(GroupOff(i, f) + n), byte |-> GroupByte(GroupOff(i, f) + n),
       last |-> k - n + DataBytes - 1]
Moves == [k \in 1 .. Len(Active) * PerElem |-> MoveAt(k)]

\* unpriv_read(), unpriv_write_byte(): trap_expected catches the fault
Faults(ms) == {k \in DOMAIN ms : ms[k].addr \div VPageSize \notin mapped}
MinOf(S) == CHOOSE x \in S : \A y \in S : x <= y
MaxOf(S) == CHOOSE x \in S : \A y \in S : x >= y

\* loads write a register once the element is complete, stores go byte by byte
LoadedReg(ms, upto) ==
  [r \in DOMAIN vreg |-> [b \in DOMAIN vreg[r] |->
     LET ks == {k \in DOMAIN ms : ms[k].reg = r /\ ms[k].byte = b /\ ms[k].last <= upto}
     IN  IF ks = {} THEN vreg[r][b] ELSE mem[ms[MaxOf(ks)].addr]]]
StoredMem(ms, upto) ==
  [a \in DOMAIN mem |->
     LET ks == {k \in DOMAIN ms : ms[k].addr = a /\ k <= upto}
     IN  IF ks = {} THEN mem[a] ELSE vreg[ms[MaxOf(ks)].reg][ms[MaxOf(ks)].byte]]
\* sign or zero extension of a scalar load; the top bit is that of the last byte
Extended(regs) ==
  [regs EXCEPT ![insn.vd] = [b \in DOMAIN @ |->
     IF b < DataBytes THEN @[b] ELSE IF insn.sx /\ @[DataBytes - 1] % 2 = 1 THEN 255 ELSE 0]]

-----------------------------------------------------------------------------
(* trap.c: trap_redirect(), trap_double()                                  *)

Redirect(a) ==
  /\ faultAt' = a
  /\ IF ssdbl /\ sdt
     THEN mphase' = (IF handler THEN "event" ELSE "halted") /\ UNCHANGED sdt
     ELSE mphase' = "redirected" /\ sdt' = ssdbl

Faulted(ms) == Faults(ms) # {} /\ ~(insn.fof /\ ms[MinOf(Faults(ms))].elem > 0)
\* A bug to tell apart: an access goes on after the element that took the fault.
VstartPast(ms) == ms[MinOf(Faults(ms))].elem + 1
VstartFor(ms) == ms[MinOf(Faults(ms))].elem

\* trap_misaligned(), trap_misaligned_vector(): up to the first fault
EmulateFaults ==
  /\ mphase = "trap"
  /\ \E ms \in {Moves} :
       /\ Faulted(ms)
       /\ vreg' = IF insn.store THEN vreg ELSE IF Scalar THEN vreg
                  ELSE LoadedReg(ms, MinOf(Faults(ms)) - 1)
       /\ mem' = IF insn.store THEN StoredMem(ms, MinOf(Faults(ms)) - 1) ELSE mem
       /\ vstart' = IF Scalar THEN vstart ELSE VstartFor(ms)
       /\ Redirect(ms[MinOf(Faults(ms))].addr)
  /\ UNCHANGED <<insn, mapped, vl, ssdbl, handler>>

\* vl_set()
VlAfter(ms) == IF Faults(ms) = {} THEN vl ELSE ms[MinOf(Faults(ms))].elem

\* ... or to the end; fault-only-first past element 0: a shorter vl, no trap
EmulateDone ==
  /\ mphase = "trap"
  /\ \E ms \in {Moves} :
       /\ ~Faulted(ms)
       /\ \E upto \in {IF Faults(ms) = {} THEN Len(ms) ELSE MinOf(Faults(ms)) - 1} :
            /\ vreg' = IF insn.store THEN vreg
                       ELSE IF Scalar THEN Extended(LoadedReg(ms, upto)) ELSE LoadedReg(ms, upto)
            /\ mem' = IF insn.store THEN StoredMem(ms, upto) ELSE mem
       /\ vl' = VlAfter(ms)
  /\ vstart' = 0 /\ mphase' = "done"
  /\ UNCHANGED <<insn, mapped, ssdbl, sdt, handler, faultAt>>

-----------------------------------------------------------------------------
(* S-mode: it serves the fault and returns to the instruction.             *)

ServeFault ==
  /\ mphase = "redirected" /\ mphase' = "trap" /\ sdt' = FALSE
  /\ mapped' = mapped \cup {faultAt \div VPageSize}
  /\ UNCHANGED <<insn, vreg, mem, vstart, vl, ssdbl, handler, faultAt>>
\* it traps again before it can: no way back but the double trap event
FaultsInHandler ==
  /\ mphase = "redirected" /\ sdt /\ handler' \in BOOLEAN
  /\ mphase' = IF handler' THEN "event" ELSE "halted"
  /\ UNCHANGED <<insn, vreg, mem, mapped, vstart, vl, ssdbl, sdt, faultAt>>

MisalignedNext == EmulateFaults \/ EmulateDone \/ ServeFault \/ FaultsInHandler
MisalignedSpec == MisalignedInit /\ [][MisalignedNext]_misalignedVars
                  /\ WF_misalignedVars(EmulateFaults \/ EmulateDone \/ ServeFault)

-----------------------------------------------------------------------------
(* What the instruction does, by the ISA: where byte k of its data is.     *)

\* EMUL = EEW / SEW * LMUL registers to a field, at least one
Emul == (insn.eew * insn.lmul) \div insn.sew
FieldRegs == IF insn.kind = "indexed" THEN insn.lmul ELSE IF Emul > 1 THEN Emul ELSE 1
IsaElems == IF Scalar THEN 1 ELSE IF Whole THEN (insn.nf * VLenB) \div DataBytes ELSE insn.vl
\* <<address, register, byte>> of byte b of field f of element i
IsaMove(i, f, b) ==
  IF Whole THEN <<insn.base + i * DataBytes + b, insn.vd + ((i * DataBytes + b) \div VLenB),
                  (i * DataBytes + b) % VLenB>>
  ELSE <<FieldAddr(i, f) + b,
         insn.vd + (IF Scalar THEN 0 ELSE f * FieldRegs) + ((i * DataBytes + b) \div VLenB),
         (i * DataBytes + b) % VLenB>>
IsaMoves == {IsaMove(i, f, b) : i \in {j \in 0 .. IsaElems - 1 : ActiveElem(j) /\ (insn.fof => j < vl)},
                                f \in 0 .. (IF Whole THEN 0 ELSE insn.nf - 1), b \in 0 .. DataBytes - 1}

\* An emulated access has done what the instruction does: every byte is where the ISA
\* puts it, however many faults it took on the way and however often it was started
\* again; a store has touched nothing else.
AccessIsTheInsn ==
  mphase = "done" =>
    IF insn.store
    THEN \A a \in DOMAIN mem :
           LET ms == {m \in IsaMoves : m[1] = a}
           IN  IF ms = {} THEN mem[a] = Mem0[a] ELSE \E m \in ms : mem[a] = Reg0[m[2]][m[3]]
    ELSE \A m \in IsaMoves : vreg[m[2]][m[3]] = Mem0[m[1]]
=============================================================================
