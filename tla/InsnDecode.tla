------------------------------ MODULE InsnDecode ------------------------------
(***************************************************************************)
(* What the emulation makes of an instruction: the scalar loads and stores *)
(* of a misaligned access (arch/riscv/runtime/misaligned.c) and the reads  *)
(* of counters of an illegal instruction (illegal_insn.c), against the     *)
(* instructions the ISA defines.                                           *)
(*                                                                         *)
(* An instruction is a record of its fields.  One that traps for a         *)
(* misaligned access is one the hart executes: a reserved encoding, or an  *)
(* access of bytes, does not.  Misaligned.tla has what follows, byte by    *)
(* byte, IllegalInsn.tla the other illegal instructions.                   *)
(***************************************************************************)
EXTENDS Naturals

CONSTANTS Regs,         \* register numbers to try, 0 included
          Counters      \* counter numbers to try, 1 (time) included

ASSUME InsnDecodeAssumption == Regs \subseteq 0 .. 31 /\ 0 \in Regs
                               /\ Counters \subseteq 0 .. 31

VARIABLES trap,         \* what the hart trapped with, and in which state
          emulated       \* what the handler did

insnVars == <<trap, emulated>>

Redirected == [did |-> "redirect"]
NotYet == [did |-> "none"]

-----------------------------------------------------------------------------
(* The ISA.  A mnemonic: its opcode and funct3 (or quadrant, funct3 and    *)
(* Zcb's bits), the XLENs that have it and what it does.                   *)

LoadOf(len, sign) == [store |-> FALSE, fp |-> FALSE, len |-> len, sign |-> sign]
StoreOf(len) == [store |-> TRUE, fp |-> FALSE, len |-> len, sign |-> FALSE]
FpAccess(store, len) == [store |-> store, fp |-> TRUE, len |-> len, sign |-> FALSE]

\* <<opcode, funct3, XLENs, what it does>>
Isa32 ==
  { <<3, 1, {32, 64}, LoadOf(2, TRUE)>>,   <<3, 2, {32, 64}, LoadOf(4, TRUE)>>,
    <<3, 3, {64}, LoadOf(8, FALSE)>>,      <<3, 5, {32, 64}, LoadOf(2, FALSE)>>,
    <<3, 6, {64}, LoadOf(4, FALSE)>>,      <<35, 1, {32, 64}, StoreOf(2)>>,
    <<35, 2, {32, 64}, StoreOf(4)>>,       <<35, 3, {64}, StoreOf(8)>>,
    <<7, 2, {32, 64}, FpAccess(FALSE, 4)>>, <<7, 3, {32, 64}, FpAccess(FALSE, 8)>>,
    <<39, 2, {32, 64}, FpAccess(TRUE, 4)>>, <<39, 3, {32, 64}, FpAccess(TRUE, 8)>> }

\* <<quadrant, funct3, bits 12..10, bit 6, XLENs, what it does>>; "any" where a
\* bit is part of the offset
DontCare == 8
Isa16 ==
  UNION { { <<q, 2, DontCare, DontCare, {32, 64}, LoadOf(4, TRUE)>>,
            <<q, 6, DontCare, DontCare, {32, 64}, StoreOf(4)>>,
            <<q, 3, DontCare, DontCare, {64}, LoadOf(8, FALSE)>>,
            <<q, 7, DontCare, DontCare, {64}, StoreOf(8)>>,
            <<q, 3, DontCare, DontCare, {32}, FpAccess(FALSE, 4)>>,
            <<q, 7, DontCare, DontCare, {32}, FpAccess(TRUE, 4)>>,
            <<q, 1, DontCare, DontCare, {32, 64}, FpAccess(FALSE, 8)>>,
            <<q, 5, DontCare, DontCare, {32, 64}, FpAccess(TRUE, 8)>> } : q \in {0, 2} }
  \cup { <<0, 4, 1, 0, {32, 64}, LoadOf(2, FALSE)>>,     \* c.lhu
         <<0, 4, 1, 1, {32, 64}, LoadOf(2, TRUE)>>,      \* c.lh
         <<0, 4, 3, 0, {32, 64}, StoreOf(2)>> }          \* c.sh

\* Instructions of the two lengths, and what they are
Insns32 ==
  { [size |-> 4, op |-> i[1], f3 |-> i[2], rd |-> rd, rs2 |-> rs2, xlen |-> x,
     isa |-> i[4]] : i \in Isa32, rd \in Regs, rs2 \in Regs, x \in {32, 64} }
Insns16 ==
  { [size |-> 2, q |-> i[1], f3 |-> i[2], zcb |-> z, bit6 |-> b, rd |-> rd,
     rs2 |-> rs2, xlen |-> x, isa |-> i[6]] :
       i \in Isa16, z \in 0 .. 3, b \in 0 .. 1, rd \in Regs, rs2 \in Regs,
       x \in {32, 64} }

\* An encoding of the mnemonic, on a hart that has it, and not reserved
Valid32(i) == \E m \in Isa32 : m[1] = i.op /\ m[2] = i.f3 /\ i.xlen \in m[3]
Valid16(i) ==
  /\ \E m \in Isa16 : /\ m[1] = i.q /\ m[2] = i.f3 /\ m[6] = i.isa
                      /\ m[3] \in {DontCare, i.zcb} /\ m[4] \in {DontCare, i.bit6}
                      /\ i.xlen \in m[5]
  /\ i.q = 2 /\ ~i.isa.fp /\ ~i.isa.store => i.rd # 0

\* The register it loads or stores: three bits in the compressed formats that
\* are not relative to the stack pointer
IsaReg(i) ==
  IF i.size = 2 /\ i.q = 0 THEN 8 + (i.rs2 % 8)
  ELSE IF i.isa.store THEN i.rs2 ELSE i.rd

MisalignedTraps ==
  { [kind |-> "misaligned", insn |-> i, store |-> s, f |-> f] :
      i \in {j \in Insns32 : Valid32(j)} \cup {j \in Insns16 : Valid16(j)},
      s \in BOOLEAN, f \in {"none", "off", "f", "fd"} }

-----------------------------------------------------------------------------
(* misaligned.c.                                                           *)

Access(store, fp, len, sign, reg) ==
  [store |-> store, fp |-> fp, len |-> len, sign |-> sign, reg |-> reg]
NoAccess == Access(FALSE, FALSE, 0, FALSE, 0)

Decode32(i) ==
  CASE i.op = 3 -> Access(FALSE, FALSE, 2 ^ (i.f3 % 4), i.f3 < 4, i.rd)
    [] i.op = 35 -> IF i.f3 < 4 THEN Access(TRUE, FALSE, 2 ^ (i.f3 % 4), FALSE, i.rs2)
                    ELSE NoAccess
    [] i.op \in {7, 39} ->
         IF i.f3 \in {2, 3}
         THEN Access(i.op = 39, TRUE, 2 ^ i.f3, FALSE, IF i.op = 39 THEN i.rs2 ELSE i.rd)
         ELSE NoAccess
    [] OTHER -> NoAccess

\* A bug to tell apart: quadrant 2's loads and stores have rd in one place
Reg16Rd(i, store) == IF i.q # 2 THEN 8 + (i.rs2 % 8) ELSE i.rd

\* The register of a compressed access, by its format
Reg16(i, store) == IF i.q # 2 THEN 8 + (i.rs2 % 8)
                   ELSE IF store THEN i.rs2 ELSE i.rd

Decode16(i) ==
  LET store == i.f3 >= 5
      fp == i.f3 \in {1, 5} \/ (i.f3 \in {3, 7} /\ i.xlen = 32)
      len == CASE i.f3 \in {2, 6} -> 4
               [] i.f3 \in {3, 7} -> i.xlen \div 8
               [] OTHER -> 8
      reg == Reg16(i, store)
  IN  CASE i.f3 = 0 -> NoAccess
        [] i.f3 = 4 -> IF i.q = 2 \/ i.zcb \notin {1, 3} THEN NoAccess
                       ELSE Access(i.zcb = 3, FALSE, 2, i.bit6 = 1, 8 + (i.rs2 % 8))
        [] OTHER -> IF fp \/ store \/ i.q # 2 \/ reg # 0
                    THEN Access(store, fp, len, TRUE, reg) ELSE NoAccess

\* fp_reg_access(): an fld, flw, fsd or fsw of that register through memory
FpRegAccess(reg, store, dbl) ==
  [op |-> IF store THEN 39 ELSE 7, f3 |-> IF dbl THEN 3 ELSE 2, reg |-> reg]

\* FP accesses need F or D and live FP state
FpUsable(a) == trap.f \in {"f", "fd"} /\ (a.len = 8 => trap.f = "fd")

\* trap_misaligned(), to where the bytes are moved
TrapMisaligned ==
  /\ trap.kind = "misaligned"
  /\ LET acc == IF trap.insn.size = 4 THEN Decode32(trap.insn) ELSE Decode16(trap.insn)
     IN  emulated' = IF acc.len < 2 \/ acc.len > 8 \/ acc.store # trap.store
                       \/ (acc.fp /\ ~FpUsable(acc))
                    THEN Redirected
                    ELSE [did |-> "access", a |-> acc, insn_len |-> trap.insn.size,
                          fp |-> IF acc.fp THEN FpRegAccess(acc.reg, acc.store, acc.len = 8)
                                 ELSE NotYet]

-----------------------------------------------------------------------------
(* emulate_csr_read().  'csr' says how the CSR number names the counter n: *)
(* CYCLE + n, CYCLEH + n, or not at all.  'has' is whether reading the     *)
(* counter, or for n = 1 the timer, works on this hart.                    *)

CounterTraps ==
  { t \in
    [kind : {"csr"}, f3 : {1, 2, 3, 5, 6, 7}, rs1 : {0, 1}, rd : {0, 5},
     csr : {"cycle", "cycleh", "other"}, n : Counters, xlen : {32, 64},
     virt : BOOLEAN, user : BOOLEAN, hcounteren : BOOLEAN, scounteren : BOOLEAN,
     has : BOOLEAN] : t.virt \/ t.hcounteren }

\* mcounter_get(): where the value comes from
McounterGet(n) == IF n \in {0, 2} THEN "csr" ELSE "pmu"
\* timer_now(), with htimedelta() for a guest
TimeRead(virt) == IF virt THEN "now + delta" ELSE "now"
CounterValue(t) == <<IF t.n = 1 THEN TimeRead(t.virt) ELSE McounterGet(t.n),
                     IF t.csr = "cycleh" THEN "high" ELSE "low">>

EmulateCsrRead ==
  /\ trap.kind = "csr"
  /\ emulated' =
       IF trap.f3 \notin {2, 3, 6, 7} \/ trap.rs1 # 0
          \/ ~(trap.csr = "cycle" \/ (trap.csr = "cycleh" /\ trap.xlen = 32))
       THEN Redirected
       ELSE IF trap.virt /\ ~trap.hcounteren THEN [did |-> "virtual"]
       ELSE IF (trap.user /\ ~trap.scounteren) \/ ~trap.has THEN Redirected
       ELSE [did |-> "read", val |-> CounterValue(trap), rd |-> trap.rd]

-----------------------------------------------------------------------------
Traps == MisalignedTraps \cup CounterTraps

InsnInit ==
  /\ trap \in Traps
  /\ emulated = NotYet

InsnNext ==
  /\ emulated = NotYet
  /\ TrapMisaligned \/ EmulateCsrRead
  /\ UNCHANGED trap

InsnSpec == InsnInit /\ [][InsnNext]_insnVars

-----------------------------------------------------------------------------
\* A misaligned access of a scalar load or store the hart can execute is done
\* as the instruction says, with its own register, width and extension, and
\* only as the kind of access that trapped; nothing else is (decode32(),
\* decode16(), fp_reg_access()).
DecodesLikeTheIsa ==
  emulated # NotYet /\ trap.kind = "misaligned" =>
    LET isa == trap.insn.isa
    IN  IF isa.store = trap.store
           /\ (isa.fp => trap.f \in {"f", "fd"} /\ (isa.len = 8 => trap.f = "fd"))
        THEN /\ emulated.did = "access"
             /\ emulated.insn_len = trap.insn.size
             /\ emulated.a.reg = IsaReg(trap.insn)
             /\ emulated.a.len = isa.len
             /\ emulated.a.fp = isa.fp
             /\ ~isa.store /\ ~isa.fp /\ 8 * isa.len < trap.insn.xlen =>
                  emulated.a.sign = isa.sign
             /\ isa.fp => emulated.fp = [op |-> IF isa.store THEN 39 ELSE 7,
                                        f3 |-> IF isa.len = 8 THEN 3 ELSE 2,
                                        reg |-> IsaReg(trap.insn)]
        ELSE emulated = Redirected

\* A read of a counter gives its value to those its hypervisor and its
\* supervisor have opened it to, a guest's time with its offset; a guest the
\* hypervisor keeps out has its virtual instruction exception, and everything
\* else is S-mode's illegal instruction (emulate_csr_read()).
CounterReadIsOpen ==
  emulated # NotYet /\ trap.kind = "csr" =>
    LET reads == trap.f3 \in {2, 3, 6, 7} /\ trap.rs1 = 0
        number == trap.csr = "cycle" \/ (trap.csr = "cycleh" /\ trap.xlen = 32)
        open == (trap.virt => trap.hcounteren) /\ (trap.user => trap.scounteren)
    IN  /\ emulated.did = "read" <=> reads /\ number /\ open /\ trap.has
        /\ emulated.did = "virtual" <=>
             reads /\ number /\ trap.virt /\ ~trap.hcounteren
        /\ emulated.did = "read" =>
             /\ emulated.val[1] = "now + delta" <=> trap.n = 1 /\ trap.virt
             /\ emulated.val[2] = "high" <=> trap.csr = "cycleh"

\* What the monitor does in place of an instruction that traps is what the ISA
\* says of that instruction (decode32(), decode16(), emulate_csr_read()).
EmulatesTheInsn == DecodesLikeTheIsa /\ CounterReadIsOpen
=============================================================================
