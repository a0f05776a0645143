------------------------------- MODULE IllegalInsn -------------------------------
(***************************************************************************)
(* The emulation of illegal instructions                                   *)
(* (arch/riscv/runtime/illegal_insn.c): AMOs on harts that only have LR    *)
(* and SC.  InsnDecode.tla has the other half, the reads of counters.      *)
(*                                                                         *)
(* The harts share one word, of WBits bits (the .w instructions) or of the *)
(* WBits + 1 a register has (the .d ones).  An LR/SC pair is two steps of  *)
(* the hart, between which the others run.                                 *)
(***************************************************************************)
EXTENDS Integers, FiniteSets, FiniteSetsExt

CONSTANTS AHart,
          WBits,        \* width of a .w word
          Ops,          \* the operations to try
          AmoTries,     \* AMO_TRIES
          MaxStores,    \* bound: plain stores, and changes of the page tables
          MaxTraps      \* bound: how often a hart executes the instruction

ASSUME IllegalAssumption == AmoTries \in Nat \ {0} /\ WBits \in Nat \ {0}

VARIABLES
  dbl,         \* the instructions are .d ones
  word,        \* the word in memory
  present,     \* its page is mapped
  resv,        \* the harts with a reservation on it
  amo, src,     \* [AHart -> the operation, the value of rs2]
  apc,         \* [AHart -> where trap_illegal_insn() is]
  loaded, tries,
  result,      \* [AHart -> what happened to the instruction]
  effect,      \* [AHart -> how often its operation was applied]
  wrong,       \* an operation stored or returned something else than the ISA says
  stores, traps
illegalVars ==
  <<dbl, word, present, resv, amo, src, apc, loaded, tries, result, effect, wrong, stores, traps>>

XBits == WBits + 1
X == 2 ^ XBits
W == IF dbl THEN X ELSE 2 ^ WBits
\* LR.W sign-extends into the register; a register as a signed number
SignExtend(v) == IF ~dbl /\ v % W >= W \div 2 THEN W + (v % W) ELSE v % W
Signed(v) == IF v >= X \div 2 THEN v - X ELSE v

\* amo_op_known()
AmoOp == {"swap", "add", "xor", "and", "or", "min", "max", "minu", "maxu"}
ASSUME OpsAssumption == Ops \subseteq AmoOp
Compares(o) == o \in {"min", "max", "minu", "maxu"}

\* the bits of a register, and the value of those of two registers that a
\* logical operation sets
Bits(v) == {i \in 0 .. WBits : (v \div 2 ^ i) % 2 = 1}
Value(bits) == SumSet({2 ^ i : i \in bits})
\* AMO_ATTEMPT's operation on registers
Apply(o, old, s) ==
  CASE o = "swap" -> s
    [] o = "add" -> (old + s) % X
    [] o = "xor" -> Value((Bits(old) \ Bits(s)) \cup (Bits(s) \ Bits(old)))
    [] o = "and" -> Value(Bits(old) \cap Bits(s))
    [] o = "or" -> Value(Bits(old) \cup Bits(s))
    [] o = "min" -> IF Signed(old) < Signed(s) THEN old ELSE s
    [] o = "max" -> IF Signed(old) >= Signed(s) THEN old ELSE s
    [] o = "minu" -> IF old < s THEN old ELSE s
    [] o = "maxu" -> IF old >= s THEN old ELSE s
\* amo_attempt_w() and amo_attempt_d(): what their SC stores
AmoAttemptW(o, old, s) == Apply(o, old, s) % W
AmoAttemptD(o, old, s) == Apply(o, old, s)
\* what the ISA says of words
WSigned(v) == IF v >= W \div 2 THEN v - W ELSE v
IsaOp(o, old, s) ==
  CASE o = "swap" -> s
    [] o = "add" -> (old + s) % W
    [] o = "and" -> Value({i \in 0 .. WBits : i \in Bits(old) /\ i \in Bits(s)})
    [] o = "or" -> Value({i \in 0 .. WBits : i \in Bits(old) \/ i \in Bits(s)})
    [] o = "xor" -> Value({i \in 0 .. WBits : (i \in Bits(old)) # (i \in Bits(s))})
    [] o = "min" -> IF WSigned(s) < WSigned(old) THEN s ELSE old
    [] o = "max" -> IF WSigned(s) > WSigned(old) THEN s ELSE old
    [] o = "minu" -> IF s < old THEN s ELSE old
    [] o = "maxu" -> IF s > old THEN s ELSE old

IllegalInit ==
  /\ dbl \in BOOLEAN /\ word \in {0, W - 1} /\ present = TRUE /\ resv = {}
  /\ amo \in [AHart -> Ops] /\ src \in [AHart -> {1, X - 1, 2 ^ WBits + 1}]
  /\ apc = [h \in AHart |-> "smode"] /\ loaded = [h \in AHart |-> 0]
  /\ tries = [h \in AHart |-> 0] /\ result = [h \in AHart |-> "none"]
  /\ effect = [h \in AHart |-> 0] /\ wrong = FALSE /\ stores = 0 /\ traps = [h \in AHart |-> 0]

World == <<dbl, amo, src>>
\* the hart executes the instruction, or executes it again
AmoTrap(h) ==
  /\ apc[h] = "smode" /\ result[h] # "done" /\ traps[h] < MaxTraps
  /\ apc' = [apc EXCEPT ![h] = "check"] /\ traps' = [traps EXCEPT ![h] = @ + 1]
  /\ result' = [result EXCEPT ![h] = "none"]
  /\ UNCHANGED <<World, word, present, resv, loaded, tries, effect, wrong, stores>>
\* the usual faults are found by a read of its own, where nothing follows
AmoCheck(h) ==
  /\ apc[h] = "check"
  /\ IF present
     THEN /\ apc' = [apc EXCEPT ![h] = "lr"] /\ tries' = [tries EXCEPT ![h] = 0]
          /\ UNCHANGED result
     ELSE /\ apc' = [apc EXCEPT ![h] = "smode"] /\ result' = [result EXCEPT ![h] = "fault"]
          /\ UNCHANGED tries
  /\ UNCHANGED <<World, word, present, resv, loaded, effect, wrong, stores, traps>>

\* A bug to tell apart: the instruction is taken for done.
GiveUpDone(h) == "done"
\* contended beyond reason: back to where interrupts are taken, and again
GiveUp(h) == "again"
AmoTired(h) ==
  /\ apc[h] = "lr" /\ tries[h] = AmoTries
  /\ apc' = [apc EXCEPT ![h] = "smode"] /\ result' = [result EXCEPT ![h] = GiveUp(h)]
  /\ UNCHANGED <<World, word, present, resv, loaded, tries, effect, wrong, stores, traps>>
AmoLr(h) ==
  /\ apc[h] = "lr" /\ tries[h] < AmoTries /\ tries' = [tries EXCEPT ![h] = @ + 1]
  \* an LR that faults is skipped, and the SC still runs
  /\ apc' = [apc EXCEPT ![h] = IF present THEN "sc" ELSE "scfault"]
  /\ resv' = IF present THEN resv \cup {h} ELSE resv
  /\ loaded' = [loaded EXCEPT ![h] = IF present THEN SignExtend(word) ELSE @]
  /\ UNCHANGED <<World, word, present, result, effect, wrong, stores, traps>>

\* LR.W sign-extends: compare operands in the same form
Operand(h) == IF ~dbl /\ Compares(amo[h]) THEN SignExtend(src[h]) ELSE src[h]
NewWord(h) ==
  IF dbl THEN AmoAttemptD(amo[h], loaded[h], Operand(h))
  ELSE AmoAttemptW(amo[h], loaded[h], Operand(h))

AmoFault(h) ==
  /\ apc' = [apc EXCEPT ![h] = "smode"] /\ result' = [result EXCEPT ![h] = "fault"]
  /\ resv' = resv \ {h}
  /\ UNCHANGED <<World, word, present, loaded, tries, effect, wrong, stores, traps>>
\* SC: with the reservation, and the page still there
AmoSc(h) ==
  \/ apc[h] = "scfault" /\ AmoFault(h)
  \/ apc[h] = "sc" /\ ~present /\ AmoFault(h)
  \/ /\ apc[h] = "sc" /\ present /\ h \notin resv
     /\ apc' = [apc EXCEPT ![h] = "lr"]
     /\ UNCHANGED <<World, word, present, resv, loaded, tries, result, effect, wrong, stores, traps>>
  \/ /\ apc[h] = "sc" /\ present /\ h \in resv
     /\ word' = NewWord(h) /\ resv' = {}
     /\ wrong' = (wrong \/ loaded[h] # SignExtend(word)
                   \/ NewWord(h) # IsaOp(amo[h], word, src[h] % W))
     /\ effect' = [effect EXCEPT ![h] = @ + 1]
     /\ apc' = [apc EXCEPT ![h] = "smode"] /\ result' = [result EXCEPT ![h] = "done"]
     /\ UNCHANGED <<World, present, loaded, tries, stores, traps>>

\* the rest of the system: another store to the word, the page goes or comes back
Store == stores < MaxStores /\ stores' = stores + 1
PlainStore(v) ==
  /\ Store /\ present /\ word' = v /\ resv' = {}
  /\ UNCHANGED <<World, present, apc, loaded, tries, result, effect, wrong, traps>>
Remap ==
  /\ Store /\ present' = ~present
  /\ UNCHANGED <<World, word, resv, apc, loaded, tries, result, effect, wrong, traps>>
\* a reservation may be lost for no reason
Lose(h) ==
  /\ Store /\ h \in resv /\ resv' = resv \ {h}
  /\ UNCHANGED <<World, word, present, apc, loaded, tries, result, effect, wrong, traps>>

IllegalNext ==
  \/ \E h \in AHart : AmoTrap(h) \/ AmoCheck(h) \/ AmoTired(h) \/ AmoLr(h) \/ AmoSc(h) \/ Lose(h)
  \/ \E v \in {0, W - 1} : PlainStore(v)
  \/ Remap
IllegalSpec == IllegalInit /\ [][IllegalNext]_illegalVars

-----------------------------------------------------------------------------
\* An emulated AMO is one: it is applied exactly once if and only if S-mode gets past
\* the instruction, whatever faults, lost reservations and contention came in between,
\* and it reads the word, computes what the ISA says and stores it in one go.
AmoIsOne ==
  /\ \A h \in AHart : effect[h] = IF result[h] = "done" THEN 1 ELSE 0
  /\ ~wrong
=============================================================================
