------------------------------ MODULE MCMisaligned ------------------------------
(***************************************************************************)
(* Vector accesses that are not emulated as the instruction says.  The     *)
(* others are in MCServices.                                               *)
(***************************************************************************)
EXTENDS Misaligned

Insn(kind, sew, eew, lmul, nf, n) ==
  [kind |-> kind, store |-> FALSE, sew |-> sew, eew |-> eew, lmul |-> lmul, nf |-> nf, vl |-> n,
   off |-> {}, base |-> 3, vd |-> 2, stride |-> 5, index |-> <<9, 2, 13, 6>>, fof |-> FALSE,
   sx |-> FALSE]
\* Two registers as a whole.
WholeInsns == {Insn("whole", 2, 2, 1, 2, 0)}
\* Two fields of another width than vtype's.
WidthInsns == {Insn("unit", 1, 2, 1, 2, n) : n \in {3, 4}}
================================================================================
