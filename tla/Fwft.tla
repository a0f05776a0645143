----------------------------------- MODULE Fwft -----------------------------------
(***************************************************************************)
(* The firmware features of one hart (arch/riscv/runtime/fwft.c,           *)
(* services/sbi/fwft.c): fields of menvcfg and the delegation of           *)
(* misaligned exceptions, set and locked by S-mode, each domain's own.     *)
(***************************************************************************)
EXTENDS Naturals, FiniteSets

CONSTANTS FDomain, FBoot,
          Sticks,         \* [Feature -> the values its field can hold besides 0]
          MaxFwftCalls    \* bound

Feature == {"MISALIGNED_EXC_DELEG", "DOUBLE_TRAP", "PMLEN"}
\* the values S-mode may ask for, and what is in the field for them
FieldOf == [f \in Feature |-> IF f = "PMLEN" THEN {0, 2, 3} ELSE {0, 1}]
AllOnes(f) == IF f = "PMLEN" THEN 3 ELSE 1

ASSUME FwftAssumption ==
  FBoot \in FDomain /\ MaxFwftCalls \in Nat /\ \A f \in Feature : Sticks[f] \subseteq FieldOf[f]

VARIABLES field,     \* [Feature -> its value]: medeleg and menvcfg
          fcur, fready,
          fwft,      \* fwft_harts: [FDomain -> [locked, saved]]
          promised,  \* [FDomain -> [Feature -> the value it was locked at, or {}]]
          denied,    \* <<feature, value>> S-mode was refused, for another reason than a lock
          fcalls

fwftVars == <<field, fcur, fready, fwft, promised, denied, fcalls>>

Zero == [f \in Feature |-> 0]
Nothing == [f \in Feature |-> {}]

FwftInit ==
  /\ field = Zero /\ fcur = FBoot /\ fready = {FBoot}
  /\ fwft = [d \in FDomain |-> [locked |-> {}, saved |-> Zero]]
  /\ promised = [d \in FDomain |-> Nothing]
  /\ denied = {} /\ fcalls = 0

\* envcfg_update(): a WARL field takes a value or keeps the old one
FieldTakes(f, v) == v = 0 \/ v \in Sticks[f]
\* feature_exists(): a field that cannot be all ones belongs to an extension the
\* hart lacks
FeatureExists(f) == f = "MISALIGNED_EXC_DELEG" \/ FieldTakes(f, AllOnes(f))

FCall == fcalls < MaxFwftCalls /\ fcalls' = fcalls + 1

\* fwft_set(), when it succeeds
FwftSet(f, v, lock) ==
  /\ FCall /\ FeatureExists(f) /\ f \notin fwft[fcur].locked /\ FieldTakes(f, v)
  /\ field' = [field EXCEPT ![f] = v]
  /\ fwft' = IF lock THEN [fwft EXCEPT ![fcur].locked = @ \cup {f}] ELSE fwft
  /\ promised' = IF lock THEN [promised EXCEPT ![fcur][f] = {v}] ELSE promised
  /\ UNCHANGED <<fcur, fready, denied>>

\* ... and when it is NOT_SUPPORTED or INVALID_PARAM
FwftRefuses(f, v) ==
  /\ ~FeatureExists(f) \/ (f \notin fwft[fcur].locked /\ ~FieldTakes(f, v))
  /\ denied' = denied \cup {<<f, v>>}
  /\ UNCHANGED <<field, fcur, fready, fwft, promised, fcalls>>

\* A bug to tell apart: the next domain keeps what this one has set.
FwftSwitchInKeeps(d, fresh) ==
  /\ FCall /\ (fresh \/ d \in fready)
  /\ fcur' = d /\ fready' = fready \cup {d}
  /\ fwft' = [fwft EXCEPT ![fcur].saved = field, ![d].locked = IF fresh THEN {} ELSE @]
  /\ promised' = IF fresh THEN [promised EXCEPT ![d] = Nothing] ELSE promised
  /\ field' = IF fresh THEN Zero ELSE field
  /\ UNCHANGED denied

\* fwft_hart_switch_out() and fwft_hart_switch_in(): every feature is off, and
\* unlocked, out of reset
FwftSwitch(d, fresh) ==
  LET out == [fwft EXCEPT ![fcur].saved = field]
      in == IF fresh THEN [out EXCEPT ![d] = [locked |-> {}, saved |-> Zero]] ELSE out
  IN  /\ FCall /\ (fresh \/ d \in fready)
      /\ fcur' = d /\ fready' = fready \cup {d}
      /\ fwft' = in /\ field' = in[d].saved
      /\ promised' = IF fresh THEN [promised EXCEPT ![d] = Nothing] ELSE promised
      /\ UNCHANGED denied

\* hart_runtime_init() with fwft_hart_init(): the hart is started again
FwftRestart ==
  /\ FCall
  /\ field' = Zero /\ fwft' = [fwft EXCEPT ![fcur].locked = {}]
  /\ promised' = [promised EXCEPT ![fcur] = Nothing]
  /\ UNCHANGED <<fcur, fready, denied>>

FwftNext ==
  \/ \E f \in Feature : \E v \in FieldOf[f] :
       FwftRefuses(f, v) \/ \E lock \in BOOLEAN : FwftSet(f, v, lock)
  \/ \E d \in FDomain : \E fresh \in BOOLEAN : FwftSwitch(d, fresh)
  \/ FwftRestart

FwftSpec == FwftInit /\ [][FwftNext]_fwftVars
-------------------------------------------------------------------------------
(* Properties *)

\* A feature a domain has locked keeps its value there, whatever other domains do
\* on the hart, until the hart is started again (fwft_set(), the two switches);
\* a domain that is fresh has none set that it did not set itself.
LocksHold ==
  \A d \in fready : \A f \in Feature :
    LET v == IF d = fcur THEN field[f] ELSE fwft[d].saved[f]
    IN  promised[d][f] # {} => promised[d][f] = {v}

\* A pointer masking length the hart implements is not refused (feature_exists(),
\* which tries a length of its own choosing).
PmlenUsable == \A v \in Sticks["PMLEN"] : <<"PMLEN", v>> \notin denied
================================================================================
