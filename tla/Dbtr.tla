----------------------------------- MODULE Dbtr -----------------------------------
(***************************************************************************)
(* The debug triggers of one hart (arch/riscv/runtime/dbtr.c,              *)
(* services/sbi/dbtr.c) and the domains that use it in turn: triggers are  *)
(* installed, updated, enabled, disabled and uninstalled by S-mode, saved  *)
(* and taken out of the hardware when the hart leaves the domain.          *)
(*                                                                         *)
(* tdata1 is a type, a chain bit, the modes the trigger matches in and a   *)
(* hit bit; tdata2 and tdata3 go with it.  A refused call is not a step.   *)
(***************************************************************************)
EXTENDS Naturals, Sequences, FiniteSets

CONSTANTS TDomain, TBoot,
          NrTriggers,
          TrigTypes,      \* [0 .. NrTriggers - 1 -> the types of a trigger]
          HasTinfo,       \* does the hart have tinfo?
          ZeroType,       \* the type tdata1 reads after a write of zero; 16: the type it had
          Configs,        \* configurations S-mode uses: [type, modes, mmode]
          Rejected,        \* <<trigger, configuration>> the hardware does not take as it is
          MaxDbtrCalls    \* bound

Trig == 0 .. NrTriggers - 1
Supported == 2 .. 6       \* trigger_types[]: those with a mode to keep out of M-mode
HadType == 16

ASSUME DbtrAssumption ==
  /\ TBoot \in TDomain /\ NrTriggers \in Nat
  /\ HasTinfo \in BOOLEAN /\ ZeroType \in {0, 15, HadType}
  /\ \A i \in Trig : TrigTypes[i] \subseteq Nat /\ TrigTypes[i] # {}
  /\ Configs \subseteq [type : Nat, modes : SUBSET {"s", "u", "vs", "vu"}, mmode : BOOLEAN]

VARIABLES thw,       \* tdata1 of each trigger
          tcur, tready,   \* the current domain; those that have been initialised
          dbtr,      \* dbtr_harts: [TDomain -> [count, types, state, saved]]
          twant,     \* [TDomain -> [Trig -> what S-mode has there, or <<>>]]
          tcalls

dbtrVars == <<thw, tcur, tready, dbtr, twant, tcalls>>

Off(type) == [type |-> type, chain |-> FALSE, modes |-> {}, hit |-> FALSE]
Unused == [i \in Trig |-> {}]

\* hw_clear(): off in every mode, whatever type a write of zero leaves
HwClear(t) == Off(IF ZeroType = HadType THEN t.type ELSE ZeroType)

\* dbtr_hart_init() on the hardware hw: without tinfo the type it has now is the only
\* one, and type 0 ends the list
FoundTypes(hw, i) == IF HasTinfo THEN TrigTypes[i] ELSE {hw[i].type}
FoundCount(hw) ==
  LET none == {i \in Trig : FoundTypes(hw, i) = {0}}
  IN  IF none = {} THEN NrTriggers ELSE CHOOSE i \in none : \A j \in none : i <= j
HartInit(hw) ==
  [count |-> FoundCount(hw), types |-> [i \in Trig |-> FoundTypes(hw, i)],
   state |-> Unused, saved |-> Unused]
ClearedUpto(hw, n) == [i \in Trig |-> IF i < n THEN HwClear(hw[i]) ELSE hw[i]]

PowerOn == [i \in Trig |-> Off(CHOOSE t \in TrigTypes[i] : TRUE)]

DbtrInit ==
  /\ tcur = TBoot /\ tready = {TBoot}
  /\ thw = ClearedUpto(PowerOn, FoundCount(PowerOn))
  /\ dbtr = [d \in TDomain |-> HartInit(PowerOn)]
  /\ twant = [d \in TDomain |-> Unused]
  /\ tcalls = 0

TCall == tcalls < MaxDbtrCalls /\ tcalls' = tcalls + 1
D == dbtr[tcur]
Mapped(d) == {i \in Trig : dbtr[d].state[i] # {}}
-------------------------------------------------------------------------------
(* Installing *)

ConfigCheck(c) == c.type \in Supported /\ ~c.mmode
Tdata1(c, chain) == [type |-> c.type, chain |-> chain, modes |-> c.modes, hit |-> FALSE]
\* state_of(): mapped, and the modes
StateOf(c) == {"MAPPED"} \cup c.modes

\* find_run(): the first free run of triggers for the configurations of a chain
FindRun(run, taken) ==
  LET fits == {s \in 0 .. D.count : s + Len(run) <= D.count /\
                 \A i \in DOMAIN run : /\ s + i - 1 \notin Mapped(tcur) \cup taken
                                       /\ run[i].type \in D.types[s + i - 1]}
  IN  IF fits = {} THEN {} ELSE {CHOOSE s \in fits : \A r \in fits : s <= r}

\* Where dbtr_install() puts the chains: each in the first run that fits, the ones
\* before it being taken.
PlacesOf(runs, at, k) == at[k] .. at[k] + Len(runs[k]) - 1
Places(runs, at) == UNION {PlacesOf(runs, at, k) : k \in DOMAIN runs}
Placed(runs, at) ==
  \A k \in DOMAIN runs :
    at[k] \in FindRun(runs[k], UNION {PlacesOf(runs, at, j) : j \in 1 .. k - 1})

\* dbtr_install() of a sequence of chains: all are placed, then all are programmed,
\* and one the hardware does not take undoes the others
DbtrInstall(runs) ==
  /\ TCall
  /\ \A k \in DOMAIN runs : \A i \in DOMAIN runs[k] : ConfigCheck(runs[k][i])
  /\ \E at \in [DOMAIN runs -> 0 .. NrTriggers] :
       LET places == Places(runs, at)
           PartAt(i) == CHOOSE k \in DOMAIN runs : i \in PlacesOf(runs, at, k)
           CfgAt(i) == runs[PartAt(i)][i - at[PartAt(i)] + 1]
           new == [i \in places |-> Tdata1(CfgAt(i), i + 1 \in PlacesOf(runs, at, PartAt(i)))]
           ok == \A i \in places : <<i, CfgAt(i)>> \notin Rejected
       IN  /\ Placed(runs, at)
           /\ thw' = [i \in Trig |-> IF i \notin places THEN thw[i]
                                     ELSE IF ok THEN new[i] ELSE HwClear(thw[i])]
           /\ dbtr' = [dbtr EXCEPT ![tcur].state = [i \in Trig |->
                         IF i \in places /\ ok THEN StateOf(CfgAt(i)) ELSE @[i]]]
           /\ twant' = [twant EXCEPT ![tcur] = [i \in Trig |->
                         IF i \in places /\ ok THEN {new[i]} ELSE @[i]]]
  /\ UNCHANGED <<tcur, tready>>

\* dbtr_update(): same type and place in the chain; refused, the trigger is gone
DbtrUpdate(i, c) ==
  LET new == Tdata1(c, thw[i].chain)
      ok == <<i, c>> \notin Rejected
  IN  /\ TCall /\ ConfigCheck(c) /\ i \in Mapped(tcur) /\ c.type = thw[i].type
      /\ thw' = [thw EXCEPT ![i] = IF ok THEN new ELSE HwClear(@)]
      /\ dbtr' = [dbtr EXCEPT ![tcur].state[i] = IF ok THEN StateOf(c) ELSE {}]
      /\ twant' = [twant EXCEPT ![tcur][i] = IF ok THEN {new} ELSE {}]
      /\ UNCHANGED <<tcur, tready>>

\* set_op_apply(): every trigger of the set is an installed one
DbtrSetOp(op, set) ==
  /\ TCall /\ set # {} /\ set \subseteq Mapped(tcur)
  /\ LET Modes(i) == IF op = "ENABLE" THEN D.state[i] \ {"MAPPED"} ELSE {}
         Sets(f, i) == IF op = "UNINSTALL" THEN {} ELSE {[x EXCEPT !.modes = Modes(i)] : x \in f}
     IN  /\ thw' = [i \in Trig |-> IF i \notin set THEN thw[i]
                                   ELSE IF op = "UNINSTALL" THEN HwClear(thw[i])
                                   ELSE [thw[i] EXCEPT !.modes = Modes(i)]]
         /\ dbtr' = [dbtr EXCEPT ![tcur].state = [i \in Trig |->
                       IF i \in set /\ op = "UNINSTALL" THEN {} ELSE @[i]]]
         /\ twant' = [twant EXCEPT ![tcur] = [i \in Trig |->
                       IF i \in set THEN Sets(@[i], i) ELSE @[i]]]
  /\ UNCHANGED <<tcur, tready>>

\* The hardware: a trigger matches and its hit bit is set.
TriggerFires(i) ==
  /\ thw[i].modes # {} /\ ~thw[i].hit
  /\ thw' = [thw EXCEPT ![i].hit = TRUE]
  /\ twant' = [twant EXCEPT ![tcur][i] = {[x EXCEPT !.hit = TRUE] : x \in @}]
  /\ UNCHANGED <<tcur, tready, dbtr, tcalls>>
-------------------------------------------------------------------------------
(* Changing domain *)

\* A bug to tell apart: the triggers are saved and left in the hardware.
SwitchedOutStays == [i \in Trig |-> thw[i]]

\* dbtr_hart_switch_out(): the installed ones are saved and cleared
SwitchedOut == [i \in Trig |-> IF i \in Mapped(tcur) THEN HwClear(thw[i]) ELSE thw[i]]
SavedOut == [i \in Trig |-> IF i \in Mapped(tcur) THEN {thw[i]} ELSE D.saved[i]]

\* ... and dbtr_hart_switch_in(): dbtr_hart_init() when fresh, as they were otherwise
DbtrSwitch(d, fresh) ==
  LET out == [dbtr EXCEPT ![tcur].saved = SavedOut]
  IN  /\ TCall
      /\ fresh \/ d \in tready
      /\ tcur' = d /\ tready' = tready \cup {d}
      /\ IF fresh
           THEN /\ dbtr' = [out EXCEPT ![d] = HartInit(SwitchedOut)]
                /\ thw' = ClearedUpto(SwitchedOut, FoundCount(SwitchedOut))
                /\ twant' = [twant EXCEPT ![d] = Unused]
           ELSE /\ dbtr' = out
                /\ thw' = [i \in Trig |-> IF out[d].state[i] = {} THEN SwitchedOut[i]
                                          ELSE CHOOSE x \in out[d].saved[i] : TRUE]
                /\ UNCHANGED twant

DbtrNext ==
  \/ \E c1, c2 \in Configs : \E runs \in {<<<<c1>>>>, <<<<c1, c2>>>>, <<<<c1>>, <<c2>>>>} :
       DbtrInstall(runs)
  \/ \E i \in Trig : TriggerFires(i) \/ \E c \in Configs : DbtrUpdate(i, c)
  \/ \E op \in {"UNINSTALL", "ENABLE", "DISABLE"} : \E set \in SUBSET Trig : DbtrSetOp(op, set)
  \/ \E d \in TDomain : \E fresh \in BOOLEAN : DbtrSwitch(d, fresh)

DbtrSpec == DbtrInit /\ [][DbtrNext]_dbtrVars
-------------------------------------------------------------------------------
(* Properties *)

\* The hardware holds the current domain's triggers as S-mode set them, hit bits
\* included, and no trigger of anybody else can match; a domain the hart has left
\* has its own saved the same way (dbtr_hart_switch_out(), dbtr_hart_switch_in(),
\* the undoing in dbtr_install() and dbtr_update()).
TriggersAreTheDomains ==
  /\ \A i \in Trig : IF i \in Mapped(tcur) THEN {thw[i]} = twant[tcur][i] ELSE thw[i].modes = {}
  /\ \A d \in tready \ {tcur} : \A i \in Mapped(d) : dbtr[d].saved[i] = twant[d][i]

\* Every domain finds the triggers the hart has, however often they were cleared
\* before (dbtr_hart_init()).
TriggersAreFound ==
  \A d \in tready : dbtr[d].count = NrTriggers /\ \A i \in Trig : dbtr[d].types[i] = TrigTypes[i]
================================================================================
