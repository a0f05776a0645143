---------------------------- MODULE ServiceProofs -----------------------------
(***************************************************************************)
(* Proofs about services of the monitor that share no state: the firmware  *)
(* features (Fwft), the pages a remote fence covers (FenceRange), the      *)
(* debug triggers (Dbtr) and the state a domain finds on a hart            *)
(* (HartState).                                                            *)
(***************************************************************************)
EXTENDS Fwft, FenceRange, Dbtr, HartState, SequenceTheorems,
        WellFoundedInduction, TLAPS

-------------------------------------------------------------------------------
(* Fwft: a locked feature keeps its value, for any set of domains, any values  *)
(* the fields can hold and any number of calls.  LocksHold is not inductive: a *)
(* set call goes by the domain's lock bits, not by the promise, so the two     *)
(* have to agree; and a switch away saves the fields of a domain that has been *)
(* started.                                                                    *)

FwftTypes ==
  /\ field \in [Feature -> Nat]
  /\ fcur \in fready /\ fready \subseteq FDomain
  /\ fwft \in [FDomain -> [locked : SUBSET Feature, saved : [Feature -> Nat]]]
  /\ promised \in [FDomain -> [Feature -> SUBSET Nat]]

PromisesAreLocks ==
  \A d \in fready : \A f \in Feature : promised[d][f] # {} => f \in fwft[d].locked

FwftInv == FwftTypes /\ PromisesAreLocks /\ LocksHold
-------------------------------------------------------------------------------
\* Out of reset nothing is set and nothing is promised.
LEMMA InitFwftInv == FwftInit => FwftInv
<1> USE FwftAssumption DEF FwftInit, Zero, Nothing
<1>1. FwftInit => FwftTypes
  BY DEF FwftTypes
<1>2. FwftInit => PromisesAreLocks /\ LocksHold
  BY DEF PromisesAreLocks, LocksHold
<1> QED
  BY <1>1, <1>2 DEF FwftInv

\* No call, change of domain or restart breaks a promise.
LEMMA NextFwftInv == FwftInv /\ [FwftNext]_fwftVars => FwftInv'
<1> SUFFICES ASSUME FwftInv, [FwftNext]_fwftVars PROVE FwftInv'
  OBVIOUS
<1>1. ASSUME NEW f \in Feature, NEW v \in FieldOf[f], NEW lock \in BOOLEAN, FwftSet(f, v, lock)
      PROVE  FwftInv'
  <2>1. v \in Nat
    BY DEF FieldOf, Feature
  <2>2. FwftTypes'
    BY <1>1, <2>1 DEF FwftSet, FwftInv, FwftTypes
  <2>3. promised[fcur][f] = {}
    BY <1>1 DEF FwftSet, FwftInv, FwftTypes, PromisesAreLocks
  <2>4. PromisesAreLocks'
    BY <1>1, <2>1 DEF FwftSet, FwftInv, FwftTypes, PromisesAreLocks
  <2>5. LocksHold'
    BY <1>1, <2>1, <2>3 DEF FwftSet, FwftInv, FwftTypes, LocksHold
  <2> QED
    BY <2>2, <2>4, <2>5 DEF FwftInv
<1>2. ASSUME NEW f \in Feature, NEW v \in FieldOf[f], FwftRefuses(f, v) PROVE FwftInv'
  BY <1>2 DEF FwftRefuses, FwftInv, FwftTypes, PromisesAreLocks, LocksHold
<1>3. ASSUME NEW d \in FDomain, NEW fresh \in BOOLEAN, FwftSwitch(d, fresh) PROVE FwftInv'
  <2>1. FwftTypes'
    BY <1>3 DEF FwftSwitch, FwftInv, FwftTypes, Zero, Nothing
  <2>2. CASE fresh
    <3>1. fwft'[d].locked = {} /\ field' = Zero /\ promised'[d] = Nothing
      BY <1>3, <2>2 DEF FwftSwitch, FwftInv, FwftTypes
    <3>2. \A c \in FDomain \ {d} : /\ fwft'[c].locked = fwft[c].locked
                                   /\ promised'[c] = promised[c]
                                   /\ fwft'[c].saved = IF c = fcur THEN field ELSE fwft[c].saved
      BY <1>3, <2>2 DEF FwftSwitch, FwftInv, FwftTypes
    <3>3. fcur' = d /\ fready' = fready \cup {d}
      BY <1>3 DEF FwftSwitch
    <3>4. PromisesAreLocks'
      BY <3>1, <3>2, <3>3 DEF FwftInv, FwftTypes, PromisesAreLocks, Nothing
    <3>5. ASSUME NEW c \in fready', NEW f \in Feature, promised'[c][f] # {}
          PROVE  promised'[c][f] = {IF c = fcur' THEN field'[f] ELSE fwft'[c].saved[f]}
      <4>1. c # d /\ c \in fready /\ c \in FDomain \ {d}
        BY <3>1, <3>3, <3>5 DEF FwftInv, FwftTypes, Nothing
      <4>2. promised'[c][f] = {IF c = fcur THEN field[f] ELSE fwft[c].saved[f]}
        BY <3>2, <3>5, <4>1 DEF FwftInv, LocksHold
      <4>3. fwft'[c].saved[f] = IF c = fcur THEN field[f] ELSE fwft[c].saved[f]
        BY <3>2, <4>1
      <4> QED
        BY <3>3, <4>1, <4>2, <4>3
    <3>6. LocksHold'
      BY <3>5 DEF LocksHold
    <3> QED
      BY <2>1, <3>4, <3>6 DEF FwftInv
  <2>3. CASE ~fresh
    <3>1. promised' = promised /\ fcur' = d /\ d \in fready /\ fready' = fready
      BY <1>3, <2>3 DEF FwftSwitch
    <3>2. \A c \in FDomain : /\ fwft'[c].locked = fwft[c].locked
                             /\ fwft'[c].saved = IF c = fcur THEN field ELSE fwft[c].saved
      BY <1>3, <2>3 DEF FwftSwitch, FwftInv, FwftTypes
    <3>3. field' = fwft'[d].saved
      BY <1>3, <2>3 DEF FwftSwitch
    <3>4. PromisesAreLocks'
      BY <3>1, <3>2 DEF FwftInv, FwftTypes, PromisesAreLocks
    <3>5. ASSUME NEW c \in fready', NEW f \in Feature, promised'[c][f] # {}
          PROVE  promised'[c][f] = {IF c = fcur' THEN field'[f] ELSE fwft'[c].saved[f]}
      <4>1. promised[c][f] = {IF c = fcur THEN field[f] ELSE fwft[c].saved[f]}
        BY <3>1, <3>5 DEF FwftInv, LocksHold
      <4>2. (IF c = fcur' THEN field'[f] ELSE fwft'[c].saved[f]) = fwft'[c].saved[f]
        BY <3>1, <3>3
      <4>3. fwft'[c].saved[f] = IF c = fcur THEN field[f] ELSE fwft[c].saved[f]
        BY <3>1, <3>2 DEF FwftInv, FwftTypes
      <4> QED
        BY <3>1, <4>1, <4>2, <4>3
    <3>6. LocksHold'
      BY <3>5 DEF LocksHold
    <3> QED
      BY <2>1, <3>4, <3>6 DEF FwftInv
  <2> QED
    BY <2>2, <2>3
<1>4. ASSUME FwftRestart PROVE FwftInv'
  <2>1. FwftTypes'
    BY <1>4 DEF FwftRestart, FwftInv, FwftTypes, Zero, Nothing
  <2>2. /\ fcur' = fcur /\ fready' = fready /\ fcur \in FDomain /\ fready \subseteq FDomain
        /\ promised'[fcur] = Nothing
        /\ \A c \in FDomain \ {fcur} : promised'[c] = promised[c] /\ fwft'[c] = fwft[c]
    BY <1>4 DEF FwftRestart, FwftInv, FwftTypes
  <2>3. PromisesAreLocks'
    BY <2>2 DEF FwftInv, PromisesAreLocks, Nothing
  <2>4. LocksHold'
    BY <2>2 DEF FwftInv, LocksHold, Nothing
  <2> QED
    BY <2>1, <2>3, <2>4 DEF FwftInv
<1>5. CASE UNCHANGED fwftVars
  BY <1>5 DEF fwftVars, FwftInv, FwftTypes, PromisesAreLocks, LocksHold
<1> QED
  BY <1>1, <1>2, <1>3, <1>4, <1>5 DEF FwftNext

\* A feature that a domain has locked keeps its value there until the hart is
\* started again, however many domains set, lock and switch on the hart
\* (fwft_set(), fwft_hart_switch_out(), fwft_hart_switch_in()).
THEOREM LocksAlwaysHold == FwftSpec => []LocksHold
<1>1. FwftInv => LocksHold
  BY DEF FwftInv
<1> QED
  BY <1>1, InitFwftInv, NextFwftInv, PTL DEF FwftSpec

-------------------------------------------------------------------------------
(* FenceRange: fence_local() misses no page of a range that starts at a page,  *)
(* for any page size, any limit of pages and any width of the registers.       *)
(* CoversRange says nothing of a walk under way.  The inductive invariant      *)
(* does: the offset is a multiple of the page size, and everything below it is *)
(* flushed.  That one fence_one() does for all of its page, also where the     *)
(* address wraps, is the arithmetic of SamePage.                               *)

\* Quotient and remainder.
LEMMA DivMod ==
  ASSUME NEW a \in Int, NEW P \in Nat \ {0}
  PROVE  a \div P \in Int /\ a % P \in 0 .. P - 1 /\ a = P * (a \div P) + (a % P)
<1>1. a \div P \in Int
  OBVIOUS
<1>2. a % P \in 0 .. P - 1
  OBVIOUS
<1>3. a = P * (a \div P) + (a % P)
  OBVIOUS
<1> QED
  BY <1>1, <1>2, <1>3

\* They are the only ones.
LEMMA DivModUnique ==
  ASSUME NEW P \in Nat \ {0}, NEW a \in Int, NEW y \in Int, NEW r \in Nat, r < P, a = P * y + r
  PROVE  a \div P = y /\ a % P = r
<1> DEFINE d == a \div P
           m == a % P
<1>1. d \in Int /\ m \in 0 .. P - 1 /\ a = P * d + m
  BY DivMod
<1> HIDE DEF d, m
<1>2. P * (y - d) = m - r
  BY <1>1
<1>3. ASSUME y - d >= 1 PROVE FALSE
  <2>1. P * (y - d) >= P
    BY <1>1, <1>3
  <2> QED
    BY <1>1, <1>2, <2>1
<1>4. ASSUME y - d <= -1 PROVE FALSE
  <2>1. P * (y - d) <= -P
    BY <1>1, <1>4
  <2> QED
    BY <1>1, <1>2, <2>1
<1>5. d = y
  BY <1>1, <1>3, <1>4
<1>6. m = r
  BY <1>1, <1>5
<1> QED
  BY <1>5, <1>6 DEF d, m

\* Two multiples of the page size add up to one.
LEMMA SumOfPages ==
  ASSUME NEW P \in Nat \ {0}, NEW a \in Nat, NEW b \in Nat, a % P = 0, b % P = 0
  PROVE  (a + b) % P = 0
<1> DEFINE x == a \div P
           y == b \div P
<1>1. x \in Int /\ a = P * x
  OBVIOUS
<1>2. y \in Int /\ b = P * y
  OBVIOUS
<1> HIDE DEF x, y
<1>3. a + b = P * (x + y) + 0 /\ x + y \in Int /\ a + b \in Int /\ 0 \in Nat /\ 0 < P
  BY <1>1, <1>2
<1> QED
  BY <1>3, DivModUnique, Zenon

\* Less than a page past the start of a page is the same page, modulo a number of
\* whole pages.
LEMMA SamePage ==
  ASSUME NEW P \in Nat \ {0}, NEW M \in Nat \ {0}, M % P = 0, NEW a \in Nat, a % P = 0,
         NEW r \in Nat, r < P
  PROVE  ((a + r) % M) \div P = (a % M) \div P
<1> DEFINE q == M \div P
           x == a \div P
           t == a \div M
           b == a % M
           y == x - q * t
<1>1. q \in Int /\ M = P * q
  OBVIOUS
<1>2. x \in Int /\ a = P * x
  OBVIOUS
<1>3. t \in Int /\ b \in 0 .. M - 1 /\ a = M * t + b
  OBVIOUS
<1> HIDE DEF q, x, t, b
<1>4. y \in Int
  BY <1>1, <1>2, <1>3
<1>5. b = P * y
  <2>1. M * t = P * (q * t)
    BY <1>1, <1>3
  <2>2. P * (x - q * t) = P * x - P * (q * t)
    BY <1>1, <1>2, <1>3
  <2> QED
    BY <1>2, <1>3, <2>1, <2>2
<1> HIDE DEF y
<1>6. y <= q - 1
  <2>1. ASSUME y - q >= 0 PROVE FALSE
    <3>1. P * (y - q) >= 0
      BY <1>1, <1>4, <2>1
    <3>2. P * (y - q) = P * y - P * q
      BY <1>1, <1>4
    <3> QED
      BY <1>1, <1>3, <1>5, <3>1, <3>2
  <2> QED
    BY <1>1, <1>4, <2>1
<1>7. b + r < M
  <2>1. P * (q - 1 - y) >= 0
    BY <1>1, <1>4, <1>6
  <2>2. P * (q - 1 - y) = P * q - P - P * y
    BY <1>1, <1>4
  <2> QED
    BY <1>1, <1>3, <1>5, <2>1, <2>2
<1>8. (a + r) % M = b + r
  <2>1. a + r = M * t + (b + r) /\ a + r \in Int /\ b + r \in Nat
    BY <1>3
  <2> QED
    BY <1>3, <1>7, <2>1, DivModUnique, Zenon
<1>9. (b + r) \div P = y
  <2>1. b + r = P * y + r /\ b + r \in Int
    BY <1>3, <1>5
  <2> QED
    BY <1>4, <2>1, DivModUnique, Zenon
<1>10. b \div P = y
  <2>1. b = P * y + 0 /\ b \in Int /\ 0 \in Nat /\ 0 < P
    BY <1>3, <1>4, <1>5
  <2> QED
    BY <1>4, <2>1, DivModUnique, Zenon
<1> QED
  BY <1>8, <1>9, <1>10 DEF b
-------------------------------------------------------------------------------
RangeInv ==
  /\ start \in Addr /\ size \in Addr /\ off \in Nat
  /\ off % PageSize = 0
  /\ start % PageSize = 0 => \A k \in 0 .. off - 1 : Page(Wrap(start + k)) \in flushed
  /\ pc = "done" /\ type # "FENCE_I" /\ ~all => off >= size

\* A fence that is done has flushed every page of the range it was given, where that
\* starts at a page, up to the top of the address space and across it
\* (fence_local(), sbi_rfence_ecall() and the legacy calls).
THEOREM RangeIsCovered == Spec => []CoversRange
<1> USE RangeAssumption
<1>1. Init => RangeInv
  <2>1. 0 % PageSize = 0
    BY DivModUnique
  <2> QED
    BY <2>1 DEF Init, RangeInv
<1>2. RangeInv /\ [Next]_vars => RangeInv'
  <2> SUFFICES ASSUME RangeInv, [Next]_vars PROVE RangeInv'
    OBVIOUS
  <2>1. CASE Ecall
    BY <2>1 DEF Ecall, RangeInv, request
  <2>2. CASE FenceLocal
    BY <2>2 DEF FenceLocal, RangeInv, request
  <2>3. CASE FenceOne
    <3>1. off' = off + PageSize /\ off' \in Nat /\ UNCHANGED <<start, size, pc, type, all>>
      BY <2>3 DEF FenceOne, RangeInv, request
    <3>2. off' % PageSize = 0
      <4>1. PageSize % PageSize = 0
        BY DivModUnique
      <4> QED
        BY <3>1, <4>1, SumOfPages DEF RangeInv
    <3>3. ASSUME start % PageSize = 0, NEW k \in 0 .. off' - 1
          PROVE  Page(Wrap(start + k)) \in flushed'
      <4>1. CASE k < off
        BY <2>3, <3>1, <3>3, <4>1 DEF FenceOne, RangeInv
      <4>2. CASE k >= off
        <5>1. start \in Nat /\ off \in Nat /\ start + off \in Nat
          BY DEF RangeInv, Addr
        <5>2. (start + off) % PageSize = 0
          BY <3>3, <5>1, SumOfPages DEF RangeInv
        <5>3. k - off \in Nat /\ k - off < PageSize
          BY <3>1, <4>2, <5>1
        <5>4. MaxAddr + 1 \in Nat \ {0}
          OBVIOUS
        <5>5. ((start + off + (k - off)) % (MaxAddr + 1)) \div PageSize
                = ((start + off) % (MaxAddr + 1)) \div PageSize
          <6> DEFINE M == MaxAddr + 1
                     a == start + off
                     r == k - off
          <6>1. /\ PageSize \in Nat \ {0} /\ M \in Nat \ {0} /\ M % PageSize = 0
                /\ a \in Nat /\ a % PageSize = 0 /\ r \in Nat /\ r < PageSize
            BY <5>1, <5>2, <5>3, <5>4
          <6> HIDE DEF M, a, r
          <6>2. ((a + r) % M) \div PageSize = (a % M) \div PageSize
            BY <6>1, SamePage, Zenon
          <6> QED
            BY <6>2 DEF M, a, r
        <5>6. start + off + (k - off) = start + k
          BY <3>1, <5>1
        <5> QED
          BY <2>3, <5>5, <5>6 DEF FenceOne, Page, Wrap
      <4> QED
        BY <3>1, <4>1, <4>2 DEF RangeInv
    <3> QED
      BY <2>3, <3>1, <3>2, <3>3 DEF RangeInv, FenceOne
  <2>4. CASE LoopEnd
    BY <2>4 DEF LoopEnd, RangeInv, request
  <2>5. CASE UNCHANGED vars
    BY <2>5 DEF vars, RangeInv
  <2> QED
    BY <2>1, <2>2, <2>3, <2>4, <2>5 DEF Next
<1>3. RangeInv => CoversRange
  BY DEF RangeInv, CoversRange, Addr
<1> QED
  BY <1>1, <1>2, <1>3, PTL DEF Spec

-------------------------------------------------------------------------------
(* Dbtr: the hardware has the current domain's triggers and no others, for any  *)
(* number of triggers and domains and any hardware.  That a trigger taken back  *)
(* from what was saved is the one S-mode set needs what was saved to be one     *)
(* value, and that dbtr_install() may clear a place it could not use needs the  *)
(* place to have been free.                                                     *)

TMode == {"s", "u", "vs", "vu"}
TValue == [type : Nat, chain : BOOLEAN, modes : SUBSET TMode, hit : BOOLEAN]
TConfig == [type : Nat, modes : SUBSET TMode, mmode : BOOLEAN]
TRecord == [count : 0 .. NrTriggers, types : [Trig -> SUBSET Nat],
            state : [Trig -> SUBSET ({"MAPPED"} \cup TMode)], saved : [Trig -> SUBSET TValue]]

DbtrTypes ==
  /\ thw \in [Trig -> TValue]
  /\ tcur \in tready /\ tready \subseteq TDomain
  /\ dbtr \in [TDomain -> TRecord]
  /\ twant \in [TDomain -> [Trig -> SUBSET TValue]]

OneIsWanted == \A d \in tready : \A i \in Mapped(d) : \E x \in TValue : twant[d][i] = {x}

DbtrInv == DbtrTypes /\ OneIsWanted /\ TriggersAreTheDomains

\* The smallest of a set of naturals, which is where find_run() puts a chain and
\* where dbtr_hart_init() stops counting.
LEMMA LeastNatural ==
  ASSUME NEW S \in SUBSET Nat, S # {}
  PROVE  \E n \in S : \A m \in S : n <= m
<1> DEFINE R == OpToRel(<, Nat)
<1>1. \E n \in S : \A m \in S : ~(<<m, n>> \in R)
  <2>1. IsWellFoundedOn(R, Nat)
    BY NatLessThanWellFounded
  <2> HIDE DEF R
  <2> QED
    BY <2>1, WFMin
<1>2. \A m, n \in Nat : m < n => <<m, n>> \in R
  BY DEF OpToRel
<1> HIDE DEF R
<1>3. PICK n \in S : \A m \in S : ~(<<m, n>> \in R)
  BY <1>1
<1>4. \A m \in S : n <= m
  <2> TAKE m \in S
  <2>1. m \in Nat /\ n \in Nat /\ ~(<<m, n>> \in R)
    BY <1>3
  <2>2. ~(m < n)
    BY <1>2, <2>1
  <2> QED
    BY <2>1, <2>2
<1> QED
  BY <1>4

\* What hw_clear() leaves matches in no mode.
LEMMA ClearIsOff ==
  ASSUME NEW t \in TValue
  PROVE  HwClear(t) \in TValue /\ HwClear(t).modes = {}
<1>1. (IF ZeroType = HadType THEN t.type ELSE ZeroType) \in Nat
  BY DbtrAssumption DEF TValue
<1> QED
  BY <1>1 DEF HwClear, Off, TValue

\* dbtr_hart_init() finds no more triggers than there are.
LEMMA InitIsRecord ==
  ASSUME NEW hw \in [Trig -> TValue]
  PROVE  /\ FoundCount(hw) \in 0 .. NrTriggers
         /\ HartInit(hw) \in TRecord
         /\ HartInit(hw).state = Unused
<1> DEFINE none == {i \in Trig : FoundTypes(hw, i) = {0}}
<1>1. NrTriggers \in Nat
  BY DbtrAssumption
<1>2. none = {} => FoundCount(hw) \in 0 .. NrTriggers
  BY <1>1 DEF FoundCount
<1>3. ASSUME none # {} PROVE FoundCount(hw) \in 0 .. NrTriggers
  <2>1. none \in SUBSET Nat
    BY <1>1 DEF Trig
  <2>2. \E i \in none : \A j \in none : i <= j
    <3> HIDE DEF none
    <3> QED
      BY <1>3, <2>1, LeastNatural
  <2>3. FoundCount(hw) \in none
    BY <1>3, <2>2 DEF FoundCount
  <2> QED
    BY <1>1, <2>3 DEF Trig
<1>4. FoundCount(hw) \in 0 .. NrTriggers
  BY <1>2, <1>3
<1>5. \A i \in Trig : FoundTypes(hw, i) \in SUBSET Nat
  <2> TAKE i \in Trig
  <2>1. hw[i].type \in Nat
    BY DEF TValue
  <2>2. TrigTypes[i] \subseteq Nat
    BY DbtrAssumption
  <2> QED
    BY <2>1, <2>2 DEF FoundTypes
<1>6. [i \in Trig |-> FoundTypes(hw, i)] \in [Trig -> SUBSET Nat]
  BY <1>5
<1>7. /\ Unused \in [Trig -> SUBSET ({"MAPPED"} \cup TMode)]
      /\ Unused \in [Trig -> SUBSET TValue]
  BY DEF Unused
<1> HIDE DEF none
<1> QED
  BY <1>4, <1>6, <1>7 DEF HartInit, TRecord

\* ... and clears those it counts.
LEMMA ClearedUptoIsOff ==
  ASSUME NEW hw \in [Trig -> TValue], \A i \in Trig : hw[i].modes = {}, NEW n
  PROVE  /\ ClearedUpto(hw, n) \in [Trig -> TValue]
         /\ \A i \in Trig : ClearedUpto(hw, n)[i].modes = {}
BY ClearIsOff DEF ClearedUpto
-------------------------------------------------------------------------------
\* A step within the current domain that leaves each trigger either free and off or
\* as S-mode wants it.
LEMMA WithinDomain ==
  ASSUME DbtrInv, DbtrTypes', tcur' = tcur, tready' = tready,
         \A d \in TDomain \ {tcur} : dbtr'[d] = dbtr[d] /\ twant'[d] = twant[d],
         \A i \in Trig : IF dbtr'[tcur].state[i] # {} THEN {thw'[i]} = twant'[tcur][i]
                                                      ELSE thw'[i].modes = {}
  PROVE  DbtrInv'
<1>1. tcur \in TDomain /\ tready \subseteq TDomain
  BY DEF DbtrInv, DbtrTypes
<1>2. \A d \in TDomain \ {tcur} : Mapped(d)' = Mapped(d)
  BY DEF Mapped
<1>3. \A i \in Trig : thw'[i] \in TValue
  BY DEF DbtrTypes
<1>4. OneIsWanted'
  <2> SUFFICES ASSUME NEW d \in tready, NEW i \in Mapped(d)'
               PROVE  \E x \in TValue : twant'[d][i] = {x}
    BY DEF OneIsWanted
  <2>1. CASE d = tcur
    <3>1. i \in Trig /\ dbtr'[tcur].state[i] # {}
      BY <2>1 DEF Mapped
    <3>2. twant'[d][i] = {thw'[i]}
      BY <2>1, <3>1
    <3> QED
      BY <1>3, <3>1, <3>2
  <2>2. CASE d # tcur
    <3>1. i \in Mapped(d) /\ twant'[d] = twant[d]
      BY <1>1, <1>2, <2>2
    <3> QED
      BY <3>1 DEF DbtrInv, OneIsWanted
  <2> QED
    BY <2>1, <2>2
<1>5. \A i \in Trig : IF i \in Mapped(tcur)' THEN {thw'[i]} = twant'[tcur][i]
                                             ELSE thw'[i].modes = {}
  BY DEF Mapped
<1>6. \A d \in tready \ {tcur} : \A i \in Mapped(d)' : dbtr'[d].saved[i] = twant'[d][i]
  BY <1>1, <1>2 DEF DbtrInv, TriggersAreTheDomains
<1>7. TriggersAreTheDomains'
  BY <1>5, <1>6 DEF TriggersAreTheDomains
<1> QED
  BY <1>4, <1>7 DEF DbtrInv

\* What the hardware has at a place, under the invariant.
LEMMA TriggerAt ==
  ASSUME DbtrInv, NEW i \in Trig
  PROVE  IF dbtr[tcur].state[i] # {} THEN {thw[i]} = twant[tcur][i] ELSE thw[i].modes = {}
BY DEF DbtrInv, TriggersAreTheDomains, Mapped

\* A run that find_run() returns is free.
LEMMA RunIsFree ==
  ASSUME DbtrInv, NEW run \in Seq(TConfig), NEW taken, NEW s \in FindRun(run, taken),
         NEW i \in DOMAIN run
  PROVE  s + i - 1 \notin Mapped(tcur)
<1> DEFINE fits == {r \in 0 .. D.count : r + Len(run) <= D.count /\
                      \A j \in DOMAIN run : /\ r + j - 1 \notin Mapped(tcur) \cup taken
                                            /\ run[j].type \in D.types[r + j - 1]}
<1>1. fits # {} /\ s = CHOOSE r \in fits : \A q \in fits : r <= q
  BY DEF FindRun
<1>2. fits \in SUBSET Nat
  OBVIOUS
<1>3. \E r \in fits : \A q \in fits : r <= q
  <2> HIDE DEF fits
  <2> QED
    BY <1>1, <1>2, LeastNatural
<1>4. s \in fits
  BY <1>1, <1>3
<1> QED
  BY <1>4
-------------------------------------------------------------------------------
\* The calls of S-mode change the current domain's record in its states alone, and
\* what S-mode wants there with it.
LEMMA InstalledState ==
  ASSUME DbtrInv, NEW st \in [Trig -> SUBSET ({"MAPPED"} \cup TMode)],
         NEW tw \in [Trig -> SUBSET TValue],
         thw' \in [Trig -> TValue], tcur' = tcur, tready' = tready,
         dbtr' = [dbtr EXCEPT ![tcur].state = st], twant' = [twant EXCEPT ![tcur] = tw],
         \A i \in Trig : IF st[i] # {} THEN {thw'[i]} = tw[i] ELSE thw'[i].modes = {}
  PROVE  DbtrInv'
<1>1. tcur \in TDomain /\ tcur \in tready /\ tready \subseteq TDomain
      /\ dbtr \in [TDomain -> TRecord] /\ twant \in [TDomain -> [Trig -> SUBSET TValue]]
  BY DEF DbtrInv, DbtrTypes
<1>2. /\ dbtr'[tcur] = [dbtr[tcur] EXCEPT !.state = st] /\ twant'[tcur] = tw
      /\ \A d \in TDomain \ {tcur} : dbtr'[d] = dbtr[d] /\ twant'[d] = twant[d]
  BY <1>1
<1>3. dbtr'[tcur] \in TRecord /\ dbtr'[tcur].state = st
  <2>1. \A r \in TRecord : [r EXCEPT !.state = st] \in TRecord /\ [r EXCEPT !.state = st].state = st
    BY DEF TRecord
  <2> QED
    BY <1>1, <1>2, <2>1
<1>4. dbtr' \in [TDomain -> TRecord]
  BY <1>1, <1>2, <1>3
<1>5. twant' \in [TDomain -> [Trig -> SUBSET TValue]]
  BY <1>1
<1>6. DbtrTypes'
  BY <1>1, <1>4, <1>5 DEF DbtrTypes
<1>7. \A i \in Trig : IF dbtr'[tcur].state[i] # {} THEN {thw'[i]} = twant'[tcur][i]
                                                   ELSE thw'[i].modes = {}
  BY <1>2, <1>3
<1> QED
  BY <1>2, <1>6, <1>7, WithinDomain

\* Every place of a chain that is being installed has a configuration.
LEMMA PlacesHaveConfigs ==
  ASSUME NEW runs \in Seq(Seq(TConfig)), NEW at \in [DOMAIN runs -> 0 .. NrTriggers],
         NEW i \in Places(runs, at), NEW k,
         k = CHOOSE j \in DOMAIN runs : i \in PlacesOf(runs, at, j)
  PROVE  /\ k \in DOMAIN runs /\ runs[k] \in Seq(TConfig)
         /\ i - at[k] + 1 \in DOMAIN runs[k]
         /\ i = at[k] + (i - at[k] + 1) - 1
         /\ runs[k][i - at[k] + 1] \in TConfig
<1>1. \E j \in DOMAIN runs : i \in PlacesOf(runs, at, j)
  BY DEF Places
<1>2. k \in DOMAIN runs /\ i \in PlacesOf(runs, at, k)
  BY <1>1
<1>3. runs[k] \in Seq(TConfig)
  BY <1>2
<1>4. at[k] \in Nat /\ Len(runs[k]) \in Nat /\ DOMAIN runs[k] = 1 .. Len(runs[k])
  BY <1>2, <1>3, DbtrAssumption
<1>5. i \in at[k] .. at[k] + Len(runs[k]) - 1
  BY <1>2 DEF PlacesOf
<1>6. i - at[k] + 1 \in DOMAIN runs[k] /\ i = at[k] + (i - at[k] + 1) - 1
  <2>1. \A a, n \in Nat : \A m \in a .. a + n - 1 : m - a + 1 \in 1 .. n /\ m = a + (m - a + 1) - 1
    OBVIOUS
  <2> QED
    BY <1>4, <1>5, <2>1
<1>7. runs[k][i - at[k] + 1] \in TConfig
  BY <1>3, <1>6
<1> QED
  BY <1>2, <1>3, <1>6, <1>7

\* dbtr_install(), whether the hardware takes all of the triggers or not.
LEMMA InstallKeepsInv ==
  ASSUME DbtrInv, NEW runs \in Seq(Seq(TConfig)), DbtrInstall(runs)
  PROVE  DbtrInv'
<1>1. PICK at \in [DOMAIN runs -> 0 .. NrTriggers] :
       LET places == Places(runs, at)
           PartAt(i) == CHOOSE k \in DOMAIN runs : i \in PlacesOf(runs, at, k)
           CfgAt(i) == runs[PartAt(i)][i - at[PartAt(i)] + 1]
           new == [i \in places |-> Tdata1(CfgAt(i), i + 1 \in PlacesOf(runs, at, PartAt(i)))]
           ok == \A i \in places : <<i, CfgAt(i)>> \notin Rejected
       IN  /\ Placed(runs, at)
           /\ thw' = [i \in Trig |-> IF i \notin places THEN thw[i]
                                     ELSE IF ok THEN new[i] ELSE HwClear(thw[i])]
           /\ dbtr' = [dbtr EXCEPT ![tcur].state = [i \in Trig |->
                         IF i \in places /\ ok THEN StateOf(CfgAt(i)) ELSE @[i]]]
           /\ twant' = [twant EXCEPT ![tcur] = [i \in Trig |->
                         IF i \in places /\ ok THEN {new[i]} ELSE @[i]]]
  BY DEF DbtrInstall
<1> DEFINE places == Places(runs, at)
           PartAt(i) == CHOOSE k \in DOMAIN runs : i \in PlacesOf(runs, at, k)
           CfgAt(i) == runs[PartAt(i)][i - at[PartAt(i)] + 1]
           new == [i \in places |-> Tdata1(CfgAt(i), i + 1 \in PlacesOf(runs, at, PartAt(i)))]
           ok == \A i \in places : <<i, CfgAt(i)>> \notin Rejected
<1>2. tcur' = tcur /\ tready' = tready
  BY DEF DbtrInstall
<1>3. /\ thw \in [Trig -> TValue] /\ tcur \in TDomain /\ dbtr \in [TDomain -> TRecord]
      /\ twant \in [TDomain -> [Trig -> SUBSET TValue]]
      /\ dbtr[tcur].state \in [Trig -> SUBSET ({"MAPPED"} \cup TMode)]
      /\ twant[tcur] \in [Trig -> SUBSET TValue]
  BY DEF DbtrInv, DbtrTypes, TRecord
<1>4. \A i \in places : CfgAt(i) \in TConfig
  BY PlacesHaveConfigs
<1>5. \A i \in places : i \notin Mapped(tcur)
  <2> SUFFICES ASSUME NEW i \in places PROVE i \notin Mapped(tcur)
    OBVIOUS
  <2> DEFINE k == PartAt(i)
             j == i - at[k] + 1
  <2>1. k \in DOMAIN runs /\ runs[k] \in Seq(TConfig) /\ j \in DOMAIN runs[k] /\ i = at[k] + j - 1
    BY PlacesHaveConfigs
  <2>2. at[k] \in FindRun(runs[k], UNION {PlacesOf(runs, at, m) : m \in 1 .. k - 1})
    BY <1>1, <2>1 DEF Placed
  <2> HIDE DEF k, j
  <2>3. at[k] + j - 1 \notin Mapped(tcur)
    BY <2>1, <2>2, RunIsFree
  <2> QED
    BY <2>1, <2>3
<1>6. \A i \in places : new[i] \in TValue
  <2> TAKE i \in places
  <2>1. new[i] = Tdata1(CfgAt(i), i + 1 \in PlacesOf(runs, at, PartAt(i)))
    OBVIOUS
  <2>2. CfgAt(i) \in TConfig /\ (i + 1 \in PlacesOf(runs, at, PartAt(i))) \in BOOLEAN
    BY <1>4
  <2> HIDE DEF CfgAt, PartAt, new
  <2> QED
    BY <2>1, <2>2 DEF Tdata1, TConfig, TValue
<1>7. \A i \in places : /\ StateOf(CfgAt(i)) # {}
                        /\ StateOf(CfgAt(i)) \in SUBSET ({"MAPPED"} \cup TMode)
  <2> HIDE DEF CfgAt
  <2> QED
    BY <1>4 DEF StateOf, TConfig
<1>8. /\ thw' = [i \in Trig |-> IF i \notin places THEN thw[i]
                                ELSE IF ok THEN new[i] ELSE HwClear(thw[i])]
      /\ dbtr' = [dbtr EXCEPT ![tcur].state = [i \in Trig |->
                    IF i \in places /\ ok THEN StateOf(CfgAt(i)) ELSE @[i]]]
      /\ twant' = [twant EXCEPT ![tcur] = [i \in Trig |->
                    IF i \in places /\ ok THEN {new[i]} ELSE @[i]]]
  BY <1>1
<1> HIDE DEF places, PartAt, CfgAt, new, ok
<1> DEFINE st == [i \in Trig |-> IF i \in places /\ ok THEN StateOf(CfgAt(i))
                                 ELSE dbtr[tcur].state[i]]
           tw == [i \in Trig |-> IF i \in places /\ ok THEN {new[i]} ELSE twant[tcur][i]]
<1>9. dbtr' = [dbtr EXCEPT ![tcur].state = st] /\ twant' = [twant EXCEPT ![tcur] = tw]
  BY <1>3, <1>8
<1>10. /\ st \in [Trig -> SUBSET ({"MAPPED"} \cup TMode)]
       /\ tw \in [Trig -> SUBSET TValue]
  BY <1>3, <1>6, <1>7
<1>11. thw' \in [Trig -> TValue]
  BY <1>3, <1>6, <1>8, ClearIsOff
<1>12. \A i \in Trig : IF st[i] # {} THEN {thw'[i]} = tw[i] ELSE thw'[i].modes = {}
  <2> TAKE i \in Trig
  <2>1. CASE i \notin places
    <3>1. thw'[i] = thw[i] /\ st[i] = dbtr[tcur].state[i] /\ tw[i] = twant[tcur][i]
      BY <1>8, <2>1
    <3> QED
      BY <3>1, TriggerAt
  <2>2. CASE i \in places /\ ok
    BY <1>7, <1>8, <2>2
  <2>3. CASE i \in places /\ ~ok
    <3>1. thw'[i] = HwClear(thw[i]) /\ st[i] = dbtr[tcur].state[i]
      BY <1>8, <2>3
    <3>2. st[i] = {}
      BY <1>5, <2>3, <3>1 DEF Mapped
    <3>3. thw'[i].modes = {}
      BY <1>3, <3>1, ClearIsOff
    <3> QED
      BY <3>2, <3>3
  <2> QED
    BY <2>1, <2>2, <2>3
<1> HIDE DEF st, tw
<1> QED
  BY <1>2, <1>3, <1>9, <1>10, <1>11, <1>12, InstalledState

\* dbtr_update().
LEMMA UpdateKeepsInv ==
  ASSUME DbtrInv, NEW i \in Trig, NEW c \in TConfig, DbtrUpdate(i, c)
  PROVE  DbtrInv'
<1> DEFINE new == Tdata1(c, thw[i].chain)
           ok == <<i, c>> \notin Rejected
           st == [dbtr[tcur].state EXCEPT ![i] = IF ok THEN StateOf(c) ELSE {}]
           tw == [twant[tcur] EXCEPT ![i] = IF ok THEN {new} ELSE {}]
<1>1. /\ thw \in [Trig -> TValue] /\ tcur \in TDomain /\ dbtr \in [TDomain -> TRecord]
      /\ twant \in [TDomain -> [Trig -> SUBSET TValue]]
      /\ dbtr[tcur].state \in [Trig -> SUBSET ({"MAPPED"} \cup TMode)]
      /\ twant[tcur] \in [Trig -> SUBSET TValue] /\ thw[i] \in TValue
  BY DEF DbtrInv, DbtrTypes, TRecord
<1>2. new \in TValue
  <2>1. thw[i].chain \in BOOLEAN
    BY <1>1 DEF TValue
  <2> QED
    BY <2>1 DEF Tdata1, TConfig, TValue
<1>3. StateOf(c) # {} /\ StateOf(c) \in SUBSET ({"MAPPED"} \cup TMode)
  BY DEF StateOf, TConfig
<1> HIDE DEF new
<1>4. /\ dbtr' = [dbtr EXCEPT ![tcur].state = st] /\ twant' = [twant EXCEPT ![tcur] = tw]
      /\ tcur' = tcur /\ tready' = tready
  BY <1>1 DEF DbtrUpdate, new
<1>5. thw' = [thw EXCEPT ![i] = IF ok THEN new ELSE HwClear(thw[i])]
  BY <1>1 DEF DbtrUpdate, new
<1>6. /\ st \in [Trig -> SUBSET ({"MAPPED"} \cup TMode)] /\ tw \in [Trig -> SUBSET TValue]
      /\ thw' \in [Trig -> TValue]
  BY <1>1, <1>2, <1>3, <1>5, ClearIsOff
<1>7. \A j \in Trig : IF st[j] # {} THEN {thw'[j]} = tw[j] ELSE thw'[j].modes = {}
  <2> TAKE j \in Trig
  <2>1. CASE j # i
    <3>1. thw'[j] = thw[j] /\ st[j] = dbtr[tcur].state[j] /\ tw[j] = twant[tcur][j]
      BY <1>1, <1>5, <2>1
    <3> QED
      BY <3>1, TriggerAt
  <2>2. CASE j = i /\ ok
    <3>1. thw'[j] = new /\ tw[j] = {new} /\ st[j] # {}
      BY <1>1, <1>3, <1>5, <2>2
    <3> QED
      BY <3>1
  <2>3. CASE j = i /\ ~ok
    <3>1. thw'[j] = HwClear(thw[i]) /\ st[j] = {}
      BY <1>1, <1>5, <2>3
    <3> QED
      BY <1>1, <3>1, ClearIsOff
  <2> QED
    BY <2>1, <2>2, <2>3
<1> HIDE DEF st, tw, ok
<1> QED
  BY <1>4, <1>6, <1>7, InstalledState

\* A trigger that matches is the current domain's, and sets its own hit bit.
LEMMA FiresKeepsInv ==
  ASSUME DbtrInv, NEW i \in Trig, TriggerFires(i)
  PROVE  DbtrInv'
<1> DEFINE st == dbtr[tcur].state
           tw == [twant[tcur] EXCEPT ![i] = {[x EXCEPT !.hit = TRUE] : x \in @}]
           hit == [thw[i] EXCEPT !.hit = TRUE]
<1>1. /\ thw \in [Trig -> TValue] /\ tcur \in TDomain /\ dbtr \in [TDomain -> TRecord]
      /\ twant \in [TDomain -> [Trig -> SUBSET TValue]]
      /\ st \in [Trig -> SUBSET ({"MAPPED"} \cup TMode)]
      /\ twant[tcur] \in [Trig -> SUBSET TValue] /\ thw[i] \in TValue
  BY DEF DbtrInv, DbtrTypes, TRecord
<1>2. \A x \in TValue : [x EXCEPT !.hit = TRUE] \in TValue /\ [x EXCEPT !.hit = TRUE].modes = x.modes
  BY DEF TValue
<1>3. st[i] # {} /\ {thw[i]} = twant[tcur][i]
  BY TriggerAt DEF TriggerFires
<1>4. hit \in TValue /\ tw[i] = {hit}
  BY <1>1, <1>2, <1>3
<1>5. dbtr' = dbtr /\ tcur' = tcur /\ tready' = tready
  BY DEF TriggerFires
<1>6. dbtr' = [dbtr EXCEPT ![tcur].state = st]
  <2>1. dbtr[tcur] = [dbtr[tcur] EXCEPT !.state = st]
    BY <1>1 DEF TRecord
  <2> HIDE DEF st
  <2> QED
    BY <1>1, <1>5, <2>1
<1>7. twant' = [twant EXCEPT ![tcur] = tw] /\ thw' = [thw EXCEPT ![i] = hit]
  BY <1>1 DEF TriggerFires
<1>8. tw \in [Trig -> SUBSET TValue] /\ thw' \in [Trig -> TValue]
  BY <1>1, <1>2, <1>4, <1>7
<1> HIDE DEF hit
<1>9. \A j \in Trig : IF st[j] # {} THEN {thw'[j]} = tw[j] ELSE thw'[j].modes = {}
  <2> TAKE j \in Trig
  <2>1. CASE j # i
    <3>1. thw'[j] = thw[j] /\ tw[j] = twant[tcur][j]
      BY <1>1, <1>7, <2>1
    <3> QED
      BY <3>1, TriggerAt
  <2>2. CASE j = i
    <3>1. thw'[j] = hit
      BY <1>1, <1>7, <2>2
    <3> QED
      BY <1>3, <1>4, <2>2, <3>1
  <2> QED
    BY <2>1, <2>2
<1> HIDE DEF st, tw
<1> QED
  BY <1>1, <1>5, <1>6, <1>7, <1>8, <1>9, InstalledState

\* dbtr_uninstall(), dbtr_enable() and dbtr_disable() of a set of installed triggers.
LEMMA SetOpKeepsInv ==
  ASSUME DbtrInv, NEW op, NEW set, DbtrSetOp(op, set)
  PROVE  DbtrInv'
<1> DEFINE Modes(i) == IF op = "ENABLE" THEN D.state[i] \ {"MAPPED"} ELSE {}
           Sets(f, i) == IF op = "UNINSTALL" THEN {} ELSE {[x EXCEPT !.modes = Modes(i)] : x \in f}
           st == [i \in Trig |-> IF i \in set /\ op = "UNINSTALL" THEN {} ELSE dbtr[tcur].state[i]]
           tw == [i \in Trig |-> IF i \in set THEN Sets(twant[tcur][i], i) ELSE twant[tcur][i]]
<1>1. /\ thw \in [Trig -> TValue] /\ tcur \in TDomain /\ dbtr \in [TDomain -> TRecord]
      /\ twant \in [TDomain -> [Trig -> SUBSET TValue]]
      /\ dbtr[tcur].state \in [Trig -> SUBSET ({"MAPPED"} \cup TMode)]
      /\ twant[tcur] \in [Trig -> SUBSET TValue]
  BY DEF DbtrInv, DbtrTypes, TRecord
<1>2. set \subseteq Mapped(tcur) /\ tcur' = tcur /\ tready' = tready
  BY DEF DbtrSetOp
<1>3. /\ thw' = [i \in Trig |-> IF i \notin set THEN thw[i]
                                ELSE IF op = "UNINSTALL" THEN HwClear(thw[i])
                                ELSE [thw[i] EXCEPT !.modes = Modes(i)]]
      /\ dbtr' = [dbtr EXCEPT ![tcur].state = st] /\ twant' = [twant EXCEPT ![tcur] = tw]
  BY <1>1 DEF DbtrSetOp
<1>4. \A i \in Trig : Modes(i) \in SUBSET TMode
  BY <1>1 DEF D
<1> HIDE DEF Modes
<1>5. \A i \in Trig : \A x \in TValue : [x EXCEPT !.modes = Modes(i)] \in TValue
  BY <1>4 DEF TValue
<1>6. st \in [Trig -> SUBSET ({"MAPPED"} \cup TMode)]
  BY <1>1
<1>7. \A i \in Trig : tw[i] \in SUBSET TValue
  BY <1>1, <1>5
<1>8. tw \in [Trig -> SUBSET TValue]
  BY <1>7
<1>9. thw' \in [Trig -> TValue]
  BY <1>1, <1>3, <1>5, ClearIsOff
<1>10. \A i \in Trig : IF st[i] # {} THEN {thw'[i]} = tw[i] ELSE thw'[i].modes = {}
  <2> TAKE i \in Trig
  <2>1. CASE i \notin set
    <3>1. thw'[i] = thw[i] /\ st[i] = dbtr[tcur].state[i] /\ tw[i] = twant[tcur][i]
      BY <1>3, <2>1
    <3> QED
      BY <3>1, TriggerAt
  <2>2. CASE i \in set /\ op = "UNINSTALL"
    <3>1. thw'[i] = HwClear(thw[i]) /\ st[i] = {} /\ thw[i] \in TValue
      BY <1>1, <1>3, <2>2
    <3> QED
      BY <3>1, ClearIsOff
  <2>3. CASE i \in set /\ op # "UNINSTALL"
    <3>1. /\ thw'[i] = [thw[i] EXCEPT !.modes = Modes(i)] /\ st[i] = dbtr[tcur].state[i]
          /\ tw[i] = {[x EXCEPT !.modes = Modes(i)] : x \in twant[tcur][i]}
      BY <1>3, <2>3
    <3>2. {thw[i]} = twant[tcur][i] /\ dbtr[tcur].state[i] # {}
      BY <1>2, <2>3, TriggerAt DEF Mapped
    <3>3. tw[i] = {thw'[i]}
      BY <3>1, <3>2
    <3> QED
      BY <3>1, <3>2, <3>3
  <2> QED
    BY <2>1, <2>2, <2>3
<1> HIDE DEF st, tw
<1> QED
  BY <1>2, <1>3, <1>6, <1>8, <1>9, <1>10, InstalledState
-------------------------------------------------------------------------------
\* After dbtr_hart_switch_out() no trigger matches, and the domain that the hart
\* leaves has its own saved as S-mode wants them.
LEMMA SwitchOut ==
  ASSUME DbtrInv
  PROVE  /\ SwitchedOut \in [Trig -> TValue] /\ \A i \in Trig : SwitchedOut[i].modes = {}
         /\ SavedOut \in [Trig -> SUBSET TValue]
         /\ \A i \in Mapped(tcur) : SavedOut[i] = twant[tcur][i]
<1>1. thw \in [Trig -> TValue] /\ D.saved \in [Trig -> SUBSET TValue]
  BY DEF DbtrInv, DbtrTypes, TRecord, D
<1>2. SwitchedOut \in [Trig -> TValue]
  BY <1>1, ClearIsOff DEF SwitchedOut
<1>3. \A i \in Trig : SwitchedOut[i].modes = {}
  BY <1>1, ClearIsOff DEF SwitchedOut, DbtrInv, TriggersAreTheDomains
<1>4. SavedOut \in [Trig -> SUBSET TValue]
  BY <1>1 DEF SavedOut
<1>5. \A i \in Mapped(tcur) : SavedOut[i] = twant[tcur][i]
  BY DEF SavedOut, Mapped, DbtrInv, TriggersAreTheDomains
<1> QED
  BY <1>2, <1>3, <1>4, <1>5

\* dbtr_hart_switch_out() of one domain and dbtr_hart_switch_in() of the next.
LEMMA SwitchKeepsInv ==
  ASSUME DbtrInv, NEW d \in TDomain, NEW fresh \in BOOLEAN, DbtrSwitch(d, fresh)
  PROVE  DbtrInv'
<1> DEFINE out == [dbtr EXCEPT ![tcur].saved = SavedOut]
<1>1. /\ thw \in [Trig -> TValue] /\ tcur \in tready /\ tready \subseteq TDomain
      /\ dbtr \in [TDomain -> TRecord] /\ tcur \in TDomain
      /\ twant \in [TDomain -> [Trig -> SUBSET TValue]]
  BY DEF DbtrInv, DbtrTypes
<1>2. /\ SwitchedOut \in [Trig -> TValue] /\ \A i \in Trig : SwitchedOut[i].modes = {}
      /\ SavedOut \in [Trig -> SUBSET TValue]
      /\ \A i \in Mapped(tcur) : SavedOut[i] = twant[tcur][i]
  BY SwitchOut
<1>3. tcur' = d /\ tready' = tready \cup {d} /\ (fresh \/ d \in tready)
  BY DEF DbtrSwitch
<1>4. out[tcur] = [dbtr[tcur] EXCEPT !.saved = SavedOut] /\ \A c \in TDomain \ {tcur} : out[c] = dbtr[c]
  BY <1>1
<1>5. out[tcur] \in TRecord /\ out[tcur].saved = SavedOut /\ out[tcur].state = dbtr[tcur].state
  <2>1. \A r \in TRecord : LET x == [r EXCEPT !.saved = SavedOut]
                           IN  x \in TRecord /\ x.saved = SavedOut /\ x.state = r.state
    BY <1>2 DEF TRecord
  <2> QED
    BY <1>1, <1>4, <2>1
<1>6. out \in [TDomain -> TRecord]
  BY <1>1, <1>4, <1>5
<1>7. \A c \in TDomain : out[c].state = dbtr[c].state
  BY <1>4, <1>5
<1>8. \A c \in tready : \A i \in Mapped(c) : out[c].saved[i] = twant[c][i]
  BY <1>1, <1>2, <1>4, <1>5 DEF DbtrInv, TriggersAreTheDomains
<1>9. \A c \in tready : \A i \in Mapped(c) : \E x \in TValue : twant[c][i] = {x}
  BY DEF DbtrInv, OneIsWanted
<1>10. ASSUME fresh PROVE DbtrInv'
  <2>1. /\ dbtr' = [out EXCEPT ![d] = HartInit(SwitchedOut)]
        /\ thw' = ClearedUpto(SwitchedOut, FoundCount(SwitchedOut))
        /\ twant' = [twant EXCEPT ![d] = Unused]
    BY <1>10 DEF DbtrSwitch
  <2> HIDE DEF out
  <2>2. HartInit(SwitchedOut) \in TRecord /\ HartInit(SwitchedOut).state = Unused
    BY <1>2, InitIsRecord
  <2>3. thw' \in [Trig -> TValue] /\ \A i \in Trig : thw'[i].modes = {}
    BY <1>2, <2>1, ClearedUptoIsOff
  <2>4. /\ dbtr'[d] = HartInit(SwitchedOut)
        /\ \A c \in TDomain \ {d} : dbtr'[c] = out[c] /\ twant'[c] = twant[c]
    BY <1>1, <1>6, <2>1
  <2>5. DbtrTypes'
    <3>1. dbtr' \in [TDomain -> TRecord]
      BY <1>6, <2>1, <2>2
    <3>2. twant' \in [TDomain -> [Trig -> SUBSET TValue]]
      BY <1>1, <2>1 DEF Unused
    <3> QED
      BY <1>1, <1>3, <2>3, <3>1, <3>2 DEF DbtrTypes
  <2>6. Mapped(d)' = {}
    BY <2>2, <2>4 DEF Mapped, Unused
  <2>7. \A c \in TDomain \ {d} : Mapped(c)' = Mapped(c)
    BY <1>7, <2>4 DEF Mapped
  <2>8. OneIsWanted'
    BY <1>1, <1>3, <1>9, <2>4, <2>6, <2>7 DEF OneIsWanted
  <2>9. \A c \in tready' \ {d} : \A i \in Mapped(c)' : dbtr'[c].saved[i] = twant'[c][i]
    BY <1>1, <1>3, <1>8, <2>4, <2>7
  <2>10. TriggersAreTheDomains'
    BY <1>3, <2>3, <2>6, <2>9 DEF TriggersAreTheDomains
  <2> QED
    BY <2>5, <2>8, <2>10 DEF DbtrInv
<1>11. ASSUME ~fresh PROVE DbtrInv'
  <2>1. /\ dbtr' = out /\ twant' = twant /\ d \in tready /\ tready' = tready
        /\ thw' = [i \in Trig |-> IF out[d].state[i] = {} THEN SwitchedOut[i]
                                  ELSE CHOOSE x \in out[d].saved[i] : TRUE]
    BY <1>3, <1>11 DEF DbtrSwitch
  <2> HIDE DEF out
  <2>2. \A c \in TDomain : Mapped(c)' = Mapped(c)
    BY <1>7, <2>1 DEF Mapped
  <2>3. ASSUME NEW i \in Mapped(d) PROVE thw'[i] \in TValue /\ twant[d][i] = {thw'[i]}
    <3>1. i \in Trig /\ out[d].state[i] # {}
      BY <1>7 DEF Mapped
    <3>2. PICK x \in TValue : twant[d][i] = {x}
      BY <1>9, <2>1
    <3>3. out[d].saved[i] = {x}
      BY <1>8, <2>1, <3>2
    <3>4. thw'[i] = x
      BY <2>1, <3>1, <3>3
    <3> QED
      BY <3>2, <3>4
  <2>4. ASSUME NEW i \in Trig, i \notin Mapped(d)
        PROVE  thw'[i] \in TValue /\ thw'[i].modes = {}
    <3>1. thw'[i] = SwitchedOut[i]
      BY <1>7, <2>1, <2>4 DEF Mapped
    <3> QED
      BY <1>2, <3>1
  <2>5. thw' \in [Trig -> TValue]
    BY <2>1, <2>3, <2>4
  <2>6. DbtrTypes'
    BY <1>1, <1>3, <1>6, <2>1, <2>5 DEF DbtrTypes
  <2>7. OneIsWanted'
    BY <1>1, <1>9, <2>1, <2>2 DEF OneIsWanted
  <2>8. \A i \in Trig : IF i \in Mapped(d)' THEN {thw'[i]} = twant'[d][i] ELSE thw'[i].modes = {}
    BY <2>1, <2>2, <2>3, <2>4
  <2>9. \A c \in tready' \ {d} : \A i \in Mapped(c)' : dbtr'[c].saved[i] = twant'[c][i]
    BY <1>1, <1>8, <2>1, <2>2
  <2>10. TriggersAreTheDomains'
    BY <1>3, <2>8, <2>9 DEF TriggersAreTheDomains
  <2> QED
    BY <2>6, <2>7, <2>10 DEF DbtrInv
<1> QED
  BY <1>10, <1>11
-------------------------------------------------------------------------------
\* After dbtr_hart_init() at boot every trigger is free and off.
LEMMA InitDbtrInv == DbtrInit => DbtrInv
<1> SUFFICES ASSUME DbtrInit PROVE DbtrInv
  OBVIOUS
<1>1. PowerOn \in [Trig -> TValue] /\ \A i \in Trig : PowerOn[i].modes = {}
  <2>1. \A i \in Trig : (CHOOSE t \in TrigTypes[i] : TRUE) \in Nat
    BY DbtrAssumption
  <2>2. \A n \in Nat : Off(n) \in TValue /\ Off(n).modes = {}
    BY DEF Off, TValue
  <2> QED
    BY <2>1, <2>2 DEF PowerOn
<1>2. thw \in [Trig -> TValue] /\ \A i \in Trig : thw[i].modes = {}
  BY <1>1, ClearedUptoIsOff DEF DbtrInit
<1>3. HartInit(PowerOn) \in TRecord /\ HartInit(PowerOn).state = Unused
  BY <1>1, InitIsRecord
<1>4. \A d \in TDomain : dbtr[d] \in TRecord /\ Mapped(d) = {}
  BY <1>3 DEF DbtrInit, Mapped, Unused
<1>5. tcur \in tready /\ tready = {tcur} /\ tready \subseteq TDomain
  BY DbtrAssumption DEF DbtrInit
<1>6. DbtrTypes
  BY <1>2, <1>4, <1>5 DEF DbtrInit, DbtrTypes, Unused
<1>7. OneIsWanted /\ TriggersAreTheDomains
  BY <1>2, <1>4, <1>5 DEF OneIsWanted, TriggersAreTheDomains
<1> QED
  BY <1>6, <1>7 DEF DbtrInv

\* No call of S-mode, trigger that matches or change of domain breaks it.
LEMMA NextDbtrInv == DbtrInv /\ [DbtrNext]_dbtrVars => DbtrInv'
<1> SUFFICES ASSUME DbtrInv, [DbtrNext]_dbtrVars PROVE DbtrInv'
  OBVIOUS
<1>0. Configs \subseteq TConfig
  BY DbtrAssumption DEF TConfig, TMode
<1>1. ASSUME NEW c1 \in Configs, NEW c2 \in Configs,
             NEW runs \in {<<<<c1>>>>, <<<<c1, c2>>>>, <<<<c1>>, <<c2>>>>}, DbtrInstall(runs)
      PROVE  DbtrInv'
  <2>1. <<c1>> \in Seq(TConfig) /\ <<c2>> \in Seq(TConfig) /\ <<c1, c2>> \in Seq(TConfig)
    BY <1>0
  <2>2. \A x, y \in Seq(TConfig) : <<x>> \in Seq(Seq(TConfig)) /\ <<x, y>> \in Seq(Seq(TConfig))
    OBVIOUS
  <2>3. runs \in Seq(Seq(TConfig))
    BY <2>1, <2>2
  <2> QED
    BY <1>1, <2>3, InstallKeepsInv
<1>2. ASSUME NEW i \in Trig, TriggerFires(i) PROVE DbtrInv'
  BY <1>2, FiresKeepsInv
<1>3. ASSUME NEW i \in Trig, NEW c \in Configs, DbtrUpdate(i, c) PROVE DbtrInv'
  BY <1>0, <1>3, UpdateKeepsInv
<1>4. ASSUME NEW op, NEW set, DbtrSetOp(op, set) PROVE DbtrInv'
  BY <1>4, SetOpKeepsInv
<1>5. ASSUME NEW d \in TDomain, NEW fresh \in BOOLEAN, DbtrSwitch(d, fresh) PROVE DbtrInv'
  BY <1>5, SwitchKeepsInv
<1>6. CASE UNCHANGED dbtrVars
  <2>1. thw' = thw /\ tcur' = tcur /\ tready' = tready /\ dbtr' = dbtr /\ twant' = twant
    BY <1>6 DEF dbtrVars
  <2>2. DbtrTypes'
    BY <2>1 DEF DbtrInv, DbtrTypes
  <2>3. \A d : Mapped(d)' = Mapped(d)
    BY <2>1 DEF Mapped
  <2>4. OneIsWanted'
    BY <2>1, <2>3 DEF DbtrInv, OneIsWanted
  <2>5. TriggersAreTheDomains'
    BY <2>1, <2>3 DEF DbtrInv, TriggersAreTheDomains
  <2> QED
    BY <2>2, <2>4, <2>5 DEF DbtrInv
<1> QED
  BY <1>1, <1>2, <1>3, <1>4, <1>5, <1>6 DEF DbtrNext

\* The hardware has the current domain's triggers as S-mode set them and no others
\* that can match, and each domain the hart has left has its own saved
\* (dbtr_install(), dbtr_update(), set_op_apply(), dbtr_hart_switch_out(),
\* dbtr_hart_switch_in()), whatever the hardware does with a write of zero or
\* refuses.
THEOREM TriggersStayTheDomains == DbtrSpec => []TriggersAreTheDomains
<1>1. DbtrInv => TriggersAreTheDomains
  BY DEF DbtrInv
<1> QED
  BY <1>1, InitDbtrInv, NextDbtrInv, PTL DEF DbtrSpec

-------------------------------------------------------------------------------
(* HartState: software finds its own in every register, for any sets of features *)
(* a hart may have, any domains and any number of switches.  What a parked       *)
(* domain will find is in its context, so the invariant says the same of that.   *)
(* The rest is which registers context_save() and context_restore() reach: every *)
(* one that the hart has.                                                        *)

HypBase == {"hstatus", "hedeleg", "hideleg", "hie", "hcounteren", "hgeie", "htval",
            "htinst", "hvip", "hgatp", "vsstatus", "vsie", "vstvec", "vsscratch",
            "vsepc", "vscause", "vstval", "vsatp"}
HypAia == {"hvien", "hvictl", "hviprio1", "hviprio2", "vsiselect"}
HypHigh == {"hidelegh", "hvienh", "hviph", "hviprio1h", "hviprio2h", "vsieh"}
SstateenNames == {"sstateen0", "sstateen1", "sstateen2", "sstateen3"}
OtherNames == {"senvcfg", "htimedelta", "henvcfg", "hstateen0", "vstimecmp", "fp", "vec"}

\* The vector registers of a hart whose contexts have no room for them
Lost(r) == r = "vec" /\ VectorUnit = "cleared"

\* The table of hypervisor registers, by the extension each belongs to.
LEMMA HypNames ==
  /\ {HypCsr[i] : i \in 1 .. 18} = HypBase
  /\ {HypCsr[i] : i \in 19 .. 23} = HypAia
  /\ {HypCsr[i] : i \in 24 .. 29} = HypHigh
  /\ Len(HypCsr) = 29
<1>1. Len(HypCsr) = 29
  BY DEF HypCsr
<1>2. \A i \in 1 .. 18 : HypCsr[i] \in HypBase
  BY DEF HypCsr, HypBase
<1>3. \A i \in 19 .. 23 : HypCsr[i] \in HypAia
  BY DEF HypCsr, HypAia
<1>4. \A i \in 24 .. 29 : HypCsr[i] \in HypHigh
  BY DEF HypCsr, HypHigh
<1>5. \A r \in HypBase : \E i \in 1 .. 18 : HypCsr[i] = r
  <2>1. /\ HypCsr[1] = "hstatus" /\ HypCsr[2] = "hedeleg" /\ HypCsr[3] = "hideleg"
        /\ HypCsr[4] = "hie" /\ HypCsr[5] = "hcounteren" /\ HypCsr[6] = "hgeie"
        /\ HypCsr[7] = "htval" /\ HypCsr[8] = "htinst" /\ HypCsr[9] = "hvip"
        /\ HypCsr[10] = "hgatp" /\ HypCsr[11] = "vsstatus" /\ HypCsr[12] = "vsie"
        /\ HypCsr[13] = "vstvec" /\ HypCsr[14] = "vsscratch" /\ HypCsr[15] = "vsepc"
        /\ HypCsr[16] = "vscause" /\ HypCsr[17] = "vstval" /\ HypCsr[18] = "vsatp"
    BY DEF HypCsr
  <2> QED
    BY <2>1 DEF HypBase
<1>6. \A r \in HypAia : \E i \in 19 .. 23 : HypCsr[i] = r
  <2>1. /\ HypCsr[19] = "hvien" /\ HypCsr[20] = "hvictl" /\ HypCsr[21] = "hviprio1"
        /\ HypCsr[22] = "hviprio2" /\ HypCsr[23] = "vsiselect"
    BY DEF HypCsr
  <2> QED
    BY <2>1 DEF HypAia
<1>7. \A r \in HypHigh : \E i \in 24 .. 29 : HypCsr[i] = r
  <2>1. /\ HypCsr[24] = "hidelegh" /\ HypCsr[25] = "hvienh" /\ HypCsr[26] = "hviph"
        /\ HypCsr[27] = "hviprio1h" /\ HypCsr[28] = "hviprio2h" /\ HypCsr[29] = "vsieh"
    BY DEF HypCsr
  <2> QED
    BY <2>1 DEF HypHigh
<1> QED
  BY <1>1, <1>2, <1>3, <1>4, <1>5, <1>6, <1>7

\* The names of the sstateen registers
LEMMA SstateenNamed == {Sstateen[n] : n \in 0 .. 3} = SstateenNames
<1>1. /\ Sstateen[0] = "sstateen0" /\ Sstateen[1] = "sstateen1"
      /\ Sstateen[2] = "sstateen2" /\ Sstateen[3] = "sstateen3"
  BY DEF Sstateen
<1>2. \A n \in 0 .. 3 : n = 0 \/ n = 1 \/ n = 2 \/ n = 3
  OBVIOUS
<1> QED
  BY <1>1, <1>2 DEF SstateenNames

\* A hart with the hypervisor extension walks the part of the table it has.
LEMMA TableIs ==
  HypTable = HypBase \cup (IF Has("aia") THEN HypAia ELSE {})
                     \cup (IF Has("aia") /\ Has("rv32") THEN HypHigh ELSE {})
<1>1. \A n \in {18, 23, 29} :
         {HypCsr[i] : i \in 1 .. n} = {HypCsr[i] : i \in 1 .. 18}
           \cup (IF n >= 23 THEN {HypCsr[i] : i \in 19 .. 23} ELSE {})
           \cup (IF n = 29 THEN {HypCsr[i] : i \in 24 .. 29} ELSE {})
  <2>1. 1 .. 23 = (1 .. 18) \cup (19 .. 23) /\ 1 .. 29 = (1 .. 23) \cup (24 .. 29)
    OBVIOUS
  <2>2. {HypCsr[i] : i \in 1 .. 23} = {HypCsr[i] : i \in 1 .. 18} \cup {HypCsr[i] : i \in 19 .. 23}
    BY <2>1
  <2>3. {HypCsr[i] : i \in 1 .. 29} = {HypCsr[i] : i \in 1 .. 23} \cup {HypCsr[i] : i \in 24 .. 29}
    BY <2>1
  <2> QED
    BY <2>2, <2>3
<1>2. HypLast - 1 = IF Has("aia") THEN (IF Has("rv32") THEN 29 ELSE 23) ELSE 18
  BY DEF HypLast, HypCsrCount, FirstAia
<1>3. HypTable = {HypCsr[i] : i \in 1 .. HypLast - 1}
  BY DEF HypTable
<1>4. CASE ~Has("aia")
  <2>1. HypLast - 1 = 18
    BY <1>2, <1>4
  <2> QED
    BY <1>3, <1>4, <2>1, HypNames
<1>5. CASE Has("aia") /\ ~Has("rv32")
  <2>1. HypLast - 1 = 23
    BY <1>2, <1>5
  <2>2. {HypCsr[i] : i \in 1 .. 23} = {HypCsr[i] : i \in 1 .. 18} \cup {HypCsr[i] : i \in 19 .. 23}
    BY <1>1
  <2> QED
    BY <1>3, <1>5, <2>1, <2>2, HypNames
<1>6. CASE Has("aia") /\ Has("rv32")
  <2>1. HypLast - 1 = 29
    BY <1>2, <1>6
  <2>2. {HypCsr[i] : i \in 1 .. 29} = {HypCsr[i] : i \in 1 .. 18} \cup {HypCsr[i] : i \in 19 .. 23}
                                        \cup {HypCsr[i] : i \in 24 .. 29}
    BY <1>1
  <2> QED
    BY <1>3, <1>6, <2>1, <2>2, HypNames
<1> QED
  BY <1>4, <1>5, <1>6

\* Every register is of one kind.
LEMMA RegisterKinds ==
  Registers = SupervisorCsrs \cup OtherNames \cup SstateenNames \cup HypBase \cup HypAia \cup HypHigh
<1>1. {HypCsr[i] : i \in 1 .. Len(HypCsr)} = HypBase \cup HypAia \cup HypHigh
  <2>1. 1 .. 29 = (1 .. 18) \cup (19 .. 23) \cup (24 .. 29)
    OBVIOUS
  <2>2. {HypCsr[i] : i \in 1 .. 29} = {HypCsr[i] : i \in 1 .. 18} \cup {HypCsr[i] : i \in 19 .. 23}
                                        \cup {HypCsr[i] : i \in 24 .. 29}
    BY <2>1
  <2> QED
    BY <2>2, HypNames
<1> QED
  BY <1>1, SstateenNamed DEF Registers, OtherNames
-------------------------------------------------------------------------------
\* The registers of hyp_state_save() and hyp_state_restore()
HypReached(r) ==
  Has("h") /\ (r \in HypTable \cup {"htimedelta"}
               \/ (r = "henvcfg" /\ Has("menvcfg"))
               \/ (r = "hstateen0" /\ Has("smstateen"))
               \/ (r = "vstimecmp" /\ Has("sstc")))

\* No register is of two kinds.
LEMMA KindsDiffer ==
  /\ \A r \in SupervisorCsrs : r \notin OtherNames \cup SstateenNames \cup HypBase \cup HypAia \cup HypHigh
  /\ \A r \in OtherNames : r \notin SstateenNames \cup HypBase \cup HypAia \cup HypHigh
  /\ \A r \in SstateenNames : r \notin HypBase \cup HypAia \cup HypHigh
  /\ \A r \in HypBase : r \notin HypAia \cup HypHigh
  /\ \A r \in HypAia : r \notin HypHigh
BY DEF SupervisorCsrs, OtherNames, SstateenNames, HypBase, HypAia, HypHigh

\* A register exists by the extension it belongs to.
LEMMA ExistsBy ==
  ASSUME NEW r \in Registers
  PROVE  /\ r \in HypBase \cup {"htimedelta"} => Exists(r) = Has("h")
         /\ r \in HypAia => Exists(r) = (Has("h") /\ Has("aia"))
         /\ r \in HypHigh => Exists(r) = (Has("h") /\ Has("aia") /\ Has("rv32"))
         /\ r = "henvcfg" => Exists(r) = (Has("h") /\ Has("menvcfg"))
         /\ r = "hstateen0" => Exists(r) = (Has("h") /\ Has("smstateen"))
         /\ r = "vstimecmp" => Exists(r) = (Has("h") /\ Has("sstc"))
         /\ r = "senvcfg" => Exists(r) = Has("menvcfg")
         /\ r \in SstateenNames => Exists(r) = Has("smstateen")
         /\ r = "fp" => Exists(r) = Has("f")
         /\ r = "vec" => Exists(r) = (Has("vec") \/ Has("large_vec"))
<1> DEFINE E == CASE r = "senvcfg" -> Has("menvcfg")
                  [] r \in SstateenNames -> Has("smstateen")
                  [] r \in HypBase \cup {"htimedelta"} -> Has("h")
                  [] r \in HypAia -> Has("h") /\ Has("aia")
                  [] r \in HypHigh -> Has("h") /\ Has("aia") /\ Has("rv32")
                  [] r = "henvcfg" -> Has("h") /\ Has("menvcfg")
                  [] r = "hstateen0" -> Has("h") /\ Has("smstateen")
                  [] r = "vstimecmp" -> Has("h") /\ Has("sstc")
                  [] r = "fp" -> Has("f")
                  [] r = "vec" -> Has("vec") \/ Has("large_vec")
                  [] OTHER -> TRUE
<1>1. Exists(r) = E
  BY HypNames, SstateenNamed DEF Exists
<1>2. CASE r \in HypBase
  <2>1. r \notin OtherNames \cup SstateenNames \cup HypAia \cup HypHigh
    BY <1>2, KindsDiffer
  <2>2. E = Has("h")
    BY <1>2, <2>1 DEF OtherNames
  <2> HIDE DEF E
  <2> QED
    BY <1>1, <1>2, <2>1, <2>2 DEF OtherNames
<1>3. CASE r \in HypAia
  <2>1. r \notin OtherNames \cup SstateenNames \cup HypBase \cup HypHigh
    BY <1>3, KindsDiffer
  <2>2. E = (Has("h") /\ Has("aia"))
    BY <1>3, <2>1 DEF OtherNames
  <2> HIDE DEF E
  <2> QED
    BY <1>1, <1>3, <2>1, <2>2 DEF OtherNames
<1>4. CASE r \in HypHigh
  <2>1. r \notin OtherNames \cup SstateenNames \cup HypBase \cup HypAia
    BY <1>4, KindsDiffer
  <2>2. E = (Has("h") /\ Has("aia") /\ Has("rv32"))
    BY <1>4, <2>1 DEF OtherNames
  <2> HIDE DEF E
  <2> QED
    BY <1>1, <1>4, <2>1, <2>2 DEF OtherNames
<1>5. CASE r \in SstateenNames
  <2>1. r \notin OtherNames \cup HypBase \cup HypAia \cup HypHigh
    BY <1>5, KindsDiffer
  <2>2. E = Has("smstateen")
    BY <1>5, <2>1 DEF OtherNames
  <2> HIDE DEF E
  <2> QED
    BY <1>1, <1>5, <2>1, <2>2 DEF OtherNames
<1>6. CASE r \in OtherNames
  <2>1. r \notin SstateenNames \cup HypBase \cup HypAia \cup HypHigh
    BY <1>6, KindsDiffer
  <2>2. /\ r = "senvcfg" => E = Has("menvcfg")
        /\ r = "htimedelta" => E = Has("h")
        /\ r = "henvcfg" => E = (Has("h") /\ Has("menvcfg"))
        /\ r = "hstateen0" => E = (Has("h") /\ Has("smstateen"))
    BY <2>1
  <2>3. /\ r = "vstimecmp" => E = (Has("h") /\ Has("sstc"))
        /\ r = "fp" => E = Has("f")
        /\ r = "vec" => E = (Has("vec") \/ Has("large_vec"))
    BY <2>1
  <2> HIDE DEF E
  <2> QED
    BY <1>1, <1>6, <2>1, <2>2, <2>3
<1>7. CASE r \in SupervisorCsrs
  <2>1. r \notin OtherNames \cup SstateenNames \cup HypBase \cup HypAia \cup HypHigh
    BY <1>7, KindsDiffer
  <2> QED
    BY <2>1 DEF OtherNames
<1> QED
  BY <1>2, <1>3, <1>4, <1>5, <1>6, <1>7, RegisterKinds

\* A register of the hypervisor extension that exists is reached.
LEMMA HypIsReached ==
  ASSUME NEW r \in HypBase \cup HypAia \cup HypHigh
                   \cup {"htimedelta", "henvcfg", "hstateen0", "vstimecmp"}, Exists(r)
  PROVE  HypReached(r)
<1>1. r \in Registers
  BY RegisterKinds DEF OtherNames
<1>2. CASE r \in HypBase \cup {"htimedelta"}
  BY <1>1, <1>2, ExistsBy, TableIs DEF HypReached
<1>3. CASE r \in HypAia
  BY <1>1, <1>3, ExistsBy, TableIs DEF HypReached
<1>4. CASE r \in HypHigh
  BY <1>1, <1>4, ExistsBy, TableIs DEF HypReached
<1>5. CASE r \in {"henvcfg", "hstateen0", "vstimecmp"}
  BY <1>1, <1>5, ExistsBy DEF HypReached
<1> QED
  BY <1>2, <1>3, <1>4, <1>5

\* ... and the units' and the S-mode state enables exist with their extensions.
LEMMA OthersExist ==
  /\ Exists("senvcfg") => Has("menvcfg")
  /\ \A r \in SstateenNames : Exists(r) => Has("smstateen")
  /\ Exists("fp") => Has("f")
  /\ Exists("vec") => VectorUnit # "none"
<1>1. SstateenNames \cup {"senvcfg", "fp", "vec"} \subseteq Registers
  BY RegisterKinds DEF OtherNames
<1>2. Exists("vec") => Has("vec") \/ Has("large_vec")
  BY <1>1, ExistsBy
<1> QED
  BY <1>1, <1>2, ExistsBy DEF VectorUnit

\* hyp_state_save() takes what it reaches from the hart and leaves the rest.
LEMMA HypSaves ==
  ASSUME NEW ctx, NEW r \in Registers
  PROVE  /\ HypReached(r) => HypStateSave(ctx)[r] = reg[r]
         /\ ~HypReached(r) => HypStateSave(ctx)[r] = ctx[r]
<1>1. CASE ~Has("h")
  BY <1>1 DEF HypStateSave, HypReached
<1>2. CASE Has("h") /\ r \in HypTable
  <2>1. \E i \in 1 .. Len(HypCsr) : HypCsr[i] = r
    <3>1. r \in HypBase \cup HypAia \cup HypHigh
      BY <1>2, TableIs
    <3>2. (1 .. 18) \cup (19 .. 23) \cup (24 .. 29) \subseteq 1 .. 29
      OBVIOUS
    <3> QED
      BY <3>1, <3>2, HypNames
  <2>2. HypCsrRead(CHOOSE i \in 1 .. Len(HypCsr) : HypCsr[i] = r) = reg[r]
    BY <2>1 DEF HypCsrRead
  <2>3. r \notin OtherNames
    BY <1>2, TableIs, KindsDiffer
  <2>4. HypStateSave(ctx)[r] = HypCsrRead(CHOOSE i \in 1 .. Len(HypCsr) : HypCsr[i] = r)
    BY <1>2, <2>3 DEF HypStateSave, OtherNames
  <2> QED
    BY <1>2, <2>2, <2>4 DEF HypReached
<1>3. CASE Has("h") /\ r \notin HypTable
  BY <1>3 DEF HypStateSave, HypReached
<1> QED
  BY <1>1, <1>2, <1>3

\* context_save() has every register that exists, the lost vector registers aside.
LEMMA SaveKeeps ==
  ASSUME NEW ctx, NEW r \in Registers, Exists(r), ~Lost(r)
  PROVE  ContextSave(ctx)[r] = reg[r]
<1> DEFINE a == [q \in Registers |->
                   IF q \in SupervisorCsrs \/ (q = "senvcfg" /\ Has("menvcfg"))
                   THEN reg[q] ELSE ctx[q]]
           b == SstateenSave(a)
           c == HypStateSave(b)
<1>1. ContextSave(ctx) = UnitStateSave(c)
  BY DEF ContextSave
<1>2. a[r] = IF r \in SupervisorCsrs \/ (r = "senvcfg" /\ Has("menvcfg")) THEN reg[r] ELSE ctx[r]
  OBVIOUS
<1> HIDE DEF a
<1>3. b[r] = IF r \in SstateenNames /\ Has("smstateen") THEN reg[r] ELSE a[r]
  <2>1. (\E n \in 0 .. 3 : r = Sstateen[n] /\ Has("smstateen")) <=> (r \in SstateenNames /\ Has("smstateen"))
    BY SstateenNamed
  <2> QED
    BY <2>1 DEF SstateenSave
<1> HIDE DEF b
<1>4. /\ HypReached(r) => c[r] = reg[r]
      /\ ~HypReached(r) => c[r] = b[r]
  BY HypSaves
<1> HIDE DEF c
<1>5. UnitStateSave(c)[r] = IF (r = "fp" /\ Has("f")) \/ (r = "vec" /\ VectorUnit = "switched")
                            THEN reg[r] ELSE c[r]
  BY DEF UnitStateSave
<1>6. VectorUnit \in {"switched", "cleared", "none"}
  BY DEF VectorUnit
<1>7. CASE r \in SupervisorCsrs
  <2>1. b[r] = reg[r]
    BY <1>2, <1>3, <1>7
  <2>2. c[r] = reg[r]
    BY <1>4, <2>1
  <2> QED
    BY <1>1, <1>5, <2>2
<1>8. CASE r = "senvcfg"
  BY <1>1, <1>2, <1>3, <1>4, <1>5, <1>8, OthersExist
<1>9. CASE r \in SstateenNames
  <2>1. b[r] = reg[r]
    BY <1>3, <1>9, OthersExist
  <2>2. c[r] = reg[r]
    BY <1>4, <2>1
  <2> QED
    BY <1>1, <1>5, <2>2
<1>10. CASE r = "fp" \/ r = "vec"
  BY <1>1, <1>5, <1>6, <1>10, OthersExist DEF Lost
<1>11. CASE r \in HypBase \cup HypAia \cup HypHigh
                    \cup {"htimedelta", "henvcfg", "hstateen0", "vstimecmp"}
  BY <1>1, <1>4, <1>5, <1>11, HypIsReached
<1> QED
  BY <1>7, <1>8, <1>9, <1>10, <1>11, RegisterKinds DEF OtherNames

\* context_restore() takes every register that exists from the context; the vector
\* registers that are lost are zero.
LEMMA RestoreGives ==
  ASSUME NEW ctx, NEW r \in Registers, Exists(r)
  PROVE  Restored(ctx)[r] = IF Lost(r) THEN 0 ELSE ctx[r]
<1>1. VectorUnit \in {"switched", "cleared", "none"}
  BY DEF VectorUnit
<1>2. CASE r \in SupervisorCsrs
  <2>1. r \notin OtherNames /\ r \notin {Sstateen[n] : n \in 0 .. 3}
    BY <1>2, KindsDiffer, SstateenNamed
  <2>2. Restored(ctx)[r] = ctx[r]
    BY <1>2, <2>1 DEF Restored, OtherNames
  <2> QED
    BY <2>1, <2>2 DEF Lost, OtherNames
<1>3. CASE r = "senvcfg"
  <2>1. r \notin SupervisorCsrs /\ r \notin {Sstateen[n] : n \in 0 .. 3}
    BY <1>3, KindsDiffer, SstateenNamed DEF OtherNames
  <2>2. Restored(ctx)[r] = IF Has("menvcfg") THEN ctx[r] ELSE reg[r]
    BY <1>3, <2>1 DEF Restored
  <2> QED
    BY <1>3, <2>2, OthersExist DEF Lost
<1>4. CASE r \in SstateenNames
  <2>1. r \notin SupervisorCsrs /\ r \notin OtherNames /\ r \in {Sstateen[n] : n \in 0 .. 3}
    BY <1>4, KindsDiffer, SstateenNamed
  <2>2. Restored(ctx)[r] = SstateenRestore(r, ctx)
    BY <2>1 DEF Restored, OtherNames
  <2> QED
    BY <1>4, <2>1, <2>2, OthersExist DEF SstateenRestore, Lost, OtherNames
<1>5. CASE r = "fp" \/ r = "vec"
  <2>1. r \notin SupervisorCsrs /\ r # "senvcfg" /\ r \notin SstateenNames
    BY <1>5 DEF SupervisorCsrs, SstateenNames
  <2>2. Restored(ctx)[r] = UnitStateRestore(r, ctx)
    BY <1>5, <2>1, SstateenNamed DEF Restored
  <2> QED
    BY <1>1, <1>5, <2>2, OthersExist DEF UnitStateRestore, Lost
<1>6. CASE r \in HypBase \cup HypAia \cup HypHigh
                   \cup {"htimedelta", "henvcfg", "hstateen0", "vstimecmp"}
  <2>1. r \notin SupervisorCsrs /\ r # "senvcfg" /\ r \notin SstateenNames /\ r # "fp" /\ r # "vec"
    BY <1>6 DEF SupervisorCsrs, SstateenNames, HypBase, HypAia, HypHigh
  <2>2. Restored(ctx)[r] = HypStateRestore(r, ctx)
    BY <2>1, SstateenNamed DEF Restored
  <2>3. HypReached(r)
    BY <1>6, HypIsReached
  <2>4. HypStateRestore(r, ctx) = ctx[r]
    BY <2>3 DEF HypStateRestore, HypReached, HypCsrWrite
  <2> QED
    BY <2>1, <2>2, <2>4 DEF Lost
<1> QED
  BY <1>2, <1>3, <1>4, <1>5, <1>6, RegisterKinds DEF OtherNames
-------------------------------------------------------------------------------
HartTypes ==
  /\ DOMAIN reg = Registers /\ DOMAIN saved = Domains /\ DOMAIN left = Domains
  /\ state \in [Domains -> {"none", "running", "parked"}]
  /\ domain \in Domains /\ ssip \in BOOLEAN
  /\ sip \in [Domains -> BOOLEAN] /\ ipi \in [Domains -> BOOLEAN] /\ owed \in [Domains -> BOOLEAN]

\* What the running domain has, and what the parked ones have in their contexts
OneRuns ==
  /\ watched \in Registers => Exists(watched)
  /\ \A d \in Domains \ {domain} : state[d] # "running"
  /\ ~ipi[domain]
  /\ ~Has("h") => guests = {}
ContextsKeep ==
  \A d \in Domains \ {domain} : state[d] = "parked" =>
    /\ watched \in Registers /\ ~Lost(watched) => saved[d][watched] = left[d]
    /\ owed[d] = (sip[d] \/ ipi[d])

HartInv == HartTypes /\ OneRuns /\ ContextsKeep /\ FindsItsState

\* The hart's features, and so the registers it has, never change.
LEMMA SameRegisters ==
  ASSUME features' = features, watched' = watched
  PROVE  /\ Exists(watched)' = Exists(watched) /\ Lost(watched)' = Lost(watched)
         /\ Has("h")' = Has("h")
BY DEF Exists, Lost, VectorUnit, Has

\* A started hart has no domain parked and everything as software starts with it.
LEMMA InitHartInv == HartStateInit => HartInv
<1> SUFFICES ASSUME HartStateInit PROVE HartInv
  OBVIOUS
<1>1. HartTypes
  BY HartStateAssumption DEF HartStateInit, HartTypes
<1>2. watched \in Registers => Exists(watched)
  <2>1. "ssip" \notin Registers /\ "guests" \notin Registers
    BY RegisterKinds DEF SupervisorCsrs, OtherNames, SstateenNames, HypBase, HypAia, HypHigh
  <2> QED
    BY <2>1 DEF HartStateInit
<1>3. OneRuns
  BY <1>2, HartStateAssumption DEF HartStateInit, OneRuns
<1>4. ContextsKeep
  BY HartStateAssumption DEF HartStateInit, ContextsKeep
<1>5. FindsItsState
  <2>1. watched \in Registers => reg[watched] = left[domain]
    BY HartStateAssumption DEF HartStateInit
  <2>2. ssip = owed[domain] /\ guests \subseteq {domain}
    BY HartStateAssumption DEF HartStateInit
  <2> QED
    BY <2>1, <2>2 DEF FindsItsState
<1> QED
  BY <1>1, <1>3, <1>4, <1>5 DEF HartInv

\* S-mode writes a register.
LEMMA WritesKeepsInv ==
  ASSUME HartInv, NEW v, SmodeWrites(v)
  PROVE  HartInv'
<1>1. /\ reg' = [reg EXCEPT ![watched] = v] /\ left' = [left EXCEPT ![domain] = v]
      /\ features' = features /\ saved' = saved /\ state' = state /\ domain' = domain
      /\ ssip' = ssip /\ sip' = sip /\ ipi' = ipi /\ guests' = guests /\ watched' = watched
      /\ owed' = owed /\ watched \in Registers
  BY DEF SmodeWrites
<1>2. HartTypes /\ domain \in Domains
  BY DEF HartInv, HartTypes
<1>3. HartTypes'
  BY <1>1, <1>2 DEF HartTypes
<1>4. OneRuns'
  BY <1>1, SameRegisters DEF HartInv, OneRuns
<1>5. \A d \in Domains \ {domain} : left'[d] = left[d]
  BY <1>1, <1>2 DEF HartTypes
<1>6. ContextsKeep'
  BY <1>1, <1>5, SameRegisters DEF HartInv, ContextsKeep
<1>7. reg'[watched] = v /\ left'[domain] = v
  BY <1>1, <1>2 DEF HartTypes
<1>8. FindsItsState'
  BY <1>1, <1>7 DEF HartInv, FindsItsState
<1> QED
  BY <1>3, <1>4, <1>6, <1>8 DEF HartInv

\* IPIs and guests: no register changes.
LEMMA OthersKeepInv ==
  ASSUME HartInv,
         \/ SmodeClearsIpi \/ GuestRuns \/ IpiParkedHarts \/ DomainIpiParked \/ IpiProcess
         \/ \E d \in Domains : SmodeIpi(d) \/ DomainStopped(d)
  PROVE  HartInv'
<1>1. HartTypes /\ domain \in Domains
  BY DEF HartInv, HartTypes
<1>2. /\ features' = features /\ watched' = watched /\ reg' = reg /\ saved' = saved
      /\ left' = left /\ domain' = domain /\ sip' = sip
  BY DEF SmodeClearsIpi, GuestRuns, SmodeIpi, IpiParkedHarts, DomainIpiParked, IpiProcess, DomainStopped
<1>3. /\ watched \in Registers => Exists(watched)'
      /\ Lost(watched)' = Lost(watched) /\ Has("h")' = Has("h")
      /\ watched \in Registers => reg[watched] = left[domain] \/ (Lost(watched) /\ reg[watched] = 0)
  BY <1>2, SameRegisters DEF HartInv, OneRuns, FindsItsState, Lost
<1>4. CASE SmodeClearsIpi
  <2>1. /\ ssip' = FALSE /\ owed' = [owed EXCEPT ![domain] = FALSE] /\ state' = state
        /\ ipi' = ipi /\ guests' = guests
    BY <1>4 DEF SmodeClearsIpi
  <2>2. HartTypes'
    BY <1>1, <1>2, <2>1 DEF HartTypes
  <2>3. OneRuns'
    BY <1>2, <1>3, <2>1 DEF HartInv, OneRuns
  <2>4. owed'[domain] = FALSE /\ \A d \in Domains \ {domain} : owed'[d] = owed[d]
    BY <1>1, <2>1 DEF HartTypes
  <2>5. ContextsKeep'
    BY <1>2, <1>3, <2>1, <2>4 DEF HartInv, ContextsKeep
  <2>6. FindsItsState'
    BY <1>2, <1>3, <2>1, <2>4 DEF HartInv, FindsItsState, Lost
  <2> QED
    BY <2>2, <2>3, <2>5, <2>6 DEF HartInv
<1>5. CASE GuestRuns
  <2>1. /\ guests' = guests \cup {domain} /\ Has("h") /\ state' = state /\ ipi' = ipi
        /\ ssip' = ssip /\ owed' = owed
    BY <1>5 DEF GuestRuns
  <2>2. HartTypes'
    BY <1>1, <1>2, <2>1 DEF HartTypes
  <2>3. OneRuns'
    BY <1>2, <1>3, <2>1 DEF HartInv, OneRuns
  <2>4. ContextsKeep'
    BY <1>2, <1>3, <2>1 DEF HartInv, ContextsKeep
  <2>5. FindsItsState'
    BY <1>2, <1>3, <2>1 DEF HartInv, FindsItsState, Lost
  <2> QED
    BY <2>2, <2>3, <2>4, <2>5 DEF HartInv
<1>6. CASE IpiParkedHarts \/ (\E d \in Domains : SmodeIpi(d)) \/ (DomainIpiParked /\ ipi' = ipi /\ owed' = owed)
  <2>1. state' = state /\ guests' = guests /\ owed' = owed /\ ssip' = ssip /\ ipi' = ipi
    BY <1>6 DEF IpiParkedHarts, SmodeIpi, DomainIpiParked
  <2>2. HartTypes'
    BY <1>1, <1>2, <2>1 DEF HartTypes
  <2>3. OneRuns'
    BY <1>2, <1>3, <2>1 DEF HartInv, OneRuns
  <2>4. ContextsKeep'
    BY <1>2, <1>3, <2>1 DEF HartInv, ContextsKeep
  <2>5. FindsItsState'
    BY <1>2, <1>3, <2>1 DEF HartInv, FindsItsState, Lost
  <2> QED
    BY <2>2, <2>3, <2>4, <2>5 DEF HartInv
<1>7. CASE IpiProcess
  <2>1. /\ ssip' = TRUE /\ owed' = [owed EXCEPT ![domain] = TRUE] /\ state' = state
        /\ ipi' = ipi /\ guests' = guests
    BY <1>7 DEF IpiProcess
  <2>2. HartTypes'
    BY <1>1, <1>2, <2>1 DEF HartTypes
  <2>3. OneRuns'
    BY <1>2, <1>3, <2>1 DEF HartInv, OneRuns
  <2>4. owed'[domain] = TRUE /\ \A d \in Domains \ {domain} : owed'[d] = owed[d]
    BY <1>1, <2>1 DEF HartTypes
  <2>5. ContextsKeep'
    BY <1>2, <1>3, <2>1, <2>4 DEF HartInv, ContextsKeep
  <2>6. FindsItsState'
    BY <1>2, <1>3, <2>1, <2>4 DEF HartInv, FindsItsState, Lost
  <2> QED
    BY <2>2, <2>3, <2>5, <2>6 DEF HartInv
<1>8. CASE DomainIpiParked /\ domain # ifor /\ ipi' = [ipi EXCEPT ![ifor] = TRUE]
             /\ owed' = [owed EXCEPT ![ifor] = TRUE]
  <2>1. /\ state' = state /\ guests' = guests /\ ssip' = ssip
        /\ ipi' = [ipi EXCEPT ![ifor] = TRUE] /\ owed' = [owed EXCEPT ![ifor] = TRUE] /\ domain # ifor
    BY <1>8 DEF DomainIpiParked
  <2>2. HartTypes'
    BY <1>1, <1>2, <2>1 DEF HartTypes
  <2>3. ipi'[domain] = ipi[domain]
    BY <1>1, <2>1 DEF HartTypes
  <2>4. OneRuns'
    BY <1>2, <1>3, <2>1, <2>3 DEF HartInv, OneRuns
  <2>5. \A c \in Domains : owed'[c] = IF c = ifor THEN TRUE ELSE owed[c]
    BY <1>1, <2>1 DEF HartTypes
  <2>6. \A c \in Domains : ipi'[c] = IF c = ifor THEN TRUE ELSE ipi[c]
    BY <1>1, <2>1 DEF HartTypes
  <2>7. \A c \in Domains \ {domain} : state[c] = "parked" => owed'[c] = (sip[c] \/ ipi'[c])
    BY <2>5, <2>6 DEF HartInv, ContextsKeep
  <2>8. ContextsKeep'
    <3>1. \A c \in Domains \ {domain} : state[c] = "parked" =>
            (watched \in Registers /\ ~Lost(watched) => saved[c][watched] = left[c])
      BY DEF HartInv, ContextsKeep
    <3> SUFFICES ASSUME NEW c \in Domains \ {domain}, state[c] = "parked"
                 PROVE  /\ watched \in Registers /\ ~Lost(watched) => saved[c][watched] = left[c]
                        /\ owed'[c] = (sip[c] \/ ipi'[c])
      <4>1. state' = state
        BY <2>1
      <4> QED
        BY <1>2, <1>3, <4>1 DEF ContextsKeep
    <3> QED
      BY <2>7, <3>1
  <2>9. ssip' = owed'[domain]
    BY <1>1, <2>1, <2>5 DEF HartInv, FindsItsState
  <2>10. FindsItsState'
    BY <1>2, <1>3, <2>1, <2>9 DEF HartInv, FindsItsState, Lost
  <2> QED
    BY <2>2, <2>4, <2>8, <2>10 DEF HartInv
<1>9. ASSUME NEW d \in Domains, DomainStopped(d) PROVE HartInv'
  <2>1. /\ state' = [state EXCEPT ![d] = "none"] /\ guests' = guests /\ owed' = owed
        /\ ssip' = ssip /\ ipi' = ipi /\ d # domain
    BY <1>9 DEF DomainStopped
  <2>2. HartTypes'
    BY <1>1, <1>2, <2>1 DEF HartTypes
  <2>3. \A c \in Domains : state'[c] = state[c] \/ state'[c] = "none"
    BY <1>1, <2>1 DEF HartTypes
  <2>4. OneRuns'
    BY <1>2, <1>3, <2>1, <2>3 DEF HartInv, OneRuns
  <2>5. ContextsKeep'
    BY <1>2, <1>3, <2>1, <2>3 DEF HartInv, ContextsKeep
  <2>6. FindsItsState'
    BY <1>2, <1>3, <2>1 DEF HartInv, FindsItsState, Lost
  <2> QED
    BY <2>2, <2>4, <2>5, <2>6 DEF HartInv
<1>10. CASE DomainIpiParked
  <2>1. \/ ipi' = ipi /\ owed' = owed
        \/ domain # ifor /\ ipi' = [ipi EXCEPT ![ifor] = TRUE] /\ owed' = [owed EXCEPT ![ifor] = TRUE]
    BY <1>10 DEF DomainIpiParked
  <2> QED
    BY <1>6, <1>8, <1>10, <2>1
<1> QED
  BY <1>4, <1>5, <1>6, <1>7, <1>9, <1>10

\* context_park() of one domain and context_switch() to another.
LEMMA SwitchKeepsHartInv ==
  ASSUME HartInv, NEW d \in Domains, ContextSwitch(d)
  PROVE  HartInv'
<1>1. HartTypes /\ domain \in Domains
  BY DEF HartInv, HartTypes
<1>2. /\ features' = features /\ watched' = watched /\ domain' = d /\ d # domain
      /\ saved' = [saved EXCEPT ![domain] = ContextSave(saved[domain])]
      /\ reg' = Restored(IF state[d] = "none" THEN ContextFresh ELSE saved[d])
      /\ ssip' = IF state[d] = "none" THEN FALSE ELSE sip[d] \/ ipi[d]
      /\ sip' = [sip EXCEPT ![domain] = ssip] /\ ipi' = [ipi EXCEPT ![d] = FALSE]
      /\ state' = [state EXCEPT ![domain] = "parked", ![d] = "running"]
      /\ left' = [left EXCEPT ![d] = IF state[d] = "none" THEN FreshValue(watched) ELSE left[d]]
      /\ owed' = [owed EXCEPT ![d] = IF state[d] = "none" THEN FALSE ELSE owed[d]]
      /\ guests' = IF Has("h") THEN {} ELSE guests
  BY DEF ContextSwitch, GuestTlbFlush
<1>3. Exists(watched)' = Exists(watched) /\ Lost(watched)' = Lost(watched) /\ Has("h")' = Has("h")
  BY <1>2, SameRegisters
<1>4. /\ saved'[domain] = ContextSave(saved[domain]) /\ sip'[domain] = ssip /\ ipi'[domain] = ipi[domain]
      /\ left'[domain] = left[domain] /\ owed'[domain] = owed[domain] /\ state'[d] = "running"
      /\ ipi'[d] = FALSE
  BY <1>1, <1>2 DEF HartTypes
<1>5. \A c \in Domains \ {domain, d} :
        /\ saved'[c] = saved[c] /\ sip'[c] = sip[c] /\ ipi'[c] = ipi[c] /\ left'[c] = left[c]
        /\ owed'[c] = owed[c] /\ state'[c] = state[c]
  BY <1>1, <1>2 DEF HartTypes
<1>6. /\ left'[d] = IF state[d] = "none" THEN FreshValue(watched) ELSE left[d]
      /\ owed'[d] = IF state[d] = "none" THEN FALSE ELSE owed[d]
  BY <1>1, <1>2 DEF HartTypes
<1>7. state[d] \in {"none", "parked"}
  BY <1>1, <1>2 DEF HartInv, HartTypes, OneRuns
<1>8. HartTypes'
  <2>1. DOMAIN reg' = Registers /\ DOMAIN saved' = Domains /\ DOMAIN left' = Domains
    BY <1>1, <1>2 DEF HartTypes, Restored
  <2>2. state' \in [Domains -> {"none", "running", "parked"}] /\ domain' \in Domains
    BY <1>1, <1>2 DEF HartTypes
  <2>3. ssip' \in BOOLEAN
    BY <1>1, <1>2 DEF HartTypes
  <2>4. sip' \in [Domains -> BOOLEAN]
    BY <1>1, <1>2 DEF HartTypes
  <2>5. ipi' \in [Domains -> BOOLEAN]
    BY <1>1, <1>2 DEF HartTypes
  <2>6. owed' \in [Domains -> BOOLEAN]
    <3>1. (IF state[d] = "none" THEN FALSE ELSE owed[d]) \in BOOLEAN
      BY <1>1 DEF HartTypes
    <3> QED
      BY <1>1, <1>2, <3>1 DEF HartTypes
  <2> QED
    BY <2>1, <2>2, <2>3, <2>4, <2>5, <2>6 DEF HartTypes
<1>9. OneRuns'
  <2>1. watched \in Registers => Exists(watched)'
    BY <1>3 DEF HartInv, OneRuns
  <2>2. \A c \in Domains \ {d} : state'[c] # "running"
    <3>1. state'[domain] = "parked"
      BY <1>1, <1>2 DEF HartTypes
    <3> QED
      BY <1>5, <3>1 DEF HartInv, OneRuns
  <2>3. ~Has("h")' => guests' = {}
    BY <1>2, <1>3 DEF HartInv, OneRuns
  <2> QED
    BY <1>2, <1>4, <2>1, <2>2, <2>3 DEF OneRuns
<1>10. ContextsKeep'
  <2> SUFFICES ASSUME NEW c \in Domains \ {d}, state'[c] = "parked"
               PROVE  /\ watched \in Registers /\ ~Lost(watched) => saved'[c][watched] = left'[c]
                      /\ owed'[c] = (sip'[c] \/ ipi'[c])
    BY <1>2, <1>3 DEF ContextsKeep
  <2>1. CASE c = domain
    <3>1. watched \in Registers /\ ~Lost(watched) => ContextSave(saved[domain])[watched] = reg[watched]
      BY SaveKeeps DEF HartInv, OneRuns
    <3>2. watched \in Registers /\ ~Lost(watched) => reg[watched] = left[domain]
      BY DEF HartInv, FindsItsState, Lost
    <3>3. ssip = owed[domain] /\ ~ipi[domain] /\ ssip \in BOOLEAN
      BY <1>1 DEF HartInv, FindsItsState, OneRuns, HartTypes
    <3>4. owed'[c] = (sip'[c] \/ ipi'[c])
      BY <1>4, <2>1, <3>3
    <3> QED
      BY <1>4, <2>1, <3>1, <3>2, <3>4
  <2>2. CASE c # domain
    BY <1>5, <2>2 DEF HartInv, ContextsKeep
  <2> QED
    BY <2>1, <2>2
<1>11. watched \in Registers => reg'[watched] = left'[d] \/ (Lost(watched) /\ reg'[watched] = 0)
  <2> SUFFICES ASSUME watched \in Registers
               PROVE  reg'[watched] = left'[d] \/ (Lost(watched) /\ reg'[watched] = 0)
    OBVIOUS
  <2>1. Exists(watched)
    BY DEF HartInv, OneRuns
  <2>2. CASE Lost(watched)
    BY <1>2, <2>1, <2>2, RestoreGives
  <2>3. CASE ~Lost(watched) /\ state[d] = "none"
    <3>1. reg'[watched] = ContextFresh[watched]
      BY <1>2, <2>1, <2>3, RestoreGives
    <3> QED
      BY <1>6, <2>3, <3>1 DEF ContextFresh
  <2>4. CASE ~Lost(watched) /\ state[d] # "none"
    <3>1. reg'[watched] = saved[d][watched]
      BY <1>2, <2>1, <2>4, RestoreGives
    <3>2. saved[d][watched] = left[d]
      BY <1>2, <1>7, <2>4 DEF HartInv, ContextsKeep
    <3> QED
      BY <1>6, <2>4, <3>1, <3>2
  <2> QED
    BY <2>2, <2>3, <2>4
<1>12. ssip' = owed'[d]
  <2>1. CASE state[d] = "none"
    BY <1>2, <1>6, <2>1
  <2>2. CASE state[d] # "none"
    <3>1. owed[d] = (sip[d] \/ ipi[d])
      BY <1>2, <1>7, <2>2 DEF HartInv, ContextsKeep
    <3> QED
      BY <1>2, <1>6, <2>2, <3>1
  <2> QED
    BY <2>1, <2>2
<1>13. guests' \subseteq {d}
  BY <1>2 DEF HartInv, OneRuns
<1>14. FindsItsState'
  <2>1. watched \in Registers => \/ reg'[watched] = left'[d]
                                 \/ watched = "vec" /\ VectorUnit' = "cleared" /\ reg'[watched] = 0
    BY <1>3, <1>11, <1>2 DEF Lost
  <2> QED
    BY <1>2, <1>12, <1>13, <2>1 DEF FindsItsState
<1> QED
  BY <1>8, <1>9, <1>10, <1>14 DEF HartInv

\* The domain starts the hart again.
LEMMA StartsKeepsInv ==
  ASSUME HartInv, HartStarts
  PROVE  HartInv'
<1>1. HartTypes /\ domain \in Domains
  BY DEF HartInv, HartTypes
<1>2. /\ features' = features /\ watched' = watched /\ domain' = domain /\ saved' = saved
      /\ state' = state /\ sip' = sip /\ ipi' = ipi /\ guests' = guests /\ ssip' = FALSE
      /\ owed' = [owed EXCEPT ![domain] = FALSE]
      /\ left' = [left EXCEPT ![domain] = IF watched \in Registers THEN reg'[watched] ELSE left[domain]]
      /\ DOMAIN reg' = Registers
  BY DEF HartStarts, EnterSmode
<1>3. Exists(watched)' = Exists(watched) /\ Lost(watched)' = Lost(watched) /\ Has("h")' = Has("h")
  BY <1>2, SameRegisters
<1>4. HartTypes'
  BY <1>1, <1>2 DEF HartTypes
<1>5. OneRuns'
  BY <1>2, <1>3 DEF HartInv, OneRuns
<1>6. \A d \in Domains \ {domain} : left'[d] = left[d] /\ owed'[d] = owed[d]
  BY <1>1, <1>2 DEF HartTypes
<1>7. ContextsKeep'
  BY <1>2, <1>3, <1>6 DEF HartInv, ContextsKeep
<1>8. owed'[domain] = FALSE /\ (watched \in Registers => left'[domain] = reg'[watched])
  BY <1>1, <1>2 DEF HartTypes
<1>9. FindsItsState'
  BY <1>2, <1>8 DEF HartInv, FindsItsState
<1> QED
  BY <1>4, <1>5, <1>7, <1>9 DEF HartInv

\* No switch, start, stop, IPI or guest loses what a domain left.
LEMMA NextHartInv == HartInv /\ [HartStateNext]_hartStateVars => HartInv'
<1> SUFFICES ASSUME HartInv, [HartStateNext]_hartStateVars PROVE HartInv'
  OBVIOUS
<1>1. CASE UNCHANGED hartStateVars
  BY <1>1 DEF hartStateVars, HartInv, HartTypes, OneRuns, ContextsKeep, FindsItsState, Exists, Lost,
              VectorUnit, Has
<1> QED
  BY <1>1, WritesKeepsInv, OthersKeepInv, SwitchKeepsHartInv, StartsKeepsInv DEF HartStateNext

\* A domain finds on the hart, in any register the hart has, what it left there or
\* what software starts with, the IPI that the hart took for it or that was kept for
\* it and no other, and its own translations, whichever domains had the hart in
\* between and wherever the IPIs of other harts were (context_save(),
\* context_restore(), context_fresh(), ipi_process(), domain_ipi_parked(),
\* guest_tlb_flush()).
THEOREM DomainFindsItsState == HartStateSpec => []FindsItsState
<1>1. HartInv => FindsItsState
  BY DEF HartInv
<1> QED
  BY <1>1, InitHartInv, NextHartInv, PTL DEF HartStateSpec
===============================================================================
