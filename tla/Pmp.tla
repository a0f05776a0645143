----------------------------------- MODULE Pmp -----------------------------------
(***************************************************************************)
(* Memory protection on one hart: the list of memory regions the drivers   *)
(* fill in (arch/riscv/runtime/hart.c), the regions of the domains and the *)
(* check of a range against them (domain.c), the PMP entries made of both  *)
(* (pmp.c, hart.c), and the window M-mode opens on S-mode memory.          *)
(*                                                                         *)
(* Addresses and sizes are in words of four bytes, the unit of pmpaddr.    *)
(***************************************************************************)
EXTENDS Integers, Sequences, FiniteSets, SequencesExt

CONSTANTS
  Top,        \* the address space is 0 .. Top-1, a power of two
  MonBase, MonSplit, MonSize,   \* the image, and the end of its code and constants
  MapChoices, \* sequences of [base, size, kind]: what the drivers register
  PDom, RootDom,
  Listed,     \* [PDom \ {RootDom} -> its "regions", in the tree's order]
  Inherits,   \* the domains with root-regions-inheritance = "all"
  Grains,     \* the grains to try
  PmpCount,   \* CONFIG_RISCV_PMP_COUNT
  MaxRegions, \* MAX_MEMREGIONS
  Windows,    \* <<address, size>> pairs S-mode names in its calls
  MaxPmpSteps \* bound

Perm == {"R", "W", "X"}
IsPow2(n) == \E k \in 0 .. 8 : n = 2 ^ k

ASSUME PmpAssumption ==
  /\ IsPow2(Top) /\ MonBase < MonSplit /\ MonSplit < MonBase + MonSize
  /\ \A g \in Grains : IsPow2(g) /\ MonBase % g = 0 /\ MonSplit % g = 0 /\ MonSize % g = 0
  /\ RootDom \in PDom /\ Inherits \subseteq PDom \ {RootDom}

VARIABLES pphase,     \* "boot", "probe", "run" or "panic"
          smepmp, grain,     \* what hart_detect_features() finds
          drivers,    \* the regions still to be registered
          memregions, \* sequence of [base, size, kind]
          entry,      \* [0..PmpCount-1 -> [mode, addr, cfg]]
          mml,        \* mseccfg.MML and MMWP
          rdom,       \* the domain the hart runs
          window,     \* windows[hart]: [addr, size]
          psteps
pmpVars == <<pphase, smepmp, grain, drivers, memregions, entry, mml, rdom, window, psteps>>

Kept == <<smepmp, grain, drivers, psteps>>
Words(base, size) == base .. (base + size - 1)
\* Addresses are unsigned longs: the end of what ends with the address space is 0.
End(base, size) == (base + size) % Top

-----------------------------------------------------------------------------
(* The hardware: what an entry matches and what it means.                  *)

Down(a) == a - (a % grain)
Up(a) == Down(a + grain - 1) % Top

\* NAPOT: the trailing ones of the address give the size; below the grain they
\* read as ones
NapotSize(p) == CHOOSE s \in {2 ^ k : k \in 1 .. 10} : p % s = (s \div 2) - 1
NapotMatches(p, a) ==
  LET n == NapotSize(p)  base == p - (p % n)
      least == IF n < grain THEN grain ELSE n
  IN  a \in Words(base - (base % least), least)
Matches(e, i, a) ==
  \/ e[i].mode = "NAPOT" /\ NapotMatches(e[i].addr, a)
  \/ /\ e[i].mode = "TOR" /\ a < Down(e[i].addr)
     /\ (i > 0 => a >= Down(e[i-1].addr))

Deciding(e, a) == {i \in DOMAIN e : Matches(e, i, a) /\ \A j \in 0 .. i-1 : ~Matches(e, j, a)}
SharedRw == {"W", "X"}      \* MML, L = 0: read-write for both modes

SmodeMay(a, p) ==
  \E i \in Deciding(entry, a) :
    IF mml /\ "L" \in entry[i].cfg THEN FALSE
    ELSE IF mml /\ entry[i].cfg = SharedRw THEN p \in {"R", "W"}
    ELSE p \in entry[i].cfg
MmodeMay(a, p) ==
  IF ~mml THEN TRUE      \* no entry is locked without Smepmp
  ELSE \E i \in Deciding(entry, a) :
         \/ "L" \in entry[i].cfg /\ p \in entry[i].cfg
         \/ entry[i].cfg = SharedRw /\ p \in {"R", "W"}

-----------------------------------------------------------------------------
(* hart.c: the memory regions.                                             *)

Mmode(r) == r.kind # "SHARED_RW"
\* monitor_range_clear()
MonitorRangeClear(base, size) ==
  /\ End(base, size) >= base
  /\ \A i \in DOMAIN memregions :
       ~(Mmode(memregions[i]) /\ End(base, size) > memregions[i].base
          /\ base < End(memregions[i].base, memregions[i].size))

\* the first region of the same kind that the new one touches
Touching(rs, r) ==
  {i \in DOMAIN rs : rs[i].kind = r.kind /\ r.base <= End(rs[i].base, rs[i].size)
                       /\ rs[i].base <= End(r.base, r.size)}
Joined(q, r) ==
  LET size == IF End(r.base, r.size) > End(q.base, q.size)
              THEN (End(r.base, r.size) - q.base) % Top ELSE q.size
  IN  IF r.base < q.base THEN [q EXCEPT !.base = r.base, !.size = size + q.base - r.base]
      ELSE [q EXCEPT !.size = size]
FirstOf(S) == CHOOSE i \in S : \A j \in S : i <= j

\* memregion_add(), when it does not panic
Added(rs, r) ==
  IF Touching(rs, r) # {} THEN [rs EXCEPT ![FirstOf(Touching(rs, r))] = Joined(@, r)]
  ELSE Append(rs, r)
AddPanics(r) ==
  \/ /\ r.kind = "SHARED_RW"
     /\ \/ End(r.base, r.size) < r.base
        \/ r.base < End(MonBase, MonSize) /\ End(r.base, r.size) > MonBase
  \/ Touching(memregions, r) = {} /\ Len(memregions) = MaxRegions

\* monitor_regions_init(): one region, or split for W^X
MonitorRegions ==
  IF ~smepmp THEN <<[base |-> MonBase, size |-> MonSize, kind |-> "MMODE_RW"]>>
  ELSE Added(<<[base |-> MonBase, size |-> MonSplit - MonBase, kind |-> "MMODE_RX"]>>,
             [base |-> MonSplit, size |-> MonBase + MonSize - MonSplit, kind |-> "MMODE_RW"])

-----------------------------------------------------------------------------
(* domain.c: the regions of a domain.                                      *)

All == [base |-> 0, size |-> Top, perm |-> Perm]
\* add_region(): by size, the first come first among equals
AddRegion(regions, r) ==
  LET n == Cardinality({i \in DOMAIN regions : regions[i].size <= r.size})
  IN  SubSeq(regions, 1, n) \o <<r>> \o SubSeq(regions, n + 1, Len(regions))

\* instance_parse(), root_domain_init(): "all" of the root first, then the list
RegionsOf(d) ==
  IF d = RootDom THEN <<All>>
  ELSE FoldLeft(AddRegion, IF d \in Inherits THEN AddRegion(<<>>, All) ELSE <<>>, Listed[d])

\* domain_range_ok(): the first region that has anything of the range decides
DomainRangeOk(d, base, size, perm) ==
  LET rs == RegionsOf(d)
      hit == {i \in DOMAIN rs : Words(base, size) \cap Words(rs[i].base, rs[i].size) # {}}
  IN  \/ size = 0
      \/ /\ MonitorRangeClear(base, size)
         /\ hit # {}
         /\ Words(base, size) \subseteq Words(rs[FirstOf(hit)].base, rs[FirstOf(hit)].size)
         /\ perm \subseteq rs[FirstOf(hit)].perm

-----------------------------------------------------------------------------
(* pmp.c: the entries.                                                     *)

OffEntry == [mode |-> "OFF", addr |-> 0, cfg |-> {}]
IsNapot(base, size) == size >= 2 /\ IsPow2(size) /\ base % size = 0
EntriesFor(base, size) == IF IsNapot(base, size) THEN 1 ELSE 2

\* pmp_entry_set()
EntrySet(e, i, mode, addr, cfg) ==
  IF i \in DOMAIN e THEN [e EXCEPT ![i] = [mode |-> mode, addr |-> addr, cfg |-> cfg]] ELSE e
\* pmp_range_set()
RangeSet(e, at, base, size, cfg) ==
  IF IsNapot(base, size) THEN EntrySet(e, at, "NAPOT", base + (size \div 2) - 1, cfg)
  ELSE EntrySet(EntrySet(e, at, "OFF", base, {}), at + 1, "TOR", Up(End(base, size)), cfg)

\* region_cfg()
RegionCfg(kind) ==
  IF ~smepmp THEN {}
  ELSE CASE kind = "MMODE_RX" -> {"L", "R", "X"}
         [] kind = "MMODE_RW" -> {"L", "R", "W"}
         [] OTHER -> SharedRw

\* entries of a region, and those before region i: the window's, then in order
HasEntry(r) == Mmode(r) \/ smepmp
SumOf(f, S) == FoldLeft(LAMBDA n, i : n + f[i], 0, SetToSeq(S))
EntriesBefore(i) ==
  (IF smepmp THEN 2 ELSE 0)
  + SumOf([j \in DOMAIN memregions |->
             IF HasEntry(memregions[j]) THEN EntriesFor(memregions[j].base, memregions[j].size)
             ELSE 0],
          1 .. i-1)
\* pmp_monitor_entries()
PmpMonitorEntries == EntriesBefore(Len(memregions) + 1)

Numbered == [i \in DOMAIN memregions |-> i]
\* shared_regions_set(): the running domain's, or the monitor's alone
SharedRegionsSet(e, d) ==
  FoldLeft(LAMBDA acc, i :
             IF Mmode(memregions[i]) THEN acc
             ELSE RangeSet(acc, EntriesBefore(i), memregions[i].base, memregions[i].size,
                           IF DomainRangeOk(d, memregions[i].base, memregions[i].size, {"R", "W"})
                           THEN RegionCfg("SHARED_RW") ELSE RegionCfg("MMODE_RW")),
           e, IF smepmp THEN Numbered ELSE <<>>)

\* W without R is reserved, or another thing altogether (MML)
CfgOf(perm) == IF "R" \in perm THEN perm ELSE perm \ {"W"}
\* one region of the domain; it has taken one entry, its size a power of two
DomainEntry(e, at, r) ==
  IF r.size = Top THEN EntrySet(e, at, "NAPOT", 2 * Top - 1, CfgOf(r.perm))
  ELSE RangeSet(e, at, r.base, r.size, CfgOf(r.perm))
DomainEntriesSet(e, d) ==
  FoldLeft(LAMBDA acc, i : DomainEntry(acc, PmpMonitorEntries + i - 1, RegionsOf(d)[i]),
           e, [i \in DOMAIN RegionsOf(d) |-> i])

\* A bug to tell apart: what a domain with more regions left behind stays.
PmpDomainSetKeeps(e, d) == DomainEntriesSet(SharedRegionsSet(e, d), d)
\* pmp_domain_set()
PmpDomainSet(e, d) ==
  LET set == DomainEntriesSet(SharedRegionsSet(e, d), d)
  IN  [i \in DOMAIN e |-> IF i >= PmpMonitorEntries + Len(RegionsOf(d)) THEN OffEntry ELSE set[i]]

\* pmp_hart_init(): the monitor's own rules
MonitorRulesSet(e) ==
  FoldLeft(LAMBDA acc, i :
             IF Mmode(memregions[i])
             THEN RangeSet(acc, EntriesBefore(i), memregions[i].base, memregions[i].size,
                           RegionCfg(memregions[i].kind))
             ELSE acc,
           IF smepmp THEN [e EXCEPT ![0] = OffEntry, ![1] = OffEntry] ELSE e, Numbered)
OutOfEntries ==
  \/ \E i \in DOMAIN memregions : HasEntry(memregions[i]) /\ EntriesBefore(i) + 3 > PmpCount
  \* domains_start()
  \/ \E d \in PDom : Len(RegionsOf(d)) > PmpCount - PmpMonitorEntries

-----------------------------------------------------------------------------
NoWindow == [addr |-> 0, size |-> 0]
PmpInit ==
  /\ pphase = "boot" /\ smepmp \in BOOLEAN /\ grain \in Grains
  /\ drivers \in MapChoices /\ memregions = <<>>
  /\ entry = [i \in 0 .. PmpCount - 1 |-> OffEntry]
  /\ mml = FALSE /\ rdom = RootDom /\ window = NoWindow /\ psteps = 0

PStep == psteps < MaxPmpSteps /\ psteps' = psteps + 1

BootRegions ==
  /\ pphase = "boot" /\ pphase' = "probe" /\ memregions' = MonitorRegions
  /\ UNCHANGED <<smepmp, grain, drivers, entry, mml, rdom, window, psteps>>

\* a driver's probe registers its registers
DriverProbe ==
  /\ pphase = "probe" /\ drivers # <<>> /\ drivers' = Tail(drivers)
  /\ IF AddPanics(Head(drivers)) THEN pphase' = "panic" /\ UNCHANGED memregions
     ELSE memregions' = Added(memregions, Head(drivers)) /\ UNCHANGED pphase
  /\ UNCHANGED <<smepmp, grain, entry, mml, rdom, window, psteps>>

\* pmp_hart_init() at the first start of the hart, and domains_start()'s check
PmpHartInit ==
  /\ pphase = "probe" /\ drivers = <<>>
  /\ IF OutOfEntries THEN pphase' = "panic" /\ UNCHANGED <<entry, mml>>
     ELSE /\ pphase' = "run" /\ mml' = smepmp
          /\ entry' = PmpDomainSet(MonitorRulesSet(entry), rdom)
  /\ UNCHANGED <<smepmp, grain, drivers, memregions, rdom, window, psteps>>

Running == pphase = "run" /\ window.size = 0 /\ PStep
\* ... and when it is started again, by hart_start() in the domain d
HartRestart(d) ==
  /\ Running /\ rdom' = d
  /\ entry' = PmpDomainSet(IF mml THEN entry ELSE MonitorRulesSet(entry), d)
  /\ UNCHANGED <<pphase, smepmp, grain, drivers, memregions, mml, window>>
\* domain_context.c: the hart moves to another domain
DomainSwitch(d) ==
  /\ Running /\ d # rdom /\ rdom' = d /\ entry' = PmpDomainSet(entry, d)
  /\ UNCHANGED <<pphase, smepmp, grain, drivers, memregions, mml, window>>

\* smode_access_begin()
WindowSet(w, e) ==
  IF smepmp /\ w.size > 0
  THEN EntrySet(EntrySet(e, 0, "OFF", w.addr, {}), 1, "TOR", Up(End(w.addr, w.size)), SharedRw)
  ELSE e
\* smode_access_end(): pmp_entry_cfg(1, 0)
WindowOff(e) == IF smepmp THEN [e EXCEPT ![1].mode = "OFF", ![1].cfg = {}] ELSE e

\* a call that names memory: the caller checks the range, then opens the window
SmodeAccessBegin(w) ==
  /\ Running /\ DomainRangeOk(rdom, w[1], w[2], {"R", "W"})
  /\ window' = [addr |-> w[1], size |-> w[2]] /\ entry' = WindowSet(window', entry)
  /\ UNCHANGED <<pphase, smepmp, grain, drivers, memregions, mml, rdom>>
SmodeAccessEnd ==
  /\ pphase = "run" /\ window.size > 0
  /\ window' = [window EXCEPT !.size = 0] /\ entry' = WindowOff(entry)
  /\ UNCHANGED <<pphase, mml, rdom, memregions>> /\ UNCHANGED Kept

\* smode_poke32(): a store of its own, inside another window or not
SmodePoke32(a) ==
  /\ pphase = "run" /\ PStep /\ MonitorRangeClear(a, 1)
  /\ entry' = WindowSet(window, WindowOff(WindowSet([addr |-> a, size |-> 1], entry)))
  /\ window' = IF window.size > 0 THEN window ELSE [addr |-> a, size |-> 0]
  /\ UNCHANGED <<pphase, smepmp, grain, drivers, memregions, mml, rdom>>

PmpNext ==
  \/ BootRegions \/ DriverProbe \/ PmpHartInit \/ SmodeAccessEnd
  \/ \E d \in PDom : HartRestart(d) \/ DomainSwitch(d)
  \/ \E w \in Windows : SmodeAccessBegin(w) \/ SmodePoke32(w[1])
PmpSpec == PmpInit /\ [][PmpNext]_pmpVars

-----------------------------------------------------------------------------
Space == 0 .. Top - 1
GrainOf(a) == Words(Down(a), grain)
IsMonitors(a) == \E i \in DOMAIN memregions :
                   Mmode(memregions[i]) /\ a \in Words(memregions[i].base, memregions[i].size)
IsShared(a) == \E i \in DOMAIN memregions :
                 ~Mmode(memregions[i]) /\ a \in Words(memregions[i].base, memregions[i].size)

\* What the tree gives domain d at a: by the smallest of its regions there, the
\* first listed of that size. Everything is the largest and, in the tree's
\* order, inherited before the rest.
TreeRegions(d) == IF d = RootDom THEN <<All>>
                  ELSE (IF d \in Inherits THEN <<All>> ELSE <<>>) \o Listed[d]
Gives(d, a, p) ==
  LET rs == TreeRegions(d)
      at == {i \in DOMAIN rs : a \in Words(rs[i].base, rs[i].size)}
      smallest == {i \in at : \A j \in at : rs[i].size <= rs[j].size}
  IN  ~IsMonitors(a) /\ at # {} /\ p \in CfgOf(rs[FirstOf(smallest)].perm)

SmodeRuns == pphase = "run" /\ window.size = 0

\* S-mode reaches what the tree gives the domain the hart is in, and nothing else,
\* to within the grain of the PMP: pmp_domain_set() and domain_range_ok() agree with
\* the binding. (With Smepmp a device the monitor shares is given whole or not at all.)
DomainHasItsRegions ==
  SmodeRuns =>
    \A a \in Space, p \in Perm :
      /\ SmodeMay(a, p) => \E b \in GrainOf(a) : Gives(rdom, b, p)
      /\ (\A b \in GrainOf(a) : Gives(rdom, b, p) /\ ~(smepmp /\ IsShared(b))) => SmodeMay(a, p)

\* M-mode reaches all of the window it has open, also after smode_poke32() had one
\* of its own, and always its own regions, each the way it has to, and the devices it
\* shares.
MonitorReaches ==
  pphase = "run" =>
    /\ \A a \in Words(window.addr, window.size) : MmodeMay(a, "R") /\ MmodeMay(a, "W")
    /\ \A i \in DOMAIN memregions : \A a \in Words(memregions[i].base, memregions[i].size) :
         /\ MmodeMay(a, "R")
         /\ (memregions[i].kind = "MMODE_RX" => MmodeMay(a, "X"))
         /\ (memregions[i].kind # "MMODE_RX" => MmodeMay(a, "W"))

\* The PMP entries give both sides what is theirs, through every order of domains,
\* accesses to S-mode's memory and interrupts of them.
EntriesAreRight == DomainHasItsRegions /\ MonitorReaches
=============================================================================
