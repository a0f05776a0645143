------------------------------- MODULE MCServices -------------------------------
(***************************************************************************)
(* The services of the monitor and what it does for a trap, each on a      *)
(* small instance.  They share no state: a behaviour is one of one part,   *)
(* `part', and the others stay in one of their initial states.             *)
(***************************************************************************)
EXTENDS Pmu, Dbtr, Fwft, Pmp, HartState, Reqfwd, Mpxy, Misaligned, IllegalInsn, InsnDecode, FenceRange

CONSTANTS a, b, h1, h2
VARIABLE part

\* Pmu: events 1 (cycles, the fixed counter), 2 (the programmable one), 4 (firmware)
SomeRanges == <<<<1, 1, {0}>>, <<3, 2, {3}>>, <<2, 2, {3}>>, <<1, 3, {}>>>>
FixedOnly == <<<<1, 1, {0}>>>>
SomeWorkloads ==
  {{"config", "start", "stop", "switch"}, {"config", "stop", "snapshot", "start", "fw"},
   {"config", "start", "irq", "sse", "switch"}, {"config", "read"},
   {"config", "sse", "irq", "restart", "start"}}

\* Dbtr: two triggers, one of them of either type
Cfg(t, ms, m) == [type |-> t, modes |-> ms, mmode |-> m]
SomeConfigs == {Cfg(6, {"s"}, FALSE), Cfg(6, {"s", "u"}, FALSE), Cfg(3, {"u"}, FALSE), Cfg(6, {"s"}, TRUE)}
SomeTypes == [i \in Trig |-> IF i = 0 THEN {3, 6} ELSE {6}]
SomeRejected == {<<1, Cfg(6, {"s", "u"}, FALSE)>>}

\* Fwft: no double trap, both lengths of pointer masking
BothLengths == [f \in Feature |-> IF f = "PMLEN" THEN {2, 3} ELSE IF f = "DOUBLE_TRAP" THEN {} ELSE {1}]
OneLength == [BothLengths EXCEPT !["PMLEN"] = {2}]

\* Pmp: the CLINT's halves, one NAPOT and one not; a console; a reset device
Dev(base, n, k) == [base |-> base, size |-> n, kind |-> k]
SomeMaps == {<<Dev(0, 4, "MMODE_RW"), Dev(4, 2, "MMODE_RW"), Dev(24, 4, "SHARED_RW")>>,
             <<Dev(24, 4, "SHARED_RW"), Dev(0, 7, "MMODE_RW"), Dev(20, 4, "SHARED_RW")>>,
             <<Dev(20, 7, "MMODE_RW"), Dev(16, 4, "SHARED_RW")>>,
             <<Dev(24, 8, "MMODE_RW"), Dev(16, 4, "SHARED_RW")>>,
             <<Dev(10, 8, "SHARED_RW")>>, <<Dev(28, 4, "SHARED_RW")>>,
             <<Dev(0, 2, "MMODE_RW"), Dev(4, 2, "MMODE_RW"), Dev(20, 2, "MMODE_RW"),
               Dev(24, 2, "MMODE_RW")>>}
SomeWindows == {<<16, 3>>, <<22, 1>>, <<23, 5>>, <<28, 4>>}
\* In the last grain of the address space: a region that is not NAPOT, and a window
TopMaps == {<<Dev(20, 12, "MMODE_RW"), Dev(16, 4, "SHARED_RW")>>}
TopWindows == {<<25, 5>>}
Region(base, n, p) == [base |-> base, size |-> n, perm |-> p]
SomeLists ==
  (a :> <<Region(16, 8, Perm), Region(24, 4, {"R", "W"}), Region(16, 2, {"R"})>>)
  @@ (b :> <<Region(16, 8, {}), Region(4, 4, {"W", "X"}), Region(28, 4, {"R"}), Region(28, 4, {})>>)

\* HartState: a hart of each set of features
SomeFeatures ==
  { {}, {"f"}, {"h", "f", "vec"}, {"h", "aia", "menvcfg", "large_vec"},
    {"h", "aia", "menvcfg", "smstateen", "sstc", "f", "vec"},
    {"h", "aia", "menvcfg", "smstateen", "sstc", "rv32"} }

\* Mpxy: nodes of every kind, one id three times, and ones that are refused
Node(i, o, k) == [id |-> i, owner |-> o, kind |-> k, wellformed |-> TRUE]
HartDomains == (h1 :> 1) @@ (h2 :> 2)
SomeNodes == {Node(4, 1, "reqfwd"), Node(3, 1, "bridge"), Node(4, 2, "mm"), Node(4, 0, "rpmi"),
              Node(1, BadOwner, "rpmi"), Node(2, 0, "denied"),
              [Node(6, 2, "reqfwd") EXCEPT !.wellformed = FALSE]}
BridgeSources == 3 :> {Node(5, 2, "source"), Node(7, 2, "source"),
                       [Node(8, 2, "source") EXCEPT !.wellformed = FALSE]}
OneChannel == <<[id |-> 3, owner |-> 0, sse |-> 0]>>
TwoAddresses == {<<0, 1>>, <<1, 0>>}
MsiWrites == {[base |-> 7, vals |-> <<1, 0, 1, 1>>], [base |-> 6, vals |-> <<0, 0>>]}
TwoTargets == {[base |-> 7, vals |-> <<1, 0, 1, 1>>], [base |-> 7, vals |-> <<1, 1, 0, 1>>]}

\* Misaligned: unit-stride, strided and indexed; one field, or fields of the width
\* vtype has
Insn(kind, store, sew, eew, lmul, nf, n, o) ==
  [kind |-> kind, store |-> store, sew |-> sew, eew |-> eew, lmul |-> lmul, nf |-> nf, vl |-> n,
   off |-> o, base |-> 3, vd |-> 2, stride |-> 5, index |-> <<9, 2, 13, 6>>, fof |-> FALSE,
   sx |-> FALSE]
Scalars == {[Insn("scalar", st, 1, n, 1, 1, 1, {}) EXCEPT !.sx = sx] :
              st \in BOOLEAN, n \in {2, 4}, sx \in BOOLEAN}
OneField == {Insn(k, st, s, 2, s, 1, n, o) :
               k \in {"unit", "strided"}, st \in BOOLEAN, s \in {1, 2}, n \in {3, 4}, o \in {{}, {1}}}
Segments == {Insn(k, st, 2, 2, m, 2, 2, o) :
               k \in {"unit", "strided", "indexed"}, st \in BOOLEAN, m \in {1, 2}, o \in {{}, {0}}}
Firsts == {[i EXCEPT !.fof = TRUE] : i \in {j \in OneField \cup Segments : ~j.store /\ j.kind = "unit"}}
OneWhole == {Insn("whole", st, 2, 2, 1, 1, 0, {}) : st \in BOOLEAN}
SomeInsns == Scalars \cup OneField \cup Segments \cup Firsts \cup OneWhole
-------------------------------------------------------------------------------
Parts == {"pmu", "dbtr", "fwft", "pmp", "hartstate", "reqfwd", "mpxy", "misaligned", "illegal",
          "insn", "range"}

OneTrap == CHOOSE t \in CounterTraps : TRUE
\* The part itself, or one of its initial states for good.
Or(p, fixed, init) == (part # p => fixed) /\ init
InitOfOne ==
  /\ part \in Parts
  /\ Or("pmu", pfeat = {} /\ workload = {"config", "read"}, PmuInit)
  /\ DbtrInit /\ FwftInit /\ ReqfwdInit
  /\ Or("pmp", smepmp = FALSE /\ grain = 1 /\ drivers = <<Dev(10, 8, "SHARED_RW")>>, PmpInit)
  /\ Or("hartstate", watched = "ssip", HartStateInit)
  /\ watched = "ssip" => features = {}     \* a hart's features have no part in IPIs
  /\ Or("mpxy", todo = {}, MpxyInit)
  /\ Or("insn", trap = OneTrap, InsnInit)
  /\ Or("misaligned", insn \in {i \in OneWhole : i.store} /\ mapped = {} /\ ssdbl = FALSE, MisalignedInit)
  /\ Or("illegal", dbl = FALSE /\ word = 0 /\ amo = [h \in AHart |-> "xor"] /\ src = [h \in AHart |-> 1],
        IllegalInit)
  /\ Or("range", legacy = FALSE /\ type = "FENCE_I" /\ start = 0 /\ size = 0, Init)

SpecVars == <<pmuVars, dbtrVars, fwftVars, pmpVars, hartStateVars, reqfwdVars, mpxyVars,
              misalignedVars, illegalVars, insnVars, vars>>
NextOfOne ==
  /\ UNCHANGED part
  /\ \/ /\ part = "pmu" /\ PmuNext
        /\ UNCHANGED <<dbtrVars, fwftVars, pmpVars, hartStateVars, reqfwdVars, mpxyVars,
                       misalignedVars, illegalVars, insnVars, vars>>
     \/ /\ part = "dbtr" /\ DbtrNext
        /\ UNCHANGED <<pmuVars, fwftVars, pmpVars, hartStateVars, reqfwdVars, mpxyVars,
                       misalignedVars, illegalVars, insnVars, vars>>
     \/ /\ part = "fwft" /\ FwftNext
        /\ UNCHANGED <<pmuVars, dbtrVars, pmpVars, hartStateVars, reqfwdVars, mpxyVars,
                       misalignedVars, illegalVars, insnVars, vars>>
     \/ /\ part = "pmp" /\ PmpNext
        /\ UNCHANGED <<pmuVars, dbtrVars, fwftVars, hartStateVars, reqfwdVars, mpxyVars,
                       misalignedVars, illegalVars, insnVars, vars>>
     \/ /\ part = "hartstate" /\ HartStateNext
        /\ UNCHANGED <<pmuVars, dbtrVars, fwftVars, pmpVars, reqfwdVars, mpxyVars,
                       misalignedVars, illegalVars, insnVars, vars>>
     \/ /\ part = "reqfwd" /\ ReqfwdNext
        /\ UNCHANGED <<pmuVars, dbtrVars, fwftVars, pmpVars, hartStateVars, mpxyVars,
                       misalignedVars, illegalVars, insnVars, vars>>
     \/ /\ part = "mpxy" /\ MpxyNext
        /\ UNCHANGED <<pmuVars, dbtrVars, fwftVars, pmpVars, hartStateVars, reqfwdVars,
                       misalignedVars, illegalVars, insnVars, vars>>
     \/ /\ part = "misaligned" /\ MisalignedNext
        /\ UNCHANGED <<pmuVars, dbtrVars, fwftVars, pmpVars, hartStateVars, reqfwdVars,
                       mpxyVars, illegalVars, insnVars, vars>>
     \/ /\ part = "illegal" /\ IllegalNext
        /\ UNCHANGED <<pmuVars, dbtrVars, fwftVars, pmpVars, hartStateVars, reqfwdVars,
                       mpxyVars, misalignedVars, insnVars, vars>>
     \/ /\ part = "insn" /\ InsnNext
        /\ UNCHANGED <<pmuVars, dbtrVars, fwftVars, pmpVars, hartStateVars, reqfwdVars,
                       mpxyVars, misalignedVars, illegalVars, vars>>
     \/ /\ part = "range" /\ Next
        /\ UNCHANGED <<pmuVars, dbtrVars, fwftVars, pmpVars, hartStateVars, reqfwdVars,
                       mpxyVars, misalignedVars, illegalVars, insnVars>>

SpecOfOne == InitOfOne /\ [][NextOfOne]_<<part, SpecVars>>
================================================================================
