------------------------------- MODULE MCBoot -----------------------------------
(***************************************************************************)
(* From reset to the next stage: the harts' first steps and the platform's *)
(* power, the tables of harts and domains, the devices that reset it,      *)
(* and the device tree that is handed over, each on a small instance.      *)
(* They share no state: a behaviour is one of one component, and the       *)
(* others stay in one of their initial states.                             *)
(***************************************************************************)
EXTENDS Hsm, Boot, Reset, FdtEdit, FdtFixup, FdtSw

VARIABLE component

\* Boot: cpus one of which is disabled or not; the domains of the harts
Cpu(i, e, d) == [id |-> i, enabled |-> e, dom |-> d]
Inst(p, ok, poss, b, n, f) ==
  [phandle |-> p, ok |-> ok, possible |-> poss, boot |-> b, next |-> n, from |-> f]
CpuLists == {<<Cpu(1, TRUE, a), Cpu(0, TRUE, b), Cpu(2, e, c)>> :
               a \in {0, 10}, b \in {0, 20}, c \in {10, 20}, e \in BOOLEAN}
InstLists == {<<Inst(10, ok, {0, 1, 2}, b, TRUE, {20}), Inst(20, TRUE, {0, 2}, 2, b = 1, {10, 30}),
                Inst(30, TRUE, {1}, 0, TRUE, {20})>> :
               ok \in BOOLEAN, b \in {Default, 1}}
SomeNoSmode == {{}, {1}, {0, 2}}
SomeNamed == {-1, 1}
SomeTrees == {[cpus |-> c, inst |-> i] : c \in CpuLists, i \in InstLists}

\* FdtEdit: a small tree
SomeStart ==
  TreeNode(<<"", "">>, <<<<"model", <<"m">>>>>>,
    <<TreeNode(<<"cpus", "">>, <<>>, <<TreeNode(<<"cpu", "0">>, <<<<"phandle", <<"p1">>>>>>, <<>>)>>),
      TreeNode(<<"soc", "">>, <<>>, <<>>)>>) \o End
RootOnly == TreeNode(<<"", "">>, <<>>, <<>>) \o End
SomeStarts == {SomeStart, RootOnly}
SomeNames == {<<"cpu", "0">>, <<"soc", "">>}
SomeProps == {<<"status", <<"disabled">>>>, <<"model", <<>>>>}

\* FdtSw: two nodes, a property of either length
TwoNames == {<<"", "">>, <<"cpu", "0">>}
ThreeProps == {<<"reg", <<"a">>>>, <<"phandle", <<>>>>, <<"reg", <<>>>>}

\* FdtFixup: what the monitor starts with
P(name, val) == <<name, val>>
FdtNode(base, unit, props, kids) == TreeNode(<<base, unit>>, props, kids)
CpuNode(id) ==
  FdtNode("cpu", id, <<P("device_type", <<"cpu">>), P("reg", <<id>>), P("riscv,domain", <<"d1">>)>>,
    <<FdtNode("intc", "", <<P("phandle", <<"intc" \o id>>)>>, <<>>)>>)
CpuNodes ==
  FdtNode("cpus", "", <<>>, <<CpuNode("0"), CpuNode("1"), CpuNode("2"),
     FdtNode("idle", "a", <<P("compatible", <<"idle-state">>), P("suspend-param", <<"ret">>)>>, <<>>),
     FdtNode("idle", "b", <<P("status", <<"ok">>), P("compatible", <<"idle-state">>), P("suspend-param", <<"plat">>)>>, <<>>),
     FdtNode("idle", "c", <<P("compatible", <<"idle-state">>)>>, <<>>)>>)
Memory == FdtNode("memory", "0", <<P("device_type", <<"memory">>), P("reg", <<"shmem", "dommem">>)>>, <<>>)
Uart == FdtNode("uart", "0", <<P("phandle", <<"uart">>), P("compatible", <<"uart">>)>>, <<>>)
Rtc == FdtNode("rtc", "0", <<P("status", <<"okay">>), P("phandle", <<"rtc">>)>>, <<>>)
Irqchips ==
  <<FdtNode("aplic", "m", <<P("compatible", <<"aplic">>), P("msi-parent", <<"imsicm">>)>>, <<>>),
    FdtNode("imsics", "m", <<P("compatible", <<"imsics">>), P("phandle", <<"imsicm">>),
                       P("interrupts-extended", <<"intc0", "M_EXT">>)>>, <<>>),
    FdtNode("aplic", "s", <<P("compatible", <<"aplic">>), P("interrupts-extended", <<"intc0", "S_EXT">>)>>, <<>>),
    FdtNode("plic", "0", <<P("compatible", <<"plic">>),
                     P("interrupts-extended", <<"intc0", "M_EXT", "intc0", "S_EXT">>)>>, <<>>),
    FdtNode("rpmi", "0", <<P("compatible", <<"x", "mmode">>)>>, <<>>)>>
Config ==
  FdtNode("domains", "", <<P("compatible", <<"domain-config">>)>>,
    <<FdtNode("tee", "", <<P("phandle", <<"d1">>), P("regions", <<"r1", "none", "r2", "rw">>)>>, <<>>),
      FdtNode("mem", "1", <<P("phandle", <<"r1">>), P("devices", <<"uart", "rtc">>)>>, <<>>),
      FdtNode("mem", "2", <<P("phandle", <<"r2">>), P("devices", <<"none">>)>>, <<>>)>>)
Old == FdtNode("reserved-memory", "", <<P("ranges", <<>>)>>, <<>>)
Soc(kids) == FdtNode("soc", "", <<>>, kids)
RootNode(kids) == FdtNode("", "", <<P("#address-cells", <<"2">>), P("#size-cells", <<"1">>)>>, kids) \o End

CpusFirst == RootNode(<<Memory, CpuNodes, Soc(<<Uart, Rtc>> \o Irqchips), Config>>)
OldLast == RootNode(<<CpuNodes, Config, Soc(Irqchips \o <<Rtc, Uart>>), Memory, Old>>)
DevicesFirst == RootNode(<<Soc(<<Uart, Rtc>>), Memory, CpuNodes, Config>>)

Case(given, room, n, inst) ==
  [tree |-> given, given |-> Tree(given), room |-> room,
   memregions |-> <<"mmio", "shmem">>, domregions |-> <<"dommem">>,
   managed |-> {"0", "1"}, suspend |-> {"0", "ret"}, domains |-> n, inst |-> inst, notmine |-> <<"1">>]
SomeCases ==
  {Case(t, room, d[1], d[2]) : t \in {CpusFirst, OldLast}, room \in {10, 40, 60, 80, 200},
                               d \in {<<1, "">>, <<2, "">>, <<2, "d1">>}}
    \cup {Case(DevicesFirst, 200, 2, ""), Case(RootOnly, 200, 1, "")}
StaleCases == {Case(DevicesFirst, 200, 2, "d1")}
-------------------------------------------------------------------------------
Components == {"hsm", "boot", "reset", "edit", "fixup", "sw"}

\* The component itself, or one of its initial states for good.
Or(c, pin, init) == (component # c => pin) /\ init
OneTree == CHOOSE t \in SomeTrees : TRUE
InitOfOne ==
  /\ component \in Components
  /\ Or("fixup", case = Case(RootOnly, 200, 1, ""), FixupInit)
  /\ Or("edit", meant = Tree(RootOnly), FdtEditInit)
  /\ Or("sw", noDedup = FALSE /\ sw = SwCreate(8), FdtSwInit)
  /\ Init /\ ResetInit
  /\ Or("boot", tree = OneTree /\ nosmode = {} /\ named = -1, BootInit)

NextOfOne ==
  /\ UNCHANGED component
  /\ \/ /\ component = "hsm" /\ Next
        /\ UNCHANGED <<bootVars, resetVars, fdtEditVars, fixupVars, fdtSwVars>>
     \/ /\ component = "boot" /\ BootNext
        /\ UNCHANGED <<hsmVars, resetVars, fdtEditVars, fixupVars, fdtSwVars>>
     \/ /\ component = "reset" /\ ResetNext
        /\ UNCHANGED <<hsmVars, bootVars, fdtEditVars, fixupVars, fdtSwVars>>
     \/ /\ component = "edit" /\ FdtEditNext
        /\ UNCHANGED <<hsmVars, bootVars, resetVars, fixupVars, fdtSwVars>>
     \/ /\ component = "fixup" /\ FixupNext
        /\ UNCHANGED <<hsmVars, bootVars, resetVars, fdtEditVars, fdtSwVars>>
     \/ /\ component = "sw" /\ FdtSwNext
        /\ UNCHANGED <<hsmVars, bootVars, resetVars, fdtEditVars, fixupVars>>

SpecOfOne ==
  InitOfOne /\ [][NextOfOne]_<<component, hsmVars, bootVars, resetVars, fdtEditVars,
                               fixupVars, fdtSwVars>>
================================================================================
