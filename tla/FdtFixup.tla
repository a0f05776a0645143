-------------------------------- MODULE FdtFixup --------------------------------
(***************************************************************************)
(* The fix-up of the device tree for the next stage                        *)
(* (images/monitor/fdt_fixup.c, drivers/irqchip/irqchip.c,                 *)
(* drivers/core/driver.c, domains_fdt_fixup() of                           *)
(* arch/riscv/runtime/domain.c): what is the monitor's is reserved or      *)
(* disabled, node by node, in a tree whose nodes move as it is edited.     *)
(***************************************************************************)
EXTENDS Fdt

CONSTANT FixupCases   \* what the monitor starts from, see FixupInit

VARIABLES case,       \* one of FixupCases
          blob,       \* the device tree
          fx,         \* which part of the fix-up is next
          cursor,     \* the node offset its loop is at
          cpus,       \* the local of domains_fdt_fixup()
          row, col    \* the indices of its loops

fixupVars == <<case, blob, fx, cursor, cpus, row, col>>

Cpus == <<<<"cpus", "">>>>

\* fdt_prepare()
FixupInit ==
  /\ case \in FixupCases
  /\ blob = OpenInto([s |-> case.tree, strs |-> Strings(case.tree), total |-> 0], case.room)
  /\ fx = "monitor" /\ cursor = 0 /\ cpus = 0 /\ row = 1 /\ col = 1

\* The next part, or the same one further on; an error ends the fix-up.
FixupGoto(r, part, at) ==
  /\ blob' = r.f /\ fx' = IF r.ok THEN part ELSE "failed"
  /\ cursor' = at /\ UNCHANGED <<case, cpus>>
Same == [ok |-> TRUE, f |-> blob]

\* fdt_node_enabled(), fdt_node_disable()
NodeEnabled(s, o) == Getprop(s, o, "status") \in {<<>>, <<"okay">>, <<"ok">>}
NodeDisable(f, o) == Setprop(f, o, "status", <<"disabled">>)
-------------------------------------------------------------------------------
(* Reserved memory *)

Then(r, Next(_)) == IF r.ok THEN Next(r.f) ELSE r

\* reserve()
ReservedMemory == <<"reserved-memory", "">>
NewParent(f) ==
  LET new == AddSubnode(f, 1, ReservedMemory)
      Cells(f1, name) == Setprop(f1, new.at, name, Getprop(f.s, 1, name))
  IN  Then(new, LAMBDA g : Then(Cells(g, "#address-cells"),
                LAMBDA h : Then(Cells(h, "#size-cells"),
                LAMBDA i : Setprop(i, new.at, "ranges", <<>>))))
Reserve(f, what, base) ==
  LET parent == SubnodeOffset(f.s, 1, ReservedMemory)
      ready == IF parent = 0 THEN NewParent(f) ELSE [ok |-> TRUE, f |-> f]
      node == AddSubnode(ready.f, SubnodeOffset(ready.f.s, 1, ReservedMemory), <<what, base>>)
  IN  IF ~ready.ok THEN ready
      ELSE Then(node, LAMBDA g : Then(Setprop(g, node.at, "reg", <<base>>),
                                      LAMBDA h : Setprop(h, node.at, "no-map", <<>>)))

\* fdt_range_is_memory()
RECURSIVE MemoryFrom(_, _, _)
MemoryFrom(s, o, base) ==
  o # 0 /\ (\/ Getprop(s, o, "device_type") = <<"memory">> /\ base \in Range(Getprop(s, o, "reg"))
            \/ MemoryFrom(s, NextNode(s, o), base))
RangeIsMemory(s, base) == MemoryFrom(s, NextNode(s, 0), base)

ReserveMonitor ==
  /\ fx = "monitor" /\ FixupGoto(Reserve(blob, "monitor", "image"), "memregions", 0)
  /\ row' = 1 /\ UNCHANGED col

\* A bug to tell apart: what is no memory is reserved as well.
ReserveEveryRegion ==
  /\ fx = "memregions" /\ UNCHANGED col
  /\ IF row > Len(case.memregions) THEN FixupGoto(Same, "aplic", 0) /\ row' = 1
     ELSE /\ FixupGoto(Reserve(blob, "monitor-shmem", case.memregions[row]), "memregions", 0)
          /\ row' = row + 1

\* reserve_memregions(): the regions that drivers have added
ReserveMemregions ==
  /\ fx = "memregions" /\ UNCHANGED col
  /\ IF row > Len(case.memregions) THEN FixupGoto(Same, "aplic", 0) /\ row' = 1
     ELSE /\ FixupGoto(IF RangeIsMemory(blob.s, case.memregions[row])
                    THEN Reserve(blob, "monitor-shmem", case.memregions[row]) ELSE Same, "memregions", 0)
          /\ row' = row + 1

\* reserve_domain_regions(): what the boot hart's domain is kept out of
ReserveDomainRegions ==
  /\ fx = "domregions" /\ UNCHANGED col
  /\ IF row > Len(case.domregions) THEN FixupGoto(Same, "domains", 0) /\ row' = 1
     ELSE /\ FixupGoto(IF RangeIsMemory(blob.s, case.domregions[row])
                    THEN Reserve(blob, "domain", case.domregions[row]) ELSE Same, "domregions", 0)
          /\ row' = row + 1
-------------------------------------------------------------------------------
(* Nodes that are not the next stage's *)

\* fdt_reg() of a cpu node: its hart ID, <<>> without one
HartidOf(s, cpu) == Getprop(s, cpu, "reg")

\* fdt_hart_irq(), of the first interrupt
HartIrq(s, o) ==
  LET ext == Getprop(s, o, "interrupts-extended")
      intc == IF Len(ext) < 2 THEN 0 ELSE ByPhandle(s, ext[1])
  IN  IF intc = 0 \/ HartidOf(s, ParentOffset(s, intc)) = <<>> THEN "none" ELSE ext[2]

\* irqchip_is_mlevel(): directly, or as MSIs
RECURSIVE MlevelFrom(_, _, _)
MlevelFrom(s, o, depth) ==
  LET msi == Getprop(s, o, "msi-parent")
  IN  /\ o # 0 /\ depth < 4
      /\ IF HartIrq(s, o) # "none" THEN HartIrq(s, o) = "M_EXT"
         ELSE msi # <<>> /\ MlevelFrom(s, ByPhandle(s, msi[1]), depth + 1)
IsMlevel(s, o) == MlevelFrom(s, o, 0)

\* A loop over the nodes: at the one after the cursor, or on to the next part.
Walk(part, node, Wanted, edited, next) ==
  /\ fx = part /\ UNCHANGED <<row, col>>
  /\ IF node = 0 THEN FixupGoto(Same, next, 0)
     ELSE FixupGoto(IF Wanted THEN edited ELSE Same, part, node)

\* disable_mlevel(), twice
DisableMlevel(part, compatible, next) ==
  LET node == ByCompatible(blob.s, cursor, compatible)
  IN  Walk(part, node, IsMlevel(blob.s, node), NodeDisable(blob, node), next)

\* plic_invalidate_mlevel(): the contexts stay, their index counts
Invalidated(ext) ==
  [i \in DOMAIN ext |-> IF i % 2 = 0 /\ ext[i] = "M_EXT" THEN "invalid" ELSE ext[i]]
PlicInvalidate ==
  LET node == NextNode(blob.s, cursor)
      ext == Getprop(blob.s, node, "interrupts-extended")
  IN  Walk("plic", node, IsCompatible(blob.s, node, "plic") /\ ext # <<>>,
           SetpropInplace(blob, node, "interrupts-extended", Invalidated(ext)), "drivers")

\* drivers_fdt_fixup(): the nodes of drivers that are M-mode's
DriversFixup ==
  LET node == NextNode(blob.s, cursor)
  IN  Walk("drivers", node, IsCompatible(blob.s, node, "mmode"), NodeDisable(blob, node), "harts")

\* disable_unmanaged_harts()
SubnodeAfter(parent, node) ==
  IF node = 0 THEN FirstSubnode(blob.s, parent) ELSE NextSubnode(blob.s, node)
DisableHarts ==
  LET parent == PathOffset(blob.s, Cpus)
      cpu == IF parent = 0 THEN 0 ELSE SubnodeAfter(parent, cursor)
      unmanaged == /\ Getprop(blob.s, cpu, "device_type") = <<"cpu">>
                   /\ HartidOf(blob.s, cpu) # <<>> /\ HartidOf(blob.s, cpu)[1] \notin case.managed
  IN  Walk("harts", cpu, unmanaged, NodeDisable(blob, cpu), "idle")

\* disable_idle_states()
DisableIdleStates ==
  LET node == ByCompatible(blob.s, cursor, "idle-state")
      given == Getprop(blob.s, node, "suspend-param")
      type == IF given = <<>> THEN "0" ELSE given[1]
  IN  Walk("idle", node, NodeEnabled(blob.s, node) /\ type \notin case.suspend,
           NodeDisable(blob, node), "domregions")
-------------------------------------------------------------------------------
(* The domain's own: domains_fdt_fixup() *)

Domains ==
  /\ fx = "domains" /\ row' = 1 /\ col' = 1
  /\ cpus' = PathOffset(blob.s, Cpus) /\ cursor' = 0
  /\ fx' = IF case.domains = 1 THEN "done" ELSE "domharts"
  /\ UNCHANGED <<case, blob>>

\* The harts another domain boots with, or that cannot run this one
RECURSIVE CpuFrom(_, _, _)
CpuFrom(s, cpu, hartid) ==
  IF cpu = 0 \/ HartidOf(s, cpu) = <<hartid>> THEN cpu ELSE CpuFrom(s, NextSubnode(s, cpu), hartid)
DomainHarts ==
  /\ fx = "domharts" /\ UNCHANGED col
  /\ IF row > Len(case.notmine) THEN FixupGoto(Same, IF case.inst = "" THEN "domcpus" ELSE "devices", 0) /\ row' = 1
     ELSE LET cpu == CpuFrom(blob.s, FirstSubnode(blob.s, cpus), case.notmine[row])
          IN  /\ FixupGoto(IF cpu = 0 THEN Same ELSE NodeDisable(blob, cpu), "domharts", 0)
              /\ row' = row + 1

\* disable_devices(): pairs <<region, permissions>>; everything is looked up again
\* for each device, since the one before may have moved it
DisableDevices ==
  LET inst == ByPhandle(blob.s, case.inst)
      regions == Getprop(blob.s, inst, "regions")
      region == IF 2 * row > Len(regions) THEN 0 ELSE ByPhandle(blob.s, regions[2 * row - 1])
      devices == Getprop(blob.s, region, "devices")
      dev == ByPhandle(blob.s, devices[col])
  IN  /\ fx = "devices"
      /\ CASE 2 * row > Len(regions) -> FixupGoto(Same, "domcpus", 0) /\ row' = 1 /\ col' = 1
           [] 2 * row <= Len(regions) /\ (regions[2 * row] # "none" \/ col > Len(devices)) ->
                FixupGoto(Same, "devices", 0) /\ row' = row + 1 /\ col' = 1
           [] 2 * row <= Len(regions) /\ regions[2 * row] = "none" /\ col <= Len(devices) ->
                /\ FixupGoto(IF dev = 0 THEN Same ELSE NodeDisable(blob, dev), "devices", 0)
                /\ col' = col + 1 /\ UNCHANGED row

\* "riscv,domain" goes, in place; then the domain configuration
HidePartition ==
  LET cpu == SubnodeAfter(cpus, cursor)
      r == NopProperty(blob, cpu, "riscv,domain")
  IN  Walk("domcpus", cpu, r.ok, r, "config")
DeleteConfig ==
  LET node == ByCompatible(blob.s, 0, "domain-config")
  IN  /\ fx = "config" /\ UNCHANGED <<row, col>>
      /\ FixupGoto(IF node = 0 THEN Same ELSE DelNode(blob, node), "done", 0)

\* fdt_fixup() packs the tree, whether it went well or not
FixupPack ==
  /\ fx \in {"done", "failed"} /\ blob' = Pack(blob)
  /\ fx' = IF fx = "done" THEN "handed over" ELSE "incomplete"
  /\ UNCHANGED <<case, cursor, cpus, row, col>>

FixupNext ==
  \/ ReserveMonitor \/ ReserveMemregions \/ ReserveDomainRegions
  \/ DisableMlevel("aplic", "aplic", "imsics") \/ DisableMlevel("imsics", "imsics", "plic")
  \/ PlicInvalidate \/ DriversFixup \/ DisableHarts \/ DisableIdleStates
  \/ Domains \/ DomainHarts \/ DisableDevices \/ HidePartition \/ DeleteConfig \/ FixupPack

FixupSpec == FixupInit /\ [][FixupNext]_fixupVars
-------------------------------------------------------------------------------
(* Properties *)

Given == case.given   \* Tree(case.tree), worked out once
Handed == Tree(blob.s)
Value(path, name) == IF name \in DOMAIN Given[path] THEN Given[path][name] ELSE <<>>
IsCpu(path) == Front(path) = <<<<"", "">>, <<"cpus", "">>>> /\ Value(path, "reg") # <<>>
WithPhandle(p) == CHOOSE path \in DOMAIN Given : Value(path, "phandle") = <<p>>
InRam(base) ==
  \E path \in DOMAIN Given : Value(path, "device_type") = <<"memory">> /\ base \in Range(Value(path, "reg"))

\* What a controller interrupts the harts through, itself or by its IMSIC
Interrupts(path) ==
  LET msi == Value(path, "msi-parent")
  IN  Value(IF msi = <<>> THEN path ELSE WithPhandle(msi[1]), "interrupts-extended")[2]

\* The devices of the regions that the domain may neither read nor write
OutOfReach ==
  IF case.domains = 1 \/ case.inst = "" THEN {}
  ELSE LET regions == Value(WithPhandle(case.inst), "regions")
           none == {i \in 1 .. Len(regions) \div 2 : regions[2 * i] = "none"}
       IN  UNION {Range(Value(WithPhandle(regions[2 * i - 1]), "devices")) : i \in none}

\* The nodes the next stage is not to use
Hidden(path) ==
  LET is == Range(Value(path, "compatible"))
  IN  \/ "mmode" \in is
      \/ is \cap {"aplic", "imsics"} # {} /\ Interrupts(path) = "M_EXT"
      \/ IsCpu(path) /\ Value(path, "reg")[1] \notin case.managed
      \/ IsCpu(path) /\ case.domains > 1 /\ Value(path, "reg")[1] \in Range(case.notmine)
      \/ /\ "idle-state" \in is
         /\ Value(path, "suspend-param") \notin {<<t>> : t \in case.suspend}
         /\ Value(path, "suspend-param") = <<>> => "0" \notin case.suspend
      \/ Range(Value(path, "phandle")) \cap OutOfReach # {}
Configs == {path \in DOMAIN Given : "domain-config" \in Range(Value(path, "compatible")) /\ case.domains > 1}
Gone(path) == \E q \in Configs : IsPrefix(q, path)
Reservation(what, base) == <<<<"", "">>, ReservedMemory, <<what, base>>>>
Reservations ==
  {Reservation("monitor", "image")}
    \cup {Reservation("monitor-shmem", b) : b \in {m \in Range(case.memregions) : InRam(m)}}
    \cup {Reservation("domain", b) : b \in {m \in Range(case.domregions) : InRam(m)}}

Expected(path) ==
  LET names == (DOMAIN Given[path] \cup (IF Hidden(path) THEN {"status"} ELSE {}))
                 \ (IF IsCpu(path) /\ case.domains > 1 THEN {"riscv,domain"} ELSE {})
  IN  [n \in names |->
         IF n = "status" /\ Hidden(path) THEN <<"disabled">>
         ELSE IF n = "interrupts-extended" /\ "plic" \in Range(Value(path, "compatible"))
           THEN Invalidated(Value(path, n)) ELSE Value(path, n)]

\* The tree that is handed over is the one the monitor was given with its memory and
\* that of its drivers and other domains reserved, exactly the nodes that are not
\* the next stage's disabled, and the partitioning out of sight, although the edits
\* move the nodes under the loops that make them (not in StaleCases, where they move
\* /cpus: see PartitionIsHidden); one that found no room is still a tree, and says
\* nothing of the nodes it was given that was not true
\* (fdt_fixup(), irqchip_fdt_fixup(), drivers_fdt_fixup(), domains_fdt_fixup()).
HandsOverTheRest ==
  LET handed == Handed
  IN  /\ CheckFull(blob.s)
      /\ fx = "handed over" =>
           /\ DOMAIN handed = {p \in DOMAIN Given : ~Gone(p)} \cup Reservations \cup {<<<<"", "">>, ReservedMemory>>}
           /\ \A path \in DOMAIN Given : ~Gone(path) => handed[path] = Expected(path)
           /\ \A path \in Reservations : DOMAIN handed[path] = {"reg", "no-map"}
      /\ fx = "incomplete" =>
           \A path \in DOMAIN Given : \A n \in DOMAIN handed[path] :
             handed[path][n] \in {Value(path, n), <<"disabled">>, Invalidated(Value(path, n))}

\* Software inside a domain sees nothing of the partitioning (domains_fdt_fixup()).
\* It does in StaleCases: a device that is disabled before /cpus moves it.
PartitionIsHidden ==
  fx = "handed over" /\ case.domains > 1 =>
    \A path \in DOMAIN Handed : "riscv,domain" \notin DOMAIN Handed[path]
================================================================================
