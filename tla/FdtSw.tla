---------------------------------- MODULE FdtSw ----------------------------------
(***************************************************************************)
(* A device tree written from scratch in one pass (lib/libfdt/fdt_sw.c):   *)
(* the reserve map, the nodes and properties in their order, then          *)
(* fdt_finish().  Until then the strings grow down from the end of the     *)
(* buffer, and a property names its string by the distance to that end.    *)
(*                                                                         *)
(* Sizes are in words as in Fdt: two for a reserve entry, one for a name.  *)
(***************************************************************************)
EXTENDS Fdt, Integers

CONSTANTS Buffers,        \* sizes of the buffers a caller has
          SwNames,        \* names of nodes
          SwProps,        \* <<name, value>> of properties
          MaxCalls        \* bound: calls made

ASSUME FdtSwAssumption == Buffers \subseteq Nat

VARIABLES sw,       \* the blob being written
          noDedup,  \* FDT_CREATE_FLAG_NO_NAME_DEDUP
          swpath,     \* the nodes begun and not ended
          wrote,    \* the tree the successful calls describe
          swcalls

fdtSwVars == <<sw, noDedup, swpath, wrote, swcalls>>

\* fdt_create_with_flags(): magic, off_dt_strings ("zero" or the end) and sizes
SwCreate(size) ==
  [magic |-> "sw", stroff |-> "zero", total |-> size, rsv |-> 0, s |-> <<>>, strtab |-> <<>>]

StructTop(b) == 2 * b.rsv + Len(b.s)
\* fdt_sw_probe_(), fdt_sw_probe_memrsv_(), fdt_sw_probe_struct_()
SwProbe(b) == b.magic = "sw"
SwProbeMemrsv(b) == SwProbe(b) /\ b.stroff = "zero"
SwProbeStruct(b) == SwProbe(b) /\ b.stroff = "end"

SwFailed(b) == [ok |-> FALSE, b |-> b]
Wrote(b) == [ok |-> TRUE, b |-> b]

\* fdt_grab_space_()
GrabSpace(b, words) ==
  IF StructTop(b) + Len(words) > b.total - Len(b.strtab) THEN SwFailed(b)
  ELSE Wrote([b EXCEPT !.s = @ \o words])

\* fdt_resize(): to a buffer of another size
SwResize(b, size) ==
  IF ~SwProbe(b) \/ StructTop(b) + Len(b.strtab) > size THEN SwFailed(b)
  ELSE Wrote([b EXCEPT !.total = size])

\* fdt_add_reservemap_entry(), fdt_finish_reservemap()
AddReservemapEntry(b) ==
  IF ~SwProbeMemrsv(b) \/ 2 * b.rsv + 2 > b.total THEN SwFailed(b)
  ELSE Wrote([b EXCEPT !.rsv = @ + 1])
FinishReservemap(b) ==
  LET r == AddReservemapEntry(b) IN IF r.ok THEN Wrote([r.b EXCEPT !.stroff = "end"]) ELSE r

\* fdt_begin_node(), fdt_end_node()
SwBeginNode(b, name) == IF SwProbeStruct(b) THEN GrabSpace(b, BeginNode(name)) ELSE SwFailed(b)
SwEndNode(b) == IF SwProbeStruct(b) THEN GrabSpace(b, EndNode) ELSE SwFailed(b)

\* fdt_add_string_(): in front of the others; its distance to the end, 0 without room
SwAddString(b, name) ==
  IF b.total - (Len(b.strtab) + 1) < StructTop(b) THEN [at |-> 0, b |-> b]
  ELSE [at |-> -(Len(b.strtab) + 1), b |-> [b EXCEPT !.strtab = <<name>> \o @]]

\* fdt_find_add_string_(): the first of that name, or a new one
SwFindAddString(b, name) ==
  LET found == {i \in DOMAIN b.strtab : b.strtab[i] = name}
  IN  IF found # {}
      THEN [at |-> (CHOOSE i \in found : \A j \in found : i <= j) - 1 - Len(b.strtab),
            b |-> b, allocated |-> FALSE]
      ELSE SwAddString(b, name) @@ [allocated |-> TRUE]

\* A bug to tell apart: the last string goes, whether it was added or found.
DelLastStringAlways(b, allocated) == [b EXCEPT !.strtab = Tail(@)]
\* fdt_del_last_string_(), if it was added
DelLastString(b, allocated) == IF allocated THEN [b EXCEPT !.strtab = Tail(@)] ELSE b

\* fdt_property_placeholder(), fdt_property()
SwProperty(b, name, val) ==
  LET str == IF noDedup THEN SwAddString(b, name) @@ [allocated |-> TRUE]
             ELSE SwFindAddString(b, name)
      put == GrabSpace(str.b, Prop(str.at, val))
  IN  IF ~SwProbeStruct(b) \/ str.at = 0 THEN SwFailed(b)
      ELSE IF put.ok THEN put
      ELSE SwFailed(DelLastString(str.b, str.allocated))

\* fdt_finish(): the end, the strings after it, and their names counted from their start
SwFinish(b) ==
  LET r == GrabSpace(b, End)
      Fixed(w) == IF w.tag = "prop" THEN [w EXCEPT !.name = @ + Len(b.strtab)] ELSE w
  IN  IF ~SwProbeStruct(b) \/ ~r.ok THEN SwFailed(b)
      ELSE Wrote([r.b EXCEPT !.s = [i \in DOMAIN @ |-> Fixed(@[i])],
                             !.magic = "fdt", !.stroff = "top",
                             !.total = StructTop(r.b) + Len(b.strtab)])

-------------------------------------------------------------------------------
\* A call: what it does to the blob, and what a successful one means
SwCall(r, path2, wrote2) ==
  /\ swcalls < MaxCalls /\ swcalls' = swcalls + 1
  /\ sw' = r.b
  /\ swpath' = IF r.ok THEN path2 ELSE swpath
  /\ wrote' = IF r.ok THEN wrote2 ELSE wrote
  /\ UNCHANGED noDedup

FdtSwInit ==
  /\ \E size \in Buffers : sw = SwCreate(size)
  /\ noDedup \in BOOLEAN /\ swpath = <<>> /\ wrote = <<>> /\ swcalls = 0

CallReserve == SwCall(AddReservemapEntry(sw), swpath, wrote)
CallFinishReservemap == SwCall(FinishReservemap(sw), swpath, wrote)
CallResize(size) == SwCall(SwResize(sw, size), swpath, wrote)
\* A caller has one root, and that has no name; it names each node of a parent once
\* and each property of a node once, and its properties come before its nodes
CallBeginNode(name) ==
  LET here == Append(swpath, name)
  IN  /\ wrote = <<>> <=> swpath = <<>>
      /\ swpath = <<>> => name = <<"", "">>
      /\ here \notin DOMAIN wrote
      /\ SwCall(SwBeginNode(sw, name), here, wrote @@ (here :> <<>>))
CallEndNode == swpath # <<>> /\ SwCall(SwEndNode(sw), Front(swpath), wrote)
CallProperty(p) ==
  /\ swpath # <<>> /\ p[1] \notin DOMAIN wrote[swpath]
  /\ \A q \in DOMAIN wrote : Len(q) > Len(swpath) => ~IsPrefix(swpath, q)
  /\ SwCall(SwProperty(sw, p[1], p[2]), swpath, [wrote EXCEPT ![swpath] = @ @@ (p[1] :> p[2])])
CallFinish == swpath = <<>> /\ wrote # <<>> /\ SwCall(SwFinish(sw), swpath, wrote)

FdtSwNext ==
  \/ CallReserve \/ CallFinishReservemap \/ CallEndNode \/ CallFinish
  \/ \E size \in Buffers : CallResize(size)
  \/ \E name \in SwNames : CallBeginNode(name)
  \/ \E p \in SwProps : CallProperty(p)

FdtSwSpec == FdtSwInit /\ [][FdtSwNext]_fdtSwVars

-------------------------------------------------------------------------------
\* The name a property's offset stands for
NameAt(b, off) == b.strtab[IF b.magic = "fdt" THEN off + 1 ELSE Len(b.strtab) + off + 1]
NamedProps(b) == [i \in DOMAIN b.s |-> IF b.s[i].tag = "prop" THEN [b.s[i] EXCEPT !.name = NameAt(b, @)]
                                  ELSE b.s[i]]

\* At every moment the words written, and the names their offsets stand for, are
\* those of the successful calls, whichever calls found no room, came in the wrong
\* state or moved the blob to another buffer; a finished blob is well formed and as
\* long as it says (fdt_sw.c).
WritesTheTree ==
  /\ StructTop(sw) + Len(sw.strtab) <= sw.total
  /\ \A i \in DOMAIN sw.s : sw.s[i].tag = "prop" =>
       sw.s[i].name + (IF sw.magic = "fdt" THEN 0 ELSE Len(sw.strtab)) \in 0 .. Len(sw.strtab) - 1
  /\ Tree(NamedProps(sw)) = wrote
  /\ sw.magic = "fdt" => CheckFull(sw.s) /\ sw.total = StructTop(sw) + Len(sw.strtab)
================================================================================
