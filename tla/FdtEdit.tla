--------------------------------- MODULE FdtEdit ---------------------------------
(***************************************************************************)
(* Edits of a device tree through libfdt, one after the other, each on a   *)
(* node looked up by its path, beside the tree they are meant to give: a   *)
(* function of paths to properties.                                        *)
(***************************************************************************)
EXTENDS Fdt

CONSTANTS Blobs,               \* the structure blocks the edits start from
          Names, EditProps,    \* of nodes, and of properties with their values
          Room,                \* words to spare
          MaxEdits             \* bound: edits made

VARIABLES fdt,        \* the blob
          meant,      \* the tree it stands for
          edits

fdtEditVars == <<fdt, meant, edits>>

FdtEditInit ==
  /\ \E start \in Blobs :
       /\ fdt = OpenInto([s |-> start, strs |-> Strings(start), total |-> 0], Room)
       /\ meant = Tree(start)
  /\ edits = 0

\* An edit of the node at a path: what the call does to the blob, and what a
\* successful one means for the tree.
Edit(path, Call(_, _), Meaning) ==
  LET r == Call(fdt, PathOffset(fdt.s, Tail(path)))
  IN  /\ edits < MaxEdits /\ edits' = edits + 1
      /\ fdt' = r.f /\ meant' = IF r.ok THEN Meaning ELSE meant

Below(path) == {q \in DOMAIN meant : IsPrefix(path, q)}
Without(path) == [q \in DOMAIN meant \ Below(path) |-> meant[q]]
Less(path, name) ==
  [meant EXCEPT ![path] = [n \in DOMAIN @ \ {name} |-> @[n]]]
More(path, name, val) == [meant EXCEPT ![path] = (name :> val) @@ @]

EditSetprop(path, name, val) ==
  Edit(path, LAMBDA f, o : Setprop(f, o, name, val), More(path, name, val))
EditAppendprop(path, name, val) ==
  Edit(path, LAMBDA f, o : Appendprop(f, o, name, val),
       More(path, name, (IF name \in DOMAIN meant[path] THEN meant[path][name] ELSE <<>>) \o val))
EditSetpropInplace(path, name, val) ==
  Edit(path, LAMBDA f, o : SetpropInplace(f, o, name, val), More(path, name, val))
EditDelprop(path, name) == Edit(path, LAMBDA f, o : Delprop(f, o, name), Less(path, name))
EditNopProperty(path, name) == Edit(path, LAMBDA f, o : NopProperty(f, o, name), Less(path, name))
EditAddSubnode(path, name) ==
  Edit(path, LAMBDA f, o : AddSubnode(f, o, name), meant @@ (Append(path, name) :> <<>>))
Renamed(path, name) ==
  LET to(q) == IF IsPrefix(path, q) THEN [q EXCEPT ![Len(path)] = name] ELSE q
      from(q) == CHOOSE q0 \in DOMAIN meant : to(q0) = q
  IN  [q \in {to(q0) : q0 \in DOMAIN meant} |-> meant[from(q)]]
\* a caller gives no node the name of another
EditSetName(path, name) ==
  /\ Len(path) > 1 /\ Append(Front(path), name) \notin DOMAIN meant
  /\ Edit(path, LAMBDA f, o : SetName(f, o, name), Renamed(path, name))
EditDelNode(path) == Len(path) > 1 /\ Edit(path, LAMBDA f, o : DelNode(f, o), Without(path))
EditNopNode(path) == Len(path) > 1 /\ Edit(path, LAMBDA f, o : NopNode(f, o), Without(path))
EditPack == edits < MaxEdits /\ edits' = edits + 1 /\ fdt' = Pack(fdt) /\ UNCHANGED meant

FdtEditNext ==
  \/ \E path \in DOMAIN meant :
       \/ \E p \in EditProps :
            \/ EditSetprop(path, p[1], p[2]) \/ EditAppendprop(path, p[1], p[2])
            \/ EditSetpropInplace(path, p[1], p[2])
            \/ EditDelprop(path, p[1]) \/ EditNopProperty(path, p[1])
       \/ \E name \in Names : EditAddSubnode(path, name) \/ EditSetName(path, name)
       \/ EditDelNode(path) \/ EditNopNode(path)
  \/ EditPack

FdtEditSpec == FdtEditInit /\ [][FdtEditNext]_fdtEditVars
-------------------------------------------------------------------------------
(* Properties *)

\* The node a path, a phandle, a value or a parent names is the one the tree has
\* there, and its path is found again, if there is room for it.
LookupAgrees(path) ==
  LET o == PathOffset(fdt.s, Tail(path))
  IN  /\ IsNode(fdt.s, o)
      /\ \A p \in DOMAIN meant[path] : Getprop(fdt.s, o, p) = meant[path][p]
      /\ Len(path) > 1 => ParentOffset(fdt.s, o) = PathOffset(fdt.s, Tail(Front(path)))
      /\ \A room \in 1 .. 4 :
           GetPath(fdt.s, o, room) = IF room >= Len(path) THEN path ELSE <<>>
      /\ \A p \in DOMAIN meant[path] :
           LET q == ByPropValue(fdt.s, 0, p, meant[path][p])
           IN  q \in 1 .. o /\ Getprop(fdt.s, q, p) = meant[path][p]
      /\ "phandle" \in DOMAIN meant[path] => ByPhandle(fdt.s, meant[path]["phandle"][1]) = o

\* After any sequence of edits, some of which may find no room, the blob is well
\* formed and says what the successful ones meant, no more and no less, and every
\* node and property of that tree is found in it (fdt_rw.c, fdt_wip.c, fdt_ro.c).
BlobIsTheTree ==
  /\ CheckFull(fdt.s) /\ Used(fdt) <= fdt.total
  /\ Tree(fdt.s) = meant
  /\ \A path \in DOMAIN meant : LookupAgrees(path)
================================================================================
