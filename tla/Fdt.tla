----------------------------------- MODULE Fdt -----------------------------------
(***************************************************************************)
(* libfdt (lib/libfdt): a flattened device tree, read and edited in place. *)
(*                                                                         *)
(* A tree is [s, strs, total]: the words of the structure block, the names *)
(* of the strings block, and the words there is room for.  Offsets count   *)
(* words from 1; 0 stands for a negative result, whichever error it is.    *)
(* The first word of an item says what it is and how long, the others are  *)
(* "data": read as a tag they are none.  A node's name is a pair, base and *)
(* unit address; a property's value is a sequence of cells; a name takes   *)
(* one word of either block.                                               *)
(***************************************************************************)
EXTENDS Naturals, FiniteSets, SequencesExt

CONSTANT NoDepth     \* larger than the depth of any tree: a NULL depth pointer

ASSUME FdtAssumption == NoDepth \in Nat \ {0}

Data(n) == [i \in 1 .. n |-> [tag |-> "data", size |-> 1]]
BeginNode(name) == <<[tag |-> "begin", size |-> 2, name |-> name]>> \o Data(1)
EndNode == <<[tag |-> "endnode", size |-> 1]>>
Prop(name, val) ==
  <<[tag |-> "prop", size |-> 3 + Len(val), name |-> name, val |-> val]>> \o Data(2 + Len(val))
Nop(n) == [i \in 1 .. n |-> [tag |-> "nop", size |-> 1]]
End == <<[tag |-> "end", size |-> 1]>>

\* A node with its properties <<name, value>> and its children
TreeNode(name, props, kids) ==
  BeginNode(name) \o FlattenSeq([i \in DOMAIN props |-> Prop(props[i][1], props[i][2])])
                  \o FlattenSeq(kids) \o EndNode
-------------------------------------------------------------------------------
(* Reading: fdt.c, fdt_ro.c *)

\* fdt_next_tag(): what lies outside the block, or is no tag, ends it
Tag(s, o) == IF o \in DOMAIN s THEN s[o].tag ELSE "data"
IsNode(s, o) == Tag(s, o) = "begin"
After(s, o) == o + s[o].size

\* fdt_next_node(), from a tag on: the next node, or just past the end of the one
\* the depth was counted from
RECURSIVE NextNodeFrom(_, _, _)
NextNodeFrom(s, o, depth) ==
  CASE Tag(s, o) = "begin" -> [at |-> o, depth |-> depth + 1]
    [] Tag(s, o) \in {"prop", "nop"} -> NextNodeFrom(s, After(s, o), depth)
    [] Tag(s, o) = "endnode" /\ depth > 0 -> NextNodeFrom(s, After(s, o), depth - 1)
    [] Tag(s, o) = "endnode" /\ depth = 0 -> [at |-> After(s, o), depth |-> -1]
    [] Tag(s, o) \in {"end", "data"} -> [at |-> 0, depth |-> depth]

\* fdt_check_node_offset_(), fdt_next_node(); 0 starts before the root
NextNodeDepth(s, o, depth) ==
  IF o = 0 THEN NextNodeFrom(s, 1, depth)
  ELSE IF IsNode(s, o) THEN NextNodeFrom(s, After(s, o), depth)
  ELSE [at |-> 0, depth |-> depth]
NextNode(s, o) == NextNodeDepth(s, o, NoDepth).at

\* fdt_first_subnode(), fdt_next_subnode()
FirstSubnode(s, o) ==
  LET n == NextNodeDepth(s, o, 0) IN IF n.depth = 1 THEN n.at ELSE 0
RECURSIVE NextSubnodeFrom(_, _)
NextSubnodeFrom(s, n) ==
  CASE n.at = 0 \/ n.depth < 1 -> 0
    [] n.at # 0 /\ n.depth = 1 -> n.at
    [] n.at # 0 /\ n.depth > 1 -> NextSubnodeFrom(s, NextNodeDepth(s, n.at, n.depth))
NextSubnode(s, o) == NextSubnodeFrom(s, NextNodeDepth(s, o, 1))

\* fdt_nodename_eq_(): a name without a unit address finds one with it
NodenameEq(s, o, name) ==
  \/ s[o].name = name
  \/ name[2] = "" /\ s[o].name[1] = name[1]

\* fdt_subnode_offset_namelen()
RECURSIVE SubnodeFrom(_, _, _)
SubnodeFrom(s, n, name) ==
  CASE n.at = 0 \/ n.depth < 0 -> 0
    [] n.at # 0 /\ n.depth = 1 /\ NodenameEq(s, n.at, name) -> n.at
    [] n.at # 0 /\ n.depth >= 0 /\ ~(n.depth = 1 /\ NodenameEq(s, n.at, name)) ->
         SubnodeFrom(s, NextNodeDepth(s, n.at, n.depth), name)
SubnodeOffset(s, o, name) ==
  IF ~IsNode(s, o) THEN 0 ELSE SubnodeFrom(s, NextNodeDepth(s, o, 0), name)

\* fdt_path_offset_namelen(), without aliases
PathOffset(s, path) ==
  FoldLeft(LAMBDA o, name : IF o = 0 THEN 0 ELSE SubnodeOffset(s, o, name), 1, path)

\* nextprop_(), fdt_first_property_offset(), fdt_next_property_offset(): properties
\* come before subnodes
RECURSIVE NextProp(_, _)
NextProp(s, o) ==
  CASE Tag(s, o) = "prop" -> o
    [] Tag(s, o) = "nop" -> NextProp(s, After(s, o))
    [] Tag(s, o) \in {"begin", "endnode", "end", "data"} -> 0

\* fdt_get_property_namelen_(), fdt_string_eq_(): the first of that name
RECURSIVE PropertyFrom(_, _, _)
PropertyFrom(s, p, name) ==
  IF p = 0 THEN 0
  ELSE IF s[p].name = name THEN p
  ELSE PropertyFrom(s, NextProp(s, After(s, p)), name)
GetProperty(s, o, name) ==
  IF IsNode(s, o) THEN PropertyFrom(s, NextProp(s, After(s, o)), name) ELSE 0

\* fdt_getprop(): its value, <<>> without one
Getprop(s, o, name) ==
  LET p == GetProperty(s, o, name) IN IF p = 0 THEN <<>> ELSE s[p].val
HasProp(s, o, name) == GetProperty(s, o, name) # 0

\* fdt_supernode_atdepth_offset(), fdt_node_depth(), fdt_parent_offset()
RECURSIVE SupernodeFrom(_, _, _, _, _)
SupernodeFrom(s, n, o, depth, super) ==
  LET found == IF n.depth = depth THEN n.at ELSE super
  IN  IF n.at = 0 \/ n.at > o THEN [at |-> 0, depth |-> 0]
      ELSE IF n.at = o THEN [at |-> IF depth > n.depth THEN 0 ELSE found, depth |-> n.depth]
      ELSE SupernodeFrom(s, NextNodeDepth(s, n.at, n.depth), o, depth, found)
SupernodeAtdepth(s, o, depth) == SupernodeFrom(s, [at |-> 1, depth |-> 0], o, depth, 0)
NodeDepth(s, o) == SupernodeAtdepth(s, o, 0).depth
ParentOffset(s, o) == IF NodeDepth(s, o) = 0 THEN 0 ELSE SupernodeAtdepth(s, o, NodeDepth(s, o) - 1).at

\* fdt_get_phandle(): in the new property, or the old one; <<>> for none
Phandle(s, o) ==
  IF Len(Getprop(s, o, "phandle")) = 1 THEN Getprop(s, o, "phandle")
  ELSE IF Len(Getprop(s, o, "linux,phandle")) = 1 THEN Getprop(s, o, "linux,phandle") ELSE <<>>
\* fdt_node_offset_by_phandle()
RECURSIVE PhandleFrom(_, _, _)
PhandleFrom(s, o, p) ==
  IF o = 0 \/ Phandle(s, o) = <<p>> THEN o ELSE PhandleFrom(s, NextNode(s, o), p)
ByPhandle(s, p) == PhandleFrom(s, NextNode(s, 0), p)

\* fdt_node_offset_by_prop_value(): the next one after o
RECURSIVE PropValueFrom(_, _, _, _)
PropValueFrom(s, o, name, val) ==
  IF o = 0 \/ (HasProp(s, o, name) /\ Getprop(s, o, name) = val) THEN o
  ELSE PropValueFrom(s, NextNode(s, o), name, val)
ByPropValue(s, o, name, val) == PropValueFrom(s, NextNode(s, o), name, val)

\* fdt_get_path(): the names on the way, of which the buffer has room for some
RECURSIVE GetPathFrom(_, _, _, _, _)
GetPathFrom(s, n, o, room, names) ==
  LET kept == IF Len(names) > n.depth THEN SubSeq(names, 1, n.depth) ELSE names
      now == IF Len(kept) >= n.depth /\ Len(kept) < room THEN Append(kept, s[n.at].name) ELSE kept
  IN  IF n.at = 0 \/ n.at > o THEN <<>>
      ELSE IF n.at = o THEN IF Len(now) < n.depth + 1 THEN <<>> ELSE now
      ELSE GetPathFrom(s, NextNodeDepth(s, n.at, n.depth), o, room, now)
GetPath(s, o, room) == GetPathFrom(s, [at |-> 1, depth |-> 0], o, room, <<>>)

\* fdt_stringlist_contains(), fdt_node_check_compatible()
StringlistContains(list, c) == \E i \in DOMAIN list : list[i] = c
IsCompatible(s, o, c) == StringlistContains(Getprop(s, o, "compatible"), c)

\* fdt_node_offset_by_compatible(): the next one after o
RECURSIVE CompatibleFrom(_, _, _)
CompatibleFrom(s, o, c) ==
  IF o = 0 \/ IsCompatible(s, o, c) THEN o ELSE CompatibleFrom(s, NextNode(s, o), c)
ByCompatible(s, o, c) == CompatibleFrom(s, NextNode(s, o), c)

\* fdt_node_end_offset_()
RECURSIVE NodeEndFrom(_, _)
NodeEndFrom(s, n) ==
  IF n.at = 0 \/ n.depth < 0 THEN n.at ELSE NodeEndFrom(s, NextNodeDepth(s, n.at, n.depth))
NodeEnd(s, o) == NodeEndFrom(s, [at |-> o, depth |-> 0])
-------------------------------------------------------------------------------
(* Writing: fdt_rw.c, fdt_wip.c; a result is [ok, f], and [ok, f, at] of a new node *)

Strings(s) == {s[o].name : o \in {p \in DOMAIN s : s[p].tag = "prop"}}
Used(f) == Len(f.s) + Cardinality(f.strs)
Failed(f) == [ok |-> FALSE, f |-> f]

\* fdt_splice_(), fdt_splice_struct_(): words in the place of words
Splice(f, o, oldlen, words) ==
  IF Used(f) - oldlen + Len(words) > f.total THEN Failed(f)
  ELSE [ok |-> TRUE,
        f |-> [f EXCEPT !.s = SubSeq(@, 1, o - 1) \o words \o SubSeq(@, o + oldlen, Len(@))]]

\* fdt_find_add_string_(), fdt_splice_string_()
AddString(f, name) ==
  IF name \in f.strs THEN [ok |-> TRUE, f |-> f]
  ELSE IF Used(f) + 1 > f.total THEN Failed(f)
  ELSE [ok |-> TRUE, f |-> [f EXCEPT !.strs = @ \cup {name}]]

\* fdt_add_property_(): first in its node; fdt_del_last_string_() when it does not fit
AddProperty(f, o, name, val) ==
  LET str == AddString(f, name)
      put == Splice(str.f, After(f.s, o), 0, Prop(name, val))
  IN  IF ~IsNode(f.s, o) \/ ~str.ok \/ ~put.ok THEN Failed(f) ELSE put

\* fdt_resize_property_(), fdt_setprop_placeholder(), fdt_setprop()
Setprop(f, o, name, val) ==
  LET p == GetProperty(f.s, o, name)
  IN  IF p = 0 THEN AddProperty(f, o, name, val)
      ELSE Splice(f, p, f.s[p].size, Prop(name, val))

\* fdt_appendprop()
Appendprop(f, o, name, val) == Setprop(f, o, name, Getprop(f.s, o, name) \o val)

\* fdt_setprop_inplace(), and a cell written through fdt_getprop_w()
SetpropInplace(f, o, name, val) ==
  LET p == GetProperty(f.s, o, name)
  IN  IF p = 0 \/ Len(val) # Len(f.s[p].val) THEN Failed(f)
      ELSE [ok |-> TRUE, f |-> [f EXCEPT !.s[p].val = val]]

\* fdt_delprop()
Delprop(f, o, name) ==
  LET p == GetProperty(f.s, o, name)
  IN  IF p = 0 THEN Failed(f) ELSE Splice(f, p, f.s[p].size, <<>>)

\* fdt_set_name()
SetName(f, o, name) ==
  IF ~IsNode(f.s, o) THEN Failed(f)
  ELSE Splice(f, o, 2, BeginNode(name))

\* fdt_nop_region_(), fdt_nop_property()
NopRegion(f, o, n) ==
  [ok |-> TRUE, f |-> [f EXCEPT !.s = SubSeq(@, 1, o - 1) \o Nop(n) \o SubSeq(@, o + n, Len(@))]]
NopProperty(f, o, name) ==
  LET p == GetProperty(f.s, o, name)
  IN  IF p = 0 THEN Failed(f) ELSE NopRegion(f, p, f.s[p].size)

\* fdt_add_subnode_namelen(): after the parent's properties
RECURSIVE SkipProps(_, _)
SkipProps(s, o) == IF Tag(s, o) \in {"prop", "nop"} THEN SkipProps(s, After(s, o)) ELSE o

\* A bug to tell apart: the node goes where a property would.
AddSubnodeFirst(f, o, name) ==
  LET at == After(f.s, o)
      put == Splice(f, at, 0, BeginNode(name) \o EndNode)
  IN  IF ~IsNode(f.s, o) \/ SubnodeOffset(f.s, o, name) # 0 THEN Failed(f) @@ [at |-> 0]
      ELSE put @@ [at |-> at]
AddSubnode(f, o, name) ==
  LET at == SkipProps(f.s, After(f.s, o))
      put == Splice(f, at, 0, BeginNode(name) \o EndNode)
  IN  IF ~IsNode(f.s, o) \/ SubnodeOffset(f.s, o, name) # 0 THEN Failed(f) @@ [at |-> 0]
      ELSE put @@ [at |-> at]

\* fdt_del_node(), fdt_nop_node()
DelNode(f, o) ==
  LET end == NodeEnd(f.s, o) IN IF end = 0 THEN Failed(f) ELSE Splice(f, o, end - o, <<>>)
NopNode(f, o) ==
  LET end == NodeEnd(f.s, o) IN IF end = 0 THEN Failed(f) ELSE NopRegion(f, o, end - o)

\* fdt_open_into(), fdt_move(): the same tree, with room; fdt_pack(): with none
OpenInto(f, room) == [f EXCEPT !.total = Used(f) + room]
Pack(f) == [f EXCEPT !.total = Used(f)]
-------------------------------------------------------------------------------
(* What a structure block says: the set of its nodes, each its path and properties *)

Tagged(s, tag) == {o \in DOMAIN s : s[o].tag = tag}

\* How many nodes are open before each of some words
Depths(s, at) ==
  LET begins == Tagged(s, "begin")
      ends == Tagged(s, "endnode")
  IN  [o \in at |-> Cardinality({b \in begins : b < o}) - Cardinality({e \in ends : e < o})]

\* fdt_check_full(): whole items only, one root and that without a name, every node
\* closed, then the end
CheckFull(s) ==
  LET begins == Tagged(s, "begin")
      ends == Tagged(s, "endnode")
      items == DOMAIN s \ Tagged(s, "data")
      depth == Depths(s, begins \cup ends \cup Tagged(s, "end"))
  IN  /\ \A o \in {1} \cup {After(s, i) : i \in items \ {Len(s)}} : o \in items
      /\ \A i \in items, o \in DOMAIN s : i < o /\ o < After(s, i) => o \notin items
      /\ \A o \in begins : depth[o] = 0 => s[o].name = <<"", "">>
      /\ \A o \in ends : depth[o] > 0
      /\ \A e \in ends, o \in items : depth[e] = 1 /\ e < o => s[o].tag = "end"
      /\ Tagged(s, "end") # {} /\ \A o \in Tagged(s, "end") : depth[o] = 0

\* The nodes by their paths, each a function from names to values; the first of a name
Tree(s) ==
  LET begins == Tagged(s, "begin")
      nodeTags == begins \cup Tagged(s, "endnode")
      depth == Depths(s, begins)
      path == [o \in begins |->
                 [d \in 1 .. depth[o] + 1 |-> s[Max({b \in begins : b <= o /\ depth[b] = d - 1})].name]]
      owner == [p \in Tagged(s, "prop") |-> Max({o \in nodeTags : o < p})]
      Props(o) == LET mine == {p \in DOMAIN owner : owner[p] = o}
                  IN  [name \in {s[p].name : p \in mine} |-> s[Min({p \in mine : s[p].name = name})].val]
  IN  [pa \in Range(path) |-> Props(Min({o \in begins : path[o] = pa}))]
================================================================================
