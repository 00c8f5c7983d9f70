------------------------------ MODULE SyntaxTree -----------------------------
(***************************************************************************)
(* The flat tree of a source file (nkl_common/include/nkl/common/ast.h):   *)
(* its nodes in the order in which they begin, each with the number of     *)
(* nodes below it, and how one walks from child to child.                  *)
(*                                                                         *)
(* The parsers hold references to nodes while they append others to the    *)
(* same array (ntk/include/ntk/dyn_array.h), so the array has a place: what*)
(* is written through a reference to a place it has left is lost.          *)
(***************************************************************************)
EXTENDS Integers, SequencesExt

CONSTANT InitialRoom   (* nodes there is room for at first: 1000 in the code *)

NoName == "none"
TreeNode(id, tokenIdx) == [id |-> id, tokenIdx |-> tokenIdx, total |-> 0, arity |-> 0]

(* nkl_ast_nextChild, and the children of a node by it.                      *)
NextChild(nodes, idx) == idx + nodes[idx].total + 1
Children(nodes, idx) ==
  FoldLeft(LAMBDA found, i : IF Last(found) \notin DOMAIN nodes THEN found ELSE Append(found, NextChild(nodes, Last(found))),
           <<idx + 1>>, [i \in 1..nodes[idx].arity |-> i])

(* inspectNode: the nodes it comes to, with their depth.                     *)
RECURSIVE Inspect(_, _, _)
Inspect(nodes, idx, indent) ==
  <<<<idx, indent>>>> \o
  IF idx \notin DOMAIN nodes THEN <<>>
  ELSE FlattenSeq([i \in 1..nodes[idx].arity |->
         IF i \in DOMAIN Children(nodes, idx) THEN Inspect(nodes, Children(nodes, idx)[i], indent + 1) ELSE <<>>])

-----------------------------------------------------------------------------
(* Mutant: an allocator that never grows a block in place.                   *)
GrownElsewhere(block) == block + 1

(* The array is the last block of its arena when it grows, so it stays where *)
(* it is (ntk/src/arena.c, realloc).                                         *)
GrownInPlace(block) == block

Parser(toks) == [toks |-> toks, pos |-> 1, err |-> FALSE, val |-> 0, nodes |-> <<>>, room |-> InitialRoom, block |-> 1]
AppendNode(p, node) ==
  IF Len(p.nodes) < p.room THEN [p EXCEPT !.nodes = Append(@, node)]
  ELSE [p EXCEPT !.nodes = Append(@, node), !.room = 2 * @, !.block = GrownInPlace(@)]
LastNode(p) == [block |-> p.block, idx |-> Len(p.nodes)]
PutNode(p, ref, node) == IF ref.block = p.block THEN [p EXCEPT !.nodes[ref.idx] = node] ELSE p
NodeAt(p, ref) == p.nodes[ref.idx]

PutId(p, ref, id) == PutNode(p, ref, [NodeAt(p, ref) EXCEPT !.id = id])
PutTotal(p, ref, n) == PutNode(p, ref, [NodeAt(p, ref) EXCEPT !.total = n])
CountChild(p, ref) == PutNode(p, ref, [NodeAt(p, ref) EXCEPT !.arity = @ + 1])
Rename(p, ref, id) == PutNode(p, ref, [NodeAt(p, ref) EXCEPT !.id = id, !.tokenIdx = @ + 1])

Atoms == {"Id", "Int", "Float", "String", "EscapedString"}
KindOf == [id \in Atoms |-> CASE id = "Id" -> "id" [] id = "Int" -> "int" [] id = "Float" -> "float"
                              [] id = "String" -> "string" [] OTHER -> "escaped_string"]
=============================================================================
