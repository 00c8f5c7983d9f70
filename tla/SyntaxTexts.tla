----------------------------- MODULE SyntaxTexts -----------------------------
(***************************************************************************)
(* Texts of parentheses, brackets and atoms that grow token by token, and  *)
(* what the two readers of syntax trees make of each of them, next to what *)
(* the text says when one counts its parentheses.                          *)
(***************************************************************************)
EXTENDS SyntaxTree, FiniteSets

CONSTANTS Words,    (* the tokens, but for the end of the file               *)
          MaxWords  (* bound: tokens of a text                               *)

VARIABLE words
syntaxVars == <<words>>

Ast == INSTANCE AstParser
Stc == INSTANCE StcParser

SyntaxInit == words = <<>>
AddWord == Len(words) < MaxWords /\ \E w \in Words : words' = Append(words, w)

-----------------------------------------------------------------------------
Opening == {"(", "["}
Closing == [id \in Opening |-> IF id = "(" THEN ")" ELSE "]"]
Count(text, n, ids) == Cardinality({i \in 1..n : text[i].id \in ids})
Depth(text, i) == Count(text, i - 1, Opening) - Count(text, i - 1, {")", "]"})
ClosedAt(text, i, j) == i < j /\ j \in DOMAIN text /\ Depth(text, j + 1) = Depth(text, i) /\ \A k \in i + 1..j : Depth(text, k) > Depth(text, i)

(* Every parenthesis is closed by its own kind, and ( has a name or nothing. *)
IsText(text) ==
  /\ \A i \in DOMAIN text : Depth(text, i + 1) >= 0
  /\ \A i \in DOMAIN text : text[i].id \in Opening => \E j \in DOMAIN text : ClosedAt(text, i, j) /\ text[j].id = Closing[text[i].id]
  /\ \A i \in DOMAIN text : text[i].id = "(" => text[i + 1].id \in {")", "Id", "String"}

(* Where the nodes begin, which of them are inside of one, and the tree.     *)
Begins(text) == SelectSeq([i \in DOMAIN text |-> i],
                          LAMBDA i : text[i].id \notin {")", "]"} /\ (i = 1 \/ text[i - 1].id # "("))
IsInside(text, i, j) == text[i].id \in Opening /\ i < j /\ \A k \in i + 1..j : Depth(text, k) > Depth(text, i)
Inside(text, i) == {j \in Range(Begins(text)) : IsInside(text, i, j)}
IsCall(text, i) == text[i].id = "(" /\ text[i + 1].id # ")"
IdAt(text, i) ==
  CASE text[i].id = "[" -> "list" [] text[i].id \in Atoms -> KindOf[text[i].id] [] IsCall(text, i) -> text[i + 1].v [] OTHER -> NoName
NodeFor(text, i) ==
  [id |-> IdAt(text, i), tokenIdx |-> IF IsCall(text, i) THEN i + 1 ELSE i, total |-> Cardinality(Inside(text, i)),
   arity |-> Cardinality({j \in Inside(text, i) : Depth(text, j) = Depth(text, i) + 1})]
TreeFor(text) ==
  LET begins == Begins(text)
  IN <<[id |-> "list", tokenIdx |-> 1, total |-> Len(begins), arity |-> Cardinality({i \in Range(begins) : Depth(text, i) = 0})]>>
     \o [k \in DOMAIN begins |-> NodeFor(text, begins[k])]
Depths(text) == <<0>> \o [k \in DOMAIN Begins(text) |-> Depth(text, Begins(text)[k]) + 1]

Bare == SelectSeq(words, LAMBDA w : w.id # "Newline")
Whole(text) == Append(text, [id |-> "Eof", v |-> NoName])
Walked(nodes, depths) == Inspect(nodes, 1, 0) = [k \in DOMAIN nodes |-> <<k, depths[k]>>]
Given(v, Of(_)) == Of(v)

(* Both readers accept the texts whose parentheses match, and no others; the *)
(* tree has a node for each of their expressions, with the name or kind, the *)
(* token, the arity and the number of nodes below it that the text gives it, *)
(* and walking it by nkl_ast_nextChild comes to every node once, in order    *)
(* and at its depth.  The reader of nkl_core2 does so with newlines between  *)
(* the tokens, but for the token of a name that is not on the line of its    *)
(* parenthesis (ast_parser.c:148) and a text that begins with a newline.     *)
SameAsWritten(p, nodes) == p.err = ~IsText(Bare) /\ (~p.err => nodes = TreeFor(Bare) /\ Walked(p.nodes, Depths(Bare)))
ReadByStc == Given(Stc!Parse(Whole(Bare)), LAMBDA p : SameAsWritten(p, p.nodes))
ReadByAst ==
  Given(Ast!Parse(Whole(words)), LAMBDA p :
    SameAsWritten(p, IF words = Bare THEN p.nodes ELSE [k \in DOMAIN p.nodes |-> [p.nodes[k] EXCEPT !.tokenIdx = TreeFor(Bare)[k].tokenIdx]]))
TreeAsWritten == ReadByStc /\ (words = <<>> \/ words[1].id # "Newline" => ReadByAst)
=============================================================================
