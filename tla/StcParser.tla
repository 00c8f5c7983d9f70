------------------------------ MODULE StcParser ------------------------------
(***************************************************************************)
(* The reader of nkstc, for the compiler of nkl_core                       *)
(* (nkstc/src/parser.cpp).  Its lexer leaves the newlines out.  While a    *)
(* list is read its node holds the size of the array in total_children.    *)
(***************************************************************************)
EXTENDS SyntaxTree, TokenReader

PushNode(p) == AppendNode(p, TreeNode(NoName, p.pos))
Begin(p, ref) == PutTotal(p, ref, Len(p.nodes))

RECURSIVE ParseNode(_), ParseNodes(_, _)
ParseNodes(p, ref) ==
  IF p.err \/ OnAny(p, {"Eof", "]", ")"}) THEN p ELSE ParseNodes(CountChild(ParseNode(p), ref), ref)
ParseNodeList(p, ref) == Then(ParseNodes(p, ref), LAMBDA q : PutTotal(q, ref, Len(q.nodes) - NodeAt(q, ref).total))

(* The name of a call: an identifier, or a string without its quotes.        *)
ParseName(p, ref) == IF OnAny(p, {"Id", "String"}) THEN Rename(Step(p), ref, Here(p)) ELSE Fail(p)
ParseCall(p, ref) ==
  IF On(p, ")") THEN Step(p)
  ELSE Then(ParseName(p, ref), LAMBDA q : Expect(ParseNodeList(Begin(q, ref), ref), ")"))
ParseList(p, ref) == Expect(ParseNodeList(Begin(PutId(p, ref, "list"), ref), ref), "]")
ParseAtom(p, ref) == IF OnAny(p, Atoms) THEN PutId(Step(p), ref, KindOf[p.toks[p.pos].id]) ELSE Fail(p)
ParsePushed(p, ref) ==
  CASE On(p, "(") -> ParseCall(Step(p), ref) [] On(p, "[") -> ParseList(Step(p), ref) [] OTHER -> ParseAtom(p, ref)
ParseNode(p) == Then(PushNode(p), LAMBDA q : ParsePushed(q, LastNode(q)))

ParseRoot(p, ref) ==
  Then(ParseNodeList(Begin(PutId(p, ref, "list"), ref), ref), LAMBDA q : IF On(q, "Eof") THEN q ELSE Fail(q))
Parse(toks) == Then(PushNode(Parser(toks)), LAMBDA p : ParseRoot(p, LastNode(p)))
=============================================================================
