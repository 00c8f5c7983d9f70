------------------------------ MODULE AstParser ------------------------------
(***************************************************************************)
(* The reader of syntax trees of nkl_core2 (nkl_core2/src/ast_parser.c).   *)
(* The lexer leaves the newlines in, and going on to a token skips them.   *)
(***************************************************************************)
EXTENDS SyntaxTree, TokenReader

(* getToken, accept and expect.                                              *)
GetToken(p) == SkipNewlines(Step(p))
ExpectToken(p, id) == IF p.err THEN p ELSE IF On(p, id) THEN GetToken(p) ELSE Fail(p)

PushNode(p) == AppendNode(p, TreeNode(NoName, p.pos))

RECURSIVE ParseNode(_), ParseNodes(_, _)
ParseNodes(p, ref) ==
  IF p.err \/ OnAny(p, {"Eof", "]", ")"}) THEN p ELSE ParseNodes(CountChild(ParseNode(p), ref), ref)
ParseNodeList(p, ref) == Then(ParseNodes(p, ref), LAMBDA q : PutTotal(q, ref, Len(q.nodes) - Len(p.nodes)))

ParseCall(p, ref) ==
  IF On(p, ")") THEN GetToken(p)
  ELSE IF OnAny(p, {"Id", "String"}) THEN ExpectToken(ParseNodeList(Rename(GetToken(p), ref, Here(p)), ref), ")")
  ELSE Fail(p)
ParseList(p, ref) == ExpectToken(ParseNodeList(PutId(p, ref, "list"), ref), "]")
ParsePushed(p, ref) ==
  IF On(p, "(") THEN ParseCall(GetToken(p), ref)
  ELSE IF On(p, "[") THEN ParseList(GetToken(p), ref)
  ELSE IF OnAny(p, Atoms) THEN PutId(GetToken(p), ref, KindOf[p.toks[p.pos].id])
  ELSE Fail(p)
ParseNode(p) == Then(PushNode(p), LAMBDA q : ParsePushed(q, LastNode(q)))

ParseRoot(p, ref) ==
  Then(ParseNodeList(PutId(p, ref, "list"), ref), LAMBDA q : IF On(q, "Eof") THEN q ELSE Fail(q))
Parse(toks) == Then(PushNode(Parser(toks)), LAMBDA p : ParseRoot(p, LastNode(p)))
=============================================================================
