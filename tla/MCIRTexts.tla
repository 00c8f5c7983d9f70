------------------------------ MODULE MCIRTexts ------------------------------
(***************************************************************************)
(* Pieces of texts: every form of a declaration and of an instruction, with*)
(* the strings, counts, labels and relocations that are hard to print.     *)
(***************************************************************************)
EXTENDS IREmission

K(id) == <<Tok(id)>>
I(n) == <<Val("Int", n)>>
Name(id, base) == <<Val(id, <<base>>)>>
G(base) == Name("$", base)
L(base) == Name("%", base)
At(base) == Name("@", base)
S(codes) == <<Val("Quoted", codes)>>
T(type) == Toks(<<":", type>>)
To(base) == K("->") \o T("i64") \o L(base)

Bytes(count) == K("[") \o I(count) \o Toks(<<"]", "i8">>)
Pair == Toks(<<":", "{", "i32", ",", "i64", "}">>)

MCDecls == <<
  K("data") \o G("d") \o I(5),
  K("data") \o G("d") \o T("f64"),
  Toks(<<"pub", "const">>) \o G("d") \o Pair \o K("{") \o I(1) \o K(",") \o G("f") \o K("}"),
  K("const") \o G("s") \o S(<<97, 92, 110>>),
  K("const") \o G("s") \o S(<<92, 48>>),
  K("const") \o G("s") \o S(<<92, 120>>),
  K("const") \o G("s") \o S(<<7>>),
  K("data") \o G("b") \o Toks(<<":", "{">>) \o Bytes(2) \o K(",") \o Toks(<<"i8", "}", "{">>) \o S(<<97>>) \o S(<<>>) \o K("}"),
  K("data") \o G("b") \o Toks(<<":", "{">>) \o Bytes(2) \o Toks(<<"}", "{", "[">>) \o I(1) \o K(",") \o I(2) \o Toks(<<"]", "}">>),
  K("data") \o G("b") \o Toks(<<":", "{", "[">>) \o I(2) \o Toks(<<"]", "i64", "}", "{", "[">>) \o G("f") \o K(",") \o I(2) \o Toks(<<"]", "}">>),
  K("data") \o G("b") \o Toks(<<":", "{", "{">>) \o Bytes(8) \o Toks(<<"}", "}", "{">>) \o G("f") \o K("}"),
  K("data") \o G("z") \o Toks(<<":", "{", "[">>) \o I(0) \o Toks(<<"]", "i64", "}">>),
  K("data") \o G("z") \o Toks(<<":", "{", "}", "{", "}">>),
  K("type") \o Name("Id", "t") \o Pair,
  K("local") \o K("data") \o G("d") \o K(":") \o Name("Id", "t") \o K("{") \o I(1) \o K(",") \o I(2) \o K("}"),
  K("extern") \o S(<<99>>) \o K("proc") \o G("f") \o Toks(<<"(", ":", "i64", ",", "...", ")", ":", "void">>),
  K("extern") \o S(<<9>>) \o K("data") \o G("f") \o T("i64"),
  K("extern") \o G("f"),
  K("include") \o S(<<108>>),
  K("include") \o S(<<98>>),
  K("include") \o S(<<120>>),
  K("proc") \o G("f") \o Toks(<<"(", ")", "{", "Newline">>) \o K("call") \o G("f") \o Toks(<<",", "(">>) \o S(<<97>>)
    \o Toks(<<")", "Newline">>) \o K("ret") \o S(<<97>>) \o Toks(<<"Newline", "}">>)
>>

NL == K("Newline")
ProcParams == K("(") \o T("i64") \o L("p") \o K(",") \o Pair \o L("q") \o K(")")
Open == Toks(<<"{", "Newline">>)
Close == Toks(<<"}", "Newline">>)
Ret1 == K("ret") \o I(1) \o NL

MCFrames == <<
  [open |-> K("proc") \o G("m") \o ProcParams \o T("i64") \o Open, close |-> Close, room |-> 3],
  [open |-> Toks(<<"pub", "proc">>) \o G("m") \o Toks(<<"(", ")">>) \o Pair \o L("r") \o Open, close |-> K("ret") \o NL \o Close,
   room |-> 2],
  [open |-> K("proc") \o G("m") \o ProcParams \o T("i64") \o Open
            \o K("alloc") \o T("i64") \o K("->") \o L("y") \o NL \o K("jmp") \o At("a") \o NL \o At("a") \o NL,
   close |-> Ret1 \o Close, room |-> 3]
>>

MCInstrs == <<
  At("a"), <<Val("@", <<"a", 1>>)>>,
  K("comment") \o S(<<97>>),
  K("jmp") \o At("a"),
  K("jmpz") \o L("p") \o Toks(<<",", "@+">>) \o I(1),
  K("jmpnz") \o T("i64") \o L("x") \o Toks(<<",", "@-">>) \o I(2),
  K("mov") \o L("q") \o To("x"),
  K("cast") \o <<Val("Float", 1)>> \o To("x"),
  K("mov") \o L("r") \o To("r"),
  K("sub") \o L("p") \o K(",") \o I(1) \o K("->") \o L("x"),
  K("div") \o T("u64") \o I(4) \o K(",") \o I(2) \o K("->") \o L("z"),
  K("rsh") \o L("q") \o K(",") \o G("f") \o K("->") \o L("x"),
  Toks(<<"cmp", "lt">>) \o L("p") \o K(",") \o I(2) \o K("->") \o L("z"),
  K("call") \o G("f") \o Toks(<<",", "(">>) \o S(<<97>>) \o Toks(<<",", "...", ",">>) \o L("p") \o K(")"),
  K("call") \o G("f") \o Toks(<<",", "(", ")", "->">>) \o T("i64"),
  K("call") \o L("p") \o Toks(<<",", "(", ")", "->">>) \o Pair \o L("y"),
  K("store") \o I(1) \o K("->") \o L("r"),
  K("load") \o L("q") \o K("->") \o T("f64") \o L("z"),
  K("load") \o T("i64") \o L("p") \o To("p"),
  K("alloc") \o Toks(<<":", "{", "[">>) \o I(0) \o Toks(<<"]", "i64", "}">>) \o To("x"),
  K("ret"), K("ret") \o T("i64") \o L("x"),
  K("store") \o Pair \o K("{") \o I(1) \o K(",") \o I(2) \o K("}") \o K("->") \o T("i64") \o L("y"),
  K("nop"), K("cmp")
>>

(* "l" defines a type and two symbols; "b" fails after its first symbol.     *)
MCFiles == [name \in {<<108>>, <<98>>} |->
  IF name = <<108>>
  THEN K("data") \o G("l") \o Pair \o K("Newline") \o K("type") \o Name("Id", "t") \o Toks(<<":", "{", "i64", ",", "i64", "}", "Newline">>)
       \o K("const") \o G("k") \o S(<<92, 34>>) \o K("Newline")
  ELSE K("data") \o G("l") \o I(1) \o K("Newline") \o K("data") \o G("k") \o Toks(<<"}", "Newline">>)]
Spec == IRInit /\ [][IRNext]_irVars
=============================================================================
