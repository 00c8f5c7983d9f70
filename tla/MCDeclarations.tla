--------------------------- MODULE MCDeclarations ---------------------------
(***************************************************************************)
(* Two files and two compilers.  `main` has every sequence of up to three  *)
(* of the statements below, `lib` a few texts, one of which imports main;  *)
(* lib may be missing at first.                                            *)
(***************************************************************************)
EXTENDS Declarations

CONSTANTS va, vb, vp, vm, main, lib, k1, k2

MainStatements ==
  {Const(va, Lit(1)), Const(vb, Id(va)), Const(vp, Proc(<<Show(Id(vb))>>)),
   Export(vp, Proc(<<CallOf(Import(lib)), Show(Id(va))>>)), Const(vm, Import(lib)), Export(vm, Import(lib)),
   Show(Id(vb)), CallOf(Id(vp)), Show(Member(Id(vm), vb)), RunNow(<<CallOf(Id(vp))>>),
   Scope(<<Const(va, Lit(2)), Show(Id(vb)), CallOf(Id(vp))>>)}
MainTexts ==
  {<<i>> : i \in MainStatements} \cup {<<i, j>> : i \in MainStatements, j \in MainStatements}
  \cup {t \in {<<i, j, l>> : i \in MainStatements, j \in MainStatements, l \in MainStatements} : IsInjective(t)}
LibTexts == {<<Const(va, Lit(3)), Const(vb, Id(va)), Export(vp, Proc(<<Show(Id(vb))>>))>>,
             <<Const(vb, Import(main)), RunNow(<<CallOf(Id(vb))>>)>>,
             None}

CompilersAlike == Permutations({k1, k2})

MCTexts == {[f \in {main, lib} |-> IF f = main THEN t ELSE l] : t \in MainTexts, l \in LibTexts}
=============================================================================
