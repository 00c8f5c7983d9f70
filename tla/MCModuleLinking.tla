--------------------------- MODULE MCModuleLinking ---------------------------
(***************************************************************************)
(* Three modules over two symbols.  m1 consumes: its sources may hold an   *)
(* extern of f without a library, one with the library "c", or a           *)
(* definition of its own.  m2 exports f and g and hides a second g.  m3 is *)
(* a module named "c", as in the override_libc test, made by another       *)
(* compiler.                                                               *)
(***************************************************************************)
EXTENDS ModuleLinking

CONSTANTS m1, m2, m3, c1, c2, f, g, na, nb, nc

MCMods == {m1, m2, m3}
MCNames == {na, nb, nc}
MCNameOf == [m \in MCMods |-> CASE m = m1 -> na [] m = m2 -> nb [] OTHER -> nc]
MCCompilerOf == [m \in MCMods |-> IF m = m3 THEN c2 ELSE c1]

Extern(s, lib) ==
  [name |-> s, kind |-> "extern", vis |-> "unknown", lib |-> lib, refs |-> {}]
Def(s, vis) ==
  [name |-> s, kind |-> "def", vis |-> vis, lib |-> NoName, refs |-> {}]

MCDecls ==
  [m \in MCMods |->
     CASE m = m1 -> {Extern(f, NoName), Extern(f, nc), Def(f, "default")}
       [] m = m2 -> {Def(f, "default"), Def(g, "default"), Def(g, "hidden")}
       [] OTHER  -> {Def(f, "default")}]
=============================================================================
