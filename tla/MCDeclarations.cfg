CONSTANTS
  va = va
  vb = vb
  vp = vp
  vm = vm
  main = main
  lib = lib
  k1 = k1
  k2 = k2
  None = None
  Names = {va, vb, vp, vm}
  Files = {main, lib}
  Compilers = {k1, k2}
  Texts <- MCTexts
SYMMETRY CompilersAlike
SPECIFICATION Spec
INVARIANTS
  NamesBoundLexically
  CompiledOnce
  ExportsComplete
CHECK_DEADLOCK FALSE
