CONSTANTS
  m1 = m1
  m2 = m2
  m3 = m3
  c1 = c1
  c2 = c2
  f = f
  g = g
  na = na
  nb = nb
  nc = nc
  NoName = NoName
  Absent = Absent
  Mods <- MCMods
  Compilers = {c1, c2}
  Syms = {f, g}
  Names <- MCNames
  NameOf <- MCNameOf
  CompilerOf <- MCCompilerOf
  Decls <- MCDecls
  MaxSyms = 2
  MaxLinks = 1
SPECIFICATION LinkSpec
CHECK_DEADLOCK FALSE
INVARIANTS
  LinkTypeOK
  BindingJustified
  ExportsBound
PROPERTIES
  BindingsWrittenOnce
  RefusedWhenDefined
