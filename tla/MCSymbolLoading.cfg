CONSTANTS
  mod0 = mod0
  mod1 = mod1
  c1 = c1
  foo = foo
  bar = bar
  baz = baz
  printf = printf
  n0 = n0
  n1 = n1
  libc = libc
  libcso = libcso
  Scenario = "load"
  NoName = NoName
  Absent = Absent
  Null = Null
  Mods <- MCMods
  Compilers = {c1}
  Syms = {foo, bar, printf}
  Names <- MCNames
  NameOf <- MCNameOf
  CompilerOf <- MCCompilerOf
  Decls <- MCDecls
  Aliases <- MCAliases
  LibSyms <- MCLibSyms
  MaxSyms = 3
  MaxLinks = 1
SPECIFICATION Spec
CHECK_DEADLOCK FALSE
CONSTRAINTS
  InSourceOrder
  NoSelfLink
INVARIANTS
  OneDefinition
  LoadedIsDefined
  AddressFromProvider
PROPERTIES
  AnswersStable
  FirstFailureJustified
