CONSTANTS
  f = f
  g = g
  h = h
  d1 = d1
  d2 = d2
  a1 = a1
  a2 = a2
  int = int
  pair = pair
  None = None
  Procs <- MCProcs
  Data = {d1, d2}
  Ctxs = {a1, a2}
  CtxOf <- MCOneCtx
  Cdecl = {g, h}
  Params <- MCTwoTypes
  Relocs <- MCRelocs
  Translate <- TranslateProc
  Programs <- MCClosurePrograms
  MaxDepth = 5
  MaxNodes = 1
  MaxOpen = 1
  MaxBits = 1
  ReturnInDefer = FALSE
SPECIFICATION Execution
INVARIANTS
  ClosureTypesKept
CHECK_DEADLOCK FALSE
