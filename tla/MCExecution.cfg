CONSTANTS
  f = f
  g = g
  h = h
  d1 = d1
  d2 = d2
  a1 = a1
  a2 = a2
  int = int
  pair = pair
  None = None
  Procs <- MCProcs
  Data = {d1, d2}
  Ctxs = {a1, a2}
  CtxOf <- MCCtxOf
  Cdecl = {g, h}
  Params <- MCParams
  Relocs <- MCRelocs
  Translate <- TranslateProc
  Programs <- MCPrograms
  MaxDepth = 5
  MaxNodes = 4
  MaxOpen = 3
  MaxBits = 2
  ReturnInDefer = FALSE
SPECIFICATION Execution
INVARIANTS
  BalancedExit
  RunsWhole
  AddressesLive
  RunsAsWritten
  LabelsResolve
  ReturnFlagSound
  SlotsDisjoint
PROPERTIES
  RefinesCallStack
CHECK_DEADLOCK FALSE
