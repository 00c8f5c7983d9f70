CONSTANTS
  Decls <- MCDecls
  Instrs <- MCInstrs
  Frames <- MCFrames
  Files <- MCFiles
  MaxDecls = 2
SPECIFICATION Spec
CHECK_DEADLOCK FALSE
INVARIANTS RoundTrip InPlace Emitted
PROPERTY DefinedStays
