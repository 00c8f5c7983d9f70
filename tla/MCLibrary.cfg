CONSTANTS
  b1 = b1
  b2 = b2
  q1 = q1
  q2 = q2
  q3 = q3
  q4 = q4
  q5 = q5
  s1 = s1
  s2 = s2
  s3 = s3
  s4 = s4
  Free = Free
  Empty = Empty
  Unknown = Unknown
  Blocks = {b1, b2}
  Size = 6
  Items = {1, 2}
  InitialCapacity = 2
  MaxFrames = 1
  Keys = {q1, q2, q3, q4, q5}
  Values = {1}
  MaxCapacity = 8
  HashFunctions <- MCHashFunctions
  Strings = {s1, s2, s3, s4}
  StringHashes <- MCStringHashes
  AtomHashes <- MCAtomHashes
  Reserved <- MCReserved
  FirstAtom = 3
  MaxAtom = 6
  WordSize = 8
  Numerics <- MCNumerics
  Counts = {1, 3}
  FieldNames <- MCFieldNames
  MaxTypes = 4
  Words <- MCWords
  MaxWords = 5
  InitialRoom = 2
SPECIFICATION Spec
INVARIANTS
  BlocksHold
  SetAgrees
  AtomsAgree
  TypesInterned
  LayoutsSound
  PartsReadBack
  TreeAsWritten
CHECK_DEADLOCK FALSE
