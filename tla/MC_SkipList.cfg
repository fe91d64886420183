CONSTANTS
  Keys <- MC_Keys
  Targets <- MC_Targets
  MaxHeight = 3
  Readers = {r1}
  HeadNode = HeadNode
  Nil = Nil
  Undef = Undef

SPECIFICATION Spec

INVARIANTS
  TypeOK
  NoUninitializedRead
  ReadsMatchSnapshot
  ListWellFormed

PROPERTIES
  AbstractSpec
