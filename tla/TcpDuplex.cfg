CONSTANTS
  Scripts <- MCScripts
  HeaderLength = 2
  LengthField = 2
  MaxPackage = 5
  Limit = 2
SPECIFICATION Spec
INVARIANTS
  TypeOK
  InStep
  AnswerHasOwner
PROPERTIES
  ImplementsAnswerContract
CHECK_DEADLOCK FALSE
