SPECIFICATION Spec
CONSTANTS
  Word32 = 2
  Word64 = 3
  Strings <- MCStrings
  Offsets = {0, 258}
  NoiseBytes = {0, 3, 101, 102, 255}
INVARIANTS
  TypeOK
  AnswersAreSeven
  AnswersAreUnderstood
  InStep
  RequestsAreUnderstood
