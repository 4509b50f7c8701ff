SPECIFICATION Spec
CONSTANTS
  Sizes = {1, 2, 3, 5, 7}
  Networks = 3
  Addresses = 2
  PerNetwork = 2
  NumOfDomains = 4
  Sites = 4
  Servers = {1, 2}
  Items <- MCItems
  MaxItems = 4
INVARIANTS
  TypeOK
  NoneTwice
  NeverStuck
  ShortOnlyWhenExhausted
  OnlyAnswersDecide
