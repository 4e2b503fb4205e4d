SPECIFICATION Spec
CONSTANTS
  Template <- Catalogue
  MinGrain <- Grains
  Half = 64
  maxAmount = 15
  maxQuantity = 4
  maxLinesPerRequest = 2
  Inputs <- Orders
  KindOrder <- Alphabet
  None = None
INVARIANTS
  PlanAsAsked
  ReplayAskedTheSame
  RetryIsReplayed
