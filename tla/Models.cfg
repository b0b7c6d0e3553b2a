SPECIFICATION Spec
CONSTANTS
  WIDTH = 6
  BYTE = 2
  MAX_SPLIT_DEPTH = 3
  None = None
  Unbalanced = Unbalanced
  Broken = Broken
  NoSubset = NoSubset
  Basechains <- MCBasechains
  ValidatorSets <- MCValidatorSets
  SubsetSizes <- MCSubsetSizes
  NoValue = NoValue
  Messages <- MCMessages
INVARIANTS
  ShardsCoverAccounts
  ShardTreeIsExact
  SubsetIsWeighted
  MessageIsReadBack
