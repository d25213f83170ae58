SPECIFICATION Spec
CONSTANTS
  Words <- MCWords
  Dotted <- MCDotted
  IntBound = 16
  Scale = 2
  Significand = 7
  Spacings <- MCSpacings
  Calls <- MCCalls
  Pool <- MCPool
  Others <- MCOthers
  Probes <- MCProbes
  Fields = {"a", "b", "n"}
  MaxWrites = 2
  MaxStages = 2
  Value <- MCValue
  Holds <- MCHolds
  LookupPipeline <- MCLookupPipeline
  Variables <- MCVariables
  Substituted <- MCSubstituted
  SizeOf <- MCSizeOf
INVARIANTS
  TypeOK
  RetriedUpsertInsertsOnce
  IncsCancel
  FilterAgreesWithExpr
  SortIsWeakOrder
  GroupsPartition
  AccumulatorsAgree
  UnwindThenGroup
  ProjectionsAgree
  JoinIsSymmetric
  LookupFormsAgree
  ContainersAgree
  BranchesAgree
PROPERTIES
  NoFieldTwice
  IdsStay
