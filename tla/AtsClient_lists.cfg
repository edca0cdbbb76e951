SPECIFICATION Spec
CONSTANTS
    Inputs <- MCInputs
    KindOf <- MCKindOf
    Groups <- MCGroups
    Comments <- MCComments
    DirOf <- MCDirOf
    MaxRun = 8
INVARIANTS TypeOK ListIsTree MergeInOrder RequestsFollowList PointsTakeTurns
