SPECIFICATION DictSpec
CONSTANTS
    Keys = {0, 1, 2, 4, 6}
    Width = 3
    InitialExp = 0
    ForceRatio = 3
    MinFill = 40
    EmptyVisits = 1
INVARIANTS
    FindsMembers
    ScanGivesAll
 
