SPECIFICATION Spec
CONSTANTS
    Lots = 4
    Entry = 10
    StopDist = 2
    Lists <- MCLists
    Columns <- MCColumns
    MaxEdits = 2
    MaxFaults = 1
    SizeStep = 3
INVARIANTS
    TypeOK
    PlanCovers
    DamageIsLocal
CHECK_DEADLOCK FALSE
