SPECIFICATION Spec
CONSTANTS
    Capacity = 9
    Size = {2, 3, 5}
    Null = Null
INVARIANT StructureSound
PROPERTY ImplementsLog
CHECK_DEADLOCK FALSE
