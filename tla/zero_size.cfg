CONSTANTS
    Absent = Absent
    Inputs <- ZeroInputs
SPECIFICATION Spec
INVARIANTS
    MemObjectsPositive
