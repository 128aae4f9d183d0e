CONSTANTS
    Absent = Absent
    Inputs <- CxlInputs
SPECIFICATION Spec
INVARIANTS
    SlotsCount
