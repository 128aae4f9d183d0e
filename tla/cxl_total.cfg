CONSTANTS
    Absent = Absent
    Inputs <- MultiCxlInputs
SPECIFICATION Spec
INVARIANTS
    MemSummary
