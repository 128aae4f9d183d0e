CONSTANTS
    Absent = Absent
    Inputs <- RootPortInputs
SPECIFICATION Spec
INVARIANTS
    DevicesSupported
