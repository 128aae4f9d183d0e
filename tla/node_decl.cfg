CONSTANTS
    Absent = Absent
    Inputs <- DeclInputs
SPECIFICATION Spec
INVARIANTS
    NodesDeclaredOnce
