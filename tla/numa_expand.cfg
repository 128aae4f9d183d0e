CONSTANTS
    Absent = Absent
    Inputs <- AllInputs
SPECIFICATION Spec
INVARIANTS
    TypeOK
    SmpSummary
    CpuRangesPartition
    MemSummary
    DimmSlotsCount
    DiesUniform
    FabricAddressing
    
PROPERTIES
    Refines
