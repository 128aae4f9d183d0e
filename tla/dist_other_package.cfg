CONSTANTS
    Absent = Absent
    DistInputs <- OtherLists
SPECIFICATION Spec
INVARIANT OtherPackageHonoured
