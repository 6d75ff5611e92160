CONSTANTS
    Runs = {r1, r2, r3}
    Batches <- MCBatches
    ZipName <- MCZipName
    MaxIndex = 2
    MaxOthers = 1
    OtherNames <- MCOtherNames
    Absent = Absent
SYMMETRY Symmetry
SPECIFICATION Spec
CHECK_DEADLOCK FALSE
INVARIANTS
    TypeOK
    ReportIsTrue
    SignedPdfVerifies
PROPERTIES
    NothingIsLost
