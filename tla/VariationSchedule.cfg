CONSTANTS
    Installments = {i1}
    Jobs = {j1, j2}
    Attempts = 2
    MaxDeaths = 1
    MaxVersions = 2
    MaxFigures = 1
SPECIFICATION Spec
INVARIANTS
    TypeOK
    InstructedRowsArePayable
    SubmissionsFormOneChain
    
    MailedFilesAreOnRecord
PROPERTIES
    KeepsRegister
    ReportsEnd
CHECK_DEADLOCK FALSE
