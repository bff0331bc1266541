\* Flushes, commits and crashes, in any order.
SPECIFICATION Spec
CONSTANTS
    MaxState = 3
    MaxIndex = 3
INVARIANTS
    OpenFilesCurrent
    Recoverable
PROPERTIES
    CommittedFilesStay
    ImplementsDurable
