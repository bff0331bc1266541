\* A rejected state is the one that a restart opens.
SPECIFICATION RejectedSpec
CONSTANTS
    MaxState = 2
    MaxIndex = 2
INVARIANT
    Recoverable
