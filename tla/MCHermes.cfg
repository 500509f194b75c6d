SPECIFICATION FairSession
CONSTANTS
    MaxTurn = 4
    Cadence = 2
    Library = {"persona", "protocol"}
    MaxWrite = 1
INVARIANTS
    SessionTypeOK
    SilenceBounded
PROPERTIES
    ServedInOrder
    JoinedIsCurrent
    QuietNudgeIsTrue
    CloseSparesWrites
    HostNeverHangs
CONSTRAINT FewRecalls
CHECK_DEADLOCK FALSE
