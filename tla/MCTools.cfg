SPECIFICATION Spec
CONSTANTS
    t1 = t1
    t2 = t2
    r1 = r1
    r2 = r2
    Tenant = {t1, t2}
    Record = {r1, r2}
    Uuid <- MCUuid
    Segment <- MCSegment
    Component <- MCComponent
    Namespace <- MCNamespace
    Title <- MCTitle
    UpdateTitle <- MCUpdateTitle
    Body <- MCBody
    OutboxId <- MCOutboxId
    NoRow = NoRow
    Overlap = TRUE
    MaxAttempts = 1
    Request <- MCRequest
    Query <- MCQuery
    UriOrder <- MCUriOrder
    CreatedAt <- MCCreatedAt
INVARIANTS
    TypeOK
    AddressesLeadBack
    GuidedCallsAreStored
    OwnClientsAreStored
    RetractedIsNotServed
    ArmsAgreeOnSince
    BothArmsFirst
    DroppedHitsLeaveNoTrace
PROPERTIES
    UnconfirmedForgetSparesDurable
CHECK_DEADLOCK FALSE
VIEW Observed
CONSTRAINT NotAnswered
CONSTRAINT CreatedInOrder
