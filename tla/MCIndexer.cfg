SPECIFICATION Spec
CONSTANTS
    Tenant = {t1, t2}
    Namespace = {n1}
    Title = {upd}
    UpdateTitle = {upd}
    Body = {b1, b2}
    Record = {r1, r2}
    OutboxId <- MCOutboxId
    NoRow = NoRow
    Overlap = FALSE
    BatchLimit = 2
    MaxAttempts = 2
    Poison = {}
    CanPark = TRUE
SYMMETRY Symmetry
INVARIANTS
    TypeOK
    RetractionSticks
    NoSilentGap
    CapEndsRetries
PROPERTIES
    ProcessedIsFinal
    ImplementsIndex
