SPECIFICATION OutageSpec
CONSTANTS
    Tenant = {t1}
    Namespace = {n1}
    Title = {app}
    UpdateTitle = {}
    Body = {b1}
    Record = {r1}
    OutboxId <- MCOutboxId
    NoRow = NoRow
    Overlap = FALSE
    BatchLimit = 2
    MaxAttempts = 2
    Poison = {}
    CanPark = FALSE
PROPERTIES
    OutageNotCharged
