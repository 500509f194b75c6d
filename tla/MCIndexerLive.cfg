SPECIFICATION FairSpec
CONSTANTS
    Tenant = {t1}
    Namespace = {n1}
    Title = {upd}
    UpdateTitle = {upd}
    Body = {b1, b2}
    Record = {r1, r2}
    OutboxId <- MCOutboxId
    NoRow = NoRow
    Overlap = TRUE
    BatchLimit = 1
    MaxAttempts = 2
    Poison = {r1}
    CanPark = FALSE
PROPERTIES
    EveryRowProcessed
    IndexConverges
