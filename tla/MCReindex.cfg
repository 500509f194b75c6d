SPECIFICATION ReindexSpec
CONSTANTS
    Tenant = {t1}
    Namespace = {n1}
    Title = {upd}
    UpdateTitle = {upd}
    Body = {b1, b2}
    Record = {r1, r2}
    OutboxId <- MCOutboxId
    NoRow = NoRow
    Overlap = TRUE
    BatchLimit = 1
    MaxAttempts = 1
    Poison = {}
    CanPark = FALSE
    ImportStatus = {"active", "forgotten"}
SYMMETRY Symmetry
INVARIANTS
    ReindexTypeOK
    RebuildIsComplete
    QuietRebuildIsClean
    DedupUnique
