SPECIFICATION StoreSpec
CONSTANTS
    Tenant = {t1, t2}
    Namespace = {n1}
    Title = {app}
    UpdateTitle = {}
    Body = {b1}
    Record = {r1, r2}
    OutboxId <- MCOutboxId
    NoRow = NoRow
    Overlap = FALSE
INVARIANTS
    TenantScoped
CHECK_DEADLOCK FALSE
