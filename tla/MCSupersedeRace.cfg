SPECIFICATION Spec
CONSTANTS
    Tenant = {t1}
    Namespace = {n1}
    Title = {upd}
    UpdateTitle = {upd}
    Body = {b1, b2}
    Record = {r1, r2}
    OutboxId <- MCOutboxId
    NoRow = NoRow
    Overlap = TRUE
    Session = {s1, s2}
INVARIANTS
    OneActivePerSubject
