SPECIFICATION Spec
CONSTANTS
    Tenant = {t1, t2}
    Namespace = {n1}
    Title = {upd, app}
    UpdateTitle = {upd}
    Body = {b1, b2}
    Record = {r1, r2, r3}
    OutboxId <- MCOutboxId
    NoRow = NoRow
    Overlap = TRUE
    Session = {s1, s2}
SYMMETRY Symmetry
CONSTRAINT OneMode
INVARIANTS
    TypeOK
    OutboxMatchesStatus
    DedupUnique
PROPERTIES
    OneWayStatus
    StoreSpec
    ConflictMeansStored
    FoundIsSuperseded
