SPECIFICATION Spec
CONSTANTS
    m1 = m1
    m2 = m2
    m3 = m3
    b1 = b1
    b2 = b2
    r1 = r1
    r2 = r2
    f1 = f1
    f2 = f2
    source = source
    target = target
    Builds <- Embedded
    Databases = {source, target}
    Source = source
    Migrators = {m1, m2, m3}
    Backups = {b1, b2}
    Restores = {r1, r2}
    Paths = {x1}
    Facts = {f1, f2}
    Casts <- Meetings
    Damage = Damage
    None = None
INVARIANTS
    TypeOK
    RestoredIsOneMoment
    ActivityIsProjection
    MigrationsAreSerial
PROPERTIES
    PublishedIsWhole
    NothingIsOverwritten
CHECK_DEADLOCK FALSE
