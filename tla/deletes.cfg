SPECIFICATION Spec
CONSTANTS
    a = a
    p = p
    q = q
    i = i
    Rows = {a, p, q, i}
    NoRow = NoRow
    EntityOf <- Entity
    Entities = {"Author", "Post", "Image"}
    Relations = {"author", "next", "image", "credit"}
    Position <- PositionOf
    Owner <- OwnerOf
    Target <- TargetOf
    OrphanRemoval = {"image"}
    Schemas <- SomeSchemas
    Databases <- SomeDatabases
    Mutations <- SomeMutations
    MaxAttempts = 2
    MaxWrites = 1
INVARIANTS
    ReportIsExact
    RefusedForAReason
    ChangedAsPermitted
