\* Two syncs of one registry, one of which keeps what is not declared, with writes and a dry run.
SPECIFICATION Spec
CONSTANTS
    Ids = {1, 2, 3}
    Fields = {"a", "b"}
    Collections = {"tasks", "users"}
    Stores <- MCStores
    Syncs = {"s1", "s2", "s3"}
    Keeping = {"s2"}
    DryRuns = {"s3"}
    Preexisting <- MCPreexisting
    Stored <- MCStored
    Inserts <- MCInserts
    Updates <- MCUpdates
    Deletes <- MCDeletes
    MaxWrites = 2
INVARIANTS
    SyncInv
    SyncConverges
    FailsOnDuplicates
PROPERTIES
    HealthyStays
CHECK_DEADLOCK FALSE
