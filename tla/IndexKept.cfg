\* One sync told to keep what is not declared.
SPECIFICATION Spec
CONSTANTS
    Ids = {1, 2, 3}
    Fields = {"a", "b"}
    Collections = {"tasks"}
    Stores <- OneStore
    Syncs = {"s1"}
    Keeping = {"s1"}
    DryRuns = {}
    Preexisting <- LegacyOnly
    Stored <- MCStored
    Inserts <- MCInserts
    Updates <- MCUpdates
    Deletes <- MCDeletes
    MaxWrites = 0
PROPERTIES
    KeepsUndeclared
CHECK_DEADLOCK FALSE
