SPECIFICATION ReadersSpec
CONSTANTS
    RowsOf <- MCRowsOf
    MaxRows = 3
    Docs <- MCDocs
INVARIANTS
    EveryUsableRow
    RaisedByItsRow
    OperationsRecorded
    OwnParams
CHECK_DEADLOCK FALSE
