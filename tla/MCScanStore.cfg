SPECIFICATION Spec
CONSTANTS
    login = login
    users = users
    httpx = httpx
    katana = katana
    unknown = unknown
    ok = ok
    missing = missing
    short = short
    Keys = {login, users}
    Sources = {httpx, katana}
    Statuses = {ok, missing}
    Lengths = {short}
    Params = {"q"}
    Digests = {"d"}
    Unknown = unknown
    MaxReports = 3
    MaxErrors = 1
SYMMETRY Symmetry
INVARIANTS
    NothingTwice
    RowsTellAll
    SignatureOfStatus
CHECK_DEADLOCK FALSE
