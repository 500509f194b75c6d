SPECIFICATION Spec
CONSTANTS
    Key = {endpoint}
    ApiKey = apikey
    OtherLine = {other}
INVARIANTS
    FinishedIsComplete
    KeysStayUnique
    BackupIsPristine
PROPERTIES
    UserLinesSurvive
CHECK_DEADLOCK FALSE
