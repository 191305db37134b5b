CONSTANTS
    app = app
    group = group
    system = system
    number = number
    Torn = Torn
    None = None
    Documents <- Saved
    Mandatory = {"brokers", "logLevel"}
    AppId = AppId
    NotStrings = {number}
    Vetoed <- Unwanted
    MaxSaves = 3
SPECIFICATION FairSpec
INVARIANT MostSpecific
PROPERTY LastSaveApplied
CHECK_DEADLOCK FALSE
