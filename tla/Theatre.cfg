CONSTANTS
    Device = {"old_psx", "airplay"}
    UserSource = {"tv"}
    MaxReports = 1
    MaxBytes = 2
SPECIFICATION TheatreSpec
INVARIANTS AirplayIsBelieved
PROPERTIES OffTakesOnlyItsOwn TelevisionFollowsReceiver
CHECK_DEADLOCK FALSE
