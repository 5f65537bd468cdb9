\* manager.go:268 is not what CancelAll does.
CONSTANTS
    MaxJobs = 3
    MaxGraveyard = 2
    Subscribers = {}
    ChanCap = 1
    MaxUpdates = 0
    API = {"Add", "CancelAll"}
    s1 = s1
SPECIFICATION Spec
PROPERTIES CancelAllCancelsAll
\* The manager idles when the clients have stopped calling.
CHECK_DEADLOCK FALSE
