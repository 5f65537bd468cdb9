\* Every exported operation, one subscription whose channels fill up, and
\* more progress reports than the throttle lets through.
CONSTANTS
    MaxJobs = 2
    MaxGraveyard = 1
    Subscribers = {s1}
    ChanCap = 1
    MaxUpdates = 2
    API = {"Add", "Start", "CancelJob", "CancelAll", "Stop"}
    s1 = s1
SPECIFICATION Spec
CONSTRAINT FewReports
INVARIANTS LastProgressPending
PROPERTIES DepartureAnnounced
\* The manager idles when the clients have stopped calling.
CHECK_DEADLOCK FALSE
