\* The queue as the application uses it: nobody subscribes, Start and Stop
\* are not called.
CONSTANTS
    MaxJobs = 5
    MaxGraveyard = 2
    Subscribers = {}
    ChanCap = 1
    MaxUpdates = 0
    API = {"Add", "CancelJob", "CancelAll"}
    s1 = s1
SPECIFICATION Spec
INVARIANTS OneAtATime NoLostWakeup NoJobVanishes
PROPERTIES EveryJobLeaves ImplementsJobQueue
\* All jobs submitted and over: the dispatcher waits for ever.
CHECK_DEADLOCK FALSE
