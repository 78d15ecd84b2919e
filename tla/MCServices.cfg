SPECIFICATION Spec
CONSTANTS
    Parts = {"queue", "timer", "rkp", "ni", "odcpi", "api"}
    Sender = {"a", "b"}
    MaxSent = 4
    Timer = {t1, t2}
    Delay = {1, 2}
    MaxStarts = 2
    MaxTime = 2
    MaxRkpRequests = 2
    VendorOutcomes = {"OK", "fail", "hang", "crash"}
    MaxNi = 2
    MaxOdcpiRequests = 3
    MaxOdcpiHandlers = 2
    MaxOdcpiRestarts = 1
    Client = {c1, c2}
    Callbacks <- CallbackChoices
    Libraries <- LibraryChoices
    MaxUpdates = 1
    MaxRequests = 1
    MaxBacklog = 0
INVARIANTS ServicesTypeOK QueueSafe DelegateAccounted WakeupPending
           RequestsEndClean ModemToldRightly OdcpiConsistent
           DeadAreForgotten ClientServed
PROPERTIES QueueProgress EndsOnce EveryTimerEnds EveryRequestEnds
           OdcpiIsAsked ClosingEnds
CHECK_DEADLOCK FALSE
