SPECIFICATION FairSpec
CONSTANTS
    s1 = s1
    s2 = s2
    p = p
    NoEvent = NoEvent
    Scans = {s1, s2}
    Events = {1, 2, 3, 4, 5, 6}
    ScanOf <- MixedScanOf
    Subject <- MixedSubject
    Workers = {p}
    MaxAckPending = 1
    Faults = {"metadata", "call", "reply", "retry", "reject", "ack"}
    Unready = {s2}
INVARIANT CreditMatchesOutcome
INVARIANT AckedIsVisible
PROPERTY OutcomeIsFinal
 
CHECK_DEADLOCK FALSE
