SPECIFICATION Spec
CONSTANTS
    t1 = t1
    t2 = t2
    Tasks = {t1, t2}
    Fingerprints = {"fpA"}
    Backend = "postgres"
    LLMEnabled = TRUE
    NotifyWebhook = TRUE
    Incoming = {1, 3, 4}
    Window = 1
    MaxEvents = 3
    MaxNow = 2
    MaxCrashes = 1
INVARIANT CountMatchesEvidence
INVARIANT SeverityMatchesEvidence
INVARIANT HighHasOneIncident
INVARIANT NotifiedOnce
PROPERTY ClosedStaysQuiet
SYMMETRY TaskSymmetry
CHECK_DEADLOCK FALSE
