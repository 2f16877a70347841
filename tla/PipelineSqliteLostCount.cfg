SPECIFICATION Spec
CONSTANTS
    t1 = t1
    t2 = t2
    Tasks = {t1, t2}
    Fingerprints = {"fpA"}
    Backend = "sqlite"
    LLMEnabled = TRUE
    NotifyWebhook = FALSE
    Incoming = {1}
    Window = 1
    MaxEvents = 3
    MaxNow = 0
    MaxCrashes = 0
INVARIANT CountMatchesEvidence
