SPECIFICATION FairSpec
CONSTANTS
    t1 = t1
    Tasks = {t1}
    Fingerprints = {"fpA"}
    Backend = "postgres"
    LLMEnabled = TRUE
    NotifyWebhook = FALSE
    Incoming = {1}
    Window = 1
    MaxEvents = 2
    MaxNow = 0
    MaxCrashes = 0
PROPERTY EventSettles
CHECK_DEADLOCK FALSE
