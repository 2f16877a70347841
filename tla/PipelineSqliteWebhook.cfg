SPECIFICATION FairSpec
CONSTANTS
    t1 = t1
    t2 = t2
    Tasks = {t1, t2}
    Fingerprints = {"fpA"}
    Backend = "sqlite"
    LLMEnabled = FALSE
    NotifyWebhook = TRUE
    Incoming = {1, 4}
    Window = 1
    MaxEvents = 3
    MaxNow = 2
    MaxCrashes = 0
PROPERTY ImplementsStore
PROPERTY OpensOnlyWhenNoneMatches
PROPERTY EventSettles
PROPERTY AnalystAnswered
