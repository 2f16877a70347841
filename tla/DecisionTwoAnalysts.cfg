SPECIFICATION Spec
CONSTANTS
    h1 = h1
    h2 = h2
    Handlers = {h1, h2}
    Mode = "opnsense"
    Configured = TRUE
    Kinds = {"block_ip", "isolate_host"}
    MaxActions = 3
    MaxCrashes = 1
    MaxAsked = 2
INVARIANT EffectPerApproval
INVARIANT ExecutedOnce
INVARIANT EffectIsAudited
INVARIANT OneLivePerKind
PROPERTY DecisionIsFinal
