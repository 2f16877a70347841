SPECIFICATION Spec
CONSTANTS
    h1 = h1
    h2 = h2
    Handlers = {h1, h2}
    Mode = "opnsense"
    Configured = TRUE
    Kinds = {"block_ip"}
    MaxActions = 1
    MaxCrashes = 0
    MaxAsked = 2
INVARIANT RejectedNeverExecuted
