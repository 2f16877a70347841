SPECIFICATION Spec
CONSTANTS
    AddressKind <- MCAddressKind
    AssetType <- MCAssetType
    CriticalAssets = {"gw"}
    IOCs = {"ioc"}
    Vol <- MCVol
    Feeds <- MCFeeds
    Window = 1
    Slots <- MCSlots
    MaxEvents = 4
    MaxChanges = 2
    MaxNow = 2
    Plans <- MCPlans
    Markers <- MCMarkers
    Request <- MCRequest
    Answers = {404}
    Burst = 2
INVARIANTS NoiseStaysLow EveryTargetIsAsked TwinsNeedCause PositiveNeedsHistory
PROPERTY GradesAreSound
CHECK_DEADLOCK FALSE
