CONSTANTS
    Missing = Missing
    Nothing = Nothing
    NoBit = NoBit
    Files <- MCFiles
    sets <- MCsets
    Codecs <- MCCodecs
    Worlds <- MCWorlds
    Configurations <- MCConfigurations
    Updates <- MCUpdates
    LatencyModes <- MCLatencyModes
    Remotes <- MCRemotes
    Hints <- MCHints
    AseQueries <- MCAseQueries
    QosQueries <- MCQosQueries
    BroadcastQueries <- MCBroadcastQueries
SPECIFICATION Spec
INVARIANTS
    SessionFollowsProvider
    LowLatencyAgrees
    ConfigurationsAgree
    A2dpOfferRight
    LeCapabilitiesRight
    LeAnswersRight
CHECK_DEADLOCK FALSE
