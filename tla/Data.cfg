SPECIFICATION Spec
CONSTANTS
    MessageFiles <- MCMessages
    ServiceFiles <- MCServices
    ActionFiles <- MCActions
    StandardPackages <- MCStandard
    StagnationLimit = 2
    MAX_ITERATIONS = 9
    Infinite = 1000
    MaxSeconds = 900
    Policies = {2, 128}
    Counts = {1, 65535}
    MaxEvents = 1000000
    MaxEventOps = 6
    Structs = {"a", "b"}
    MaxBlocks = 9
    MaxNodes = 3
    NONE = NONE
    Callbacks = {c1, c2}
    Kinds = {"subscription", "service"}
    MayClear = TRUE
    MaxItems = 2
CHECK_DEADLOCK FALSE
INVARIANTS QosFaithful NamesFaithful WireAgrees TypesAgree SourcesRead BindingsAgree GeneratorSound DiscoverySound EventsSound ContextsSound OptionsFreed NothingForgotten DataCurrent
