SPECIFICATION Evidence
CONSTANTS
    Subjects = {"chain", "history", "profile", "detection", "sample", "layout", "selection", "identity", "luna", "monitoring"}
    AddressSpace = 20
    MaxReadWords = 3
    MaxPlanWords = 20
    SignatureFirst = 90
    SignatureSecond = 91
    EndModel = 99
    Revisions = {"v1"}
    StructuralFits <- MCStructural
    None = None
    CommonModel = 1
    CommonLengths = {1}
    InverterModels = {103}
    InverterLength = 2
    ScaleWords = {2}
    DeferredModels = {160}
    MaxPhaseOneWords = 16
    PhaseOneBase = 2
    RepeatedModel = 160
    RepeatHead = 1
    RepeatWords = 1
    CountWord = 2
    ThreePhaseKeys <- MCThreePhase
    Unreadable = 9
    Flavors <- MCFlavors
    FroniusFirmware <- MCFirmware
    CardRevision = "v1"
    CardPlan <- MCCardPlan
    CardFlavor = 2
    CardProvenances = {"unit1"}
    PlanSpecs <- MCPlanSpecs
    Headers <- MCHeaders
    Contents = {1, 2, 9}
    SourcesOfViews <- MCSources
    Plain <- MCPlain
    Registries <- MCRegistries
INVARIANTS
    RestartIsHistory
    ChainIsExact
    ProfileIsSound
    SampleIsFaithful
    ReadingIsExact
    SelectionIsJustified
    IdentityIsJustified
    LunaIsFenced
    MonitoringIsLastAnswer
PROPERTIES
    WalkSpec
    WalkEnds
CHECK_DEADLOCK FALSE
