SPECIFICATION Spec
INVARIANTS
    TypeOK
    CarrierIsHeld
    WiresAreTrue
    RadioIsAsTold
    
    OversAreWhole
    
PROPERTIES
    TuningIsCareful
    StepsAreCareful
\* The bounded parts stop.
CHECK_DEADLOCK FALSE
CONSTANTS
    NoImage = NoImage
    StationRuns = {"wire", "dock_line", "dock", "uvk5", "tuner", "store", "fm", "rssi", "kiss", "link", "kv4p", "gate", "config", "chirp", "events", "ledger", "taps", "doctor", "shutdown", "scan", "presets", "dtmf", "multimon", "station_id", "mumble", "dstar_link", "dstar_over", "dsrp", "gateway", "dvap", "dongle", "decoder", "vocoder"}
    WireCallers = {"a", "b"}
    WireRepairers = {"r"}
    WireRegisters = {"rssi", "agc"}
    WireMaxHandles = 3
    WireMaxAsked = 3
    WireFaults = {"unplug", "reply_lost"}
    DockLineMaxPayload = 2
    DockLineMaxFrames = 2
    DockLineMaxDamage = 2
    DockByte = 8
    DockChunk = 2
    DockTones = {3}
    DockRaster = 3
    DockMaxList = 4
    DockNames <- Messages
    Uvk5Freqs = {"f1", "f2"}
    Uvk5KeyAttempts = 3
    Uvk5Retunes = 2
    Uvk5MaxFaults = 3
    Uvk5ChipFaults = {"reads_fail", "key_lost", "retune_lost", "card"}
    TunerFreqs = {"f1", "f2"}
    TunerTones = {"o1"}
    TunerRoutes = {"r1"}
    TunerMaxFaults = 2
    TunerDockFaults = {"lost", "store_fails", "knob", "power", "fm", "held"}
    StoreImages = {"a1", "a2", "b1"}
    StoreBands = {"A", "B"}
    StoreBandOf <- Band
    StoreHelloAttempts = 2
    StoreMaxJobs = 2
    StoreMaxFaults = 2
    StoreFaults = {"lost", "power", "locked"}
    FmBridges = {"b1", "b2"}
    FmRoutes = {"r1"}
    FmPollers = {"p1", "p2"}
    FmMaxFaults = 2
    FmLateAnswers = FALSE
    RssiKeyers = {"k1"}
    RssiStale = 2
    RssiLevels = {0, 1}
    RssiStalls = {"poller", "drain"}
    RssiMaxPolls = 3
    RssiMaxTime = 4
    KissMaxFrame = 3
    KissMaxStream = 6
    LinkWindow = 4
    LinkHelloWindow = 4
    LinkMaxSequence = 4
    LinkMaxReports = 3
    LinkFaults = {"none", "resets", "write_fails"}
    KvThreads = {"talker"}
    KvMaxUnits = 5
    KvMaxBuffer = 3
    KvMaxKeyings = 2
    KvLeadUnits = 3
    KvRadioFaults = {"none", "no_key", "unapplied", "starved"}
    GateOnLevel = 2
    GateOffLevel = 1
    GateHang = 2
    GateLevels = {0, 1, 2}
    GateMaxFrames = 4
    GateMaxTime = 3
    GateMaxFaults = 1
    ConfigBackends = {"mock", "kv4p", "uvk5"}
    ConfigBlocks = {"kv4p", "uvk5"}
    ConfigRequired = {"uvk5"}
    ConfigDeclared = {"kv4p", "uvk5"}
    ConfigValues = {"v", "w"}
    ConfigThreads = {"t1", "t2"}
    ConfigMaxRequests = 4
    ConfigStoreFaults = {}
    ChirpLists <- Exports
    ChirpFiles <- Presets
    ChirpMaxImports = 1
    ChirpMaxCrashes = 1
    EventsClients = {"c1"}
    EventsDrains = {"ledger"}
    EventsRoutes = {"r1"}
    EventsQueueSize = 3
    EventsMaxChanges = 3
    EventsMaxDeaths = 1
    LogQueueSize = 2
    LogKeyers = {"post"}
    LogMaxEvents = 4
    LogMaxTime = 2
    LogDiskFaults = {"full", "hung"}
    TapsListeners = {"l"}
    TapsQueueSize = 2
    TapsMaxSeconds = 1
    TapsMaxFrames = 4
    TapsMaxTime = 2
    TapsMaxTx = 1
    TapsMaxFaults = 1
    TapsTapFaults = {"open_fails", "write_fails"}
    DocFirmwares = {"dock", "classic_dock", "stock", "kiss", "pre_kiss", "dead"}
    DocMaxReads = 2
    DoctorFaults = {"unread", "force_unsure", "unseen"}
    ExitParts = {"dstar", "mumble"}
    ExitDemanders = {"dstar", "mumble", "controller", "socket"}
    ExitKeyers = {"dstar", "mumble", "web"}
    ExitWedges = {"codec_close", "close"}
    ExitStepFaults = {"dvap", "scan", "decoder"}
    HopChannels <- Memory
    HopLockout = {"f2"}
    HopPriority = "none"
    HopMode = "carrier"
    HopSettle = 1
    HopDwell = 2
    HopTasks = {"t1", "t2"}
    HopMaxMoves = 3
    TuneTables <- ThreePresets
    TuneScanned = {1, 2}
    TuneCaps = {"split", "tone", "power"}
    TuneAppliers = {"j1"}
    TuneInBand = {1, 2, 3, 5}
    TuneMaxRequests = 4
    PadKeys = {"5", "9", "#", "*"}
    KeysMode = "native"
    KeysOnset = 1
    KeysRelease = 1
    KeysWindow = 1
    KeysTimeout = 3
    KeysGap = 1
    KeysMaxKeys = 4
    KeysMaxBlocks = 8
    PipeQueueSize = 2
    PipeMaxProcs = 3
    PipeMaxWrites = 5
    PipeFaults = {"dies", "stalls"}
    IdentInterval = 2
    IdentMaxTime = 6
    IdentMaxOvers = 4
    IdentMaxFaults = 2
    IdentIdFaults = {"ptt_fails", "content_fails"}
    MumbleEntries = {"e1", "e2"}
    MumbleAutoconnect = "e1"
    MumbleRequests = {"r1", "r2"}
    MumbleMaxBridges = 4
    MumbleMaxDrops = 2
    MumbleLinkFaults = {"refused"}
    Reflectors = {"x", "y"}
    ReflRequests = {"r1", "r2"}
    ReflMaxCalls = 4
    ReflMaxOvers = 2
    ReflLinkFaults = {"no_dongle", "start_fails"}
    RelayStreams = {"s", "t"}
    RelayQueueSize = 2
    RelayMaxFrames = 3
    RelayMaxFeeds = 2
    RelayDstarFaults = {"undecodable", "refused"}
    DsrpLong = 3
    DsrpCalls <- OneCall
    DsrpModules = {2}
    DsrpDests <- TwoDests
    DsrpSeqMax = 2
    DsrpIds = 3
    DsrpMaxOvers = 2
    DsrpMaxFrames = 3
    DsrpMaxWire = 2
    DsrpMaxDamage = 2
    DsrpWireFaults = {"lost", "cut", "damaged"}
    GatewayInterval = 2
    GatewayMaxInFlight = 1
    GatewayMaxStarts = 2
    GatewayClientFaults = {"sink_raises", "port_taken"}
    DvapModules <- Panel
    DvapReflectors = {"r1", "r2"}
    DvapRetries = 1
    DvapMaxJobs = 3
    DvapMaxFaults = 2
    DvapNetFaults = {"lost", "restart"}
    DongleAttempts = 2
    DongleMaxAsked = 3
    DongleMaxGen = 4
    DongleFaults = {"sleeps", "port_taken", "reader_dies"}
    DecoderDepth = 1
    DecoderLatency = 2
    DecoderMaxFrames = 4
    DecoderMaxOvers = 2
    DecoderChipFaults = {"starves"}
    FramesByte = 4
    FramesVoice = 1
    FramesAudio = 3
    FramesMaxPackets = 2
    FramesGlitches = 1
