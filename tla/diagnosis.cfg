\* Scaled-down pacing and benchmark windows; times in ticks of 0.1 ms.
SPECIFICATION Spec
CONSTANTS
    WINDOW = 4
    INITIAL_WARMUP_SAMPLES = 1
    POST_WARMUP_MIN_SAMPLES = 2
    PROMOTION_MIN_SAMPLES = 3
    CANDIDATE_MAX_SAMPLES = 5
    MAX_CONSECUTIVE_SKIPS = 1
    MAX_CLEAN_FRAMES = 2
    STALE_CANDIDATE = 1500
    DWM_PID = 40
    RESOLVED_DWM_PID = 40
    SCANNER_PID = 50
    DWM_DEDUP_SLOTS = 1
    VBLANK = 167
    PRESENT_THRESHOLD = 167
    MAX_TIMELINE_POINTS = 2
    FRAME_CAPACITY = 2
    FALLBACK_MIN_SAMPLES = 2
    FALLBACK_WINDOW_SIZE = 3
    TOP_N = 1
    GAME = 20
    PEER = 30
    PRE = 600
    GPU_PRE = 900
    POST = 60
    RETENTION = 1000
    STALL = 4
    SPELL = 60
    MINOR = 3
    MAJOR = 40
    Scenarios <- MCScenarios
INVARIANTS PacingConsistent AdaptsToCadence FramesOfTarget IncidentsCounted DiagnosisMatchesWorld
CHECK_DEADLOCK FALSE
