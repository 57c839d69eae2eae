CONSTANTS
    Samples = 6
    TargetFs = 20
    Levels = {1000, 2500, 7000}
    Settings = {"full_scale", "scale_model", "rc_demo", "typo"}
    Tuning <- MCTuning
    Null = Null
SPECIFICATION Spec
INVARIANTS TypeOK ScanIsExact CrashIsAgreed FiguresCountTheModel
CHECK_DEADLOCK FALSE
