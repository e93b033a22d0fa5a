SPECIFICATION Spec
CONSTANTS
    Threshold = 2
    MaxApi = 2
    ApiBase = 3
    ApiCap = 3
    MaxStuck = 2
    StuckBase = 2
    Window = 4
    QuietGrace = 2
    Confirm = 2
    MayAbort = TRUE
    MayLose = TRUE
    MaxTime = 8
INVARIANTS TypeOK ApiRestartsCapped ApiRestartsSpaced StuckRestartsCapped
PROPERTIES WarmUpIsUnbroken
