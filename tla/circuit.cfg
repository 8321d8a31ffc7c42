\* Every script of healthy and failing requests, a cooldown of two.
SPECIFICATION Spec
CONSTANTS
    FailureThreshold = 2
    CooldownProbes = 2
    MaxAttempts = 3
    ScriptLength = 10
    Conditions = {"healthy", "error"}
    Scripts <- AllScripts
\* A drill ends with its script.
CHECK_DEADLOCK FALSE
INVARIANTS
    TypeOK
    StateAgrees
    StormBound
    OutageBudget
    RecoversWithinCooldown
    TripNeedsRunOfFailures
