SPECIFICATION Spec
CONSTANTS
    Services = {"gateway"}
    Container = {b1, b2}
    File = {f1}
    Mode = {"DIRECT", "OTP"}
    DefaultMode = "DIRECT"
    Value = {v1}
    MaxVersion = 2
    MaxKept = 1
    NoRule = NoRule
    NoDigest = NoDigest
    NoAnswer = NoAnswer
    AgentName = {"Default", "n"}
    DefaultName = "Default"
    AgentScopes <- MCScopes
    MaxAgents = 1
    NoEdit = NoEdit
    Conn = {c1, c2}
    MaxConnections <- MCMaxConnections
    Folder = {k1}
    Modes = {0, 3}
    MaxStarts = 1
    NoFolder = NoFolder
    NoCeiling = NoCeiling
    Key = {s1, s2}
    Req = {r1, r2}
    Reveal = {x1, x2}
    MaxAttempts = 1
    MaxPending = 1
    MaxIds = 3
    MaxOtpEpoch = 2
    NoChallenge = NoChallenge
    Unlocker = {u1, u2}
    Limits <- MCLimits
    DefaultLimits <- MCDefaultLimits
    MaxTime = 2
    MaxSessions = 2
    MaxEpoch = 4
    NoTime = NoTime
    Cmd = {d1, d2}
    Vessel = {k1}
    Plan = {p1}
    Scan = {n1}
    ScanVessel = k1
    CommandModes = {"DIRECT", "OTP"}
    MaxCmdEpoch = 3
    NoMode = NoMode
    Waker = {a1}
    Target = {t1, t2}
    Errand = {e1}
    WakeCall = {w1, w2}
    MaxPerAgent = 1
    MaxWakes = 1
    MaxWakeIds = 2
    MaxLeases = 1
    MaxWakeEpoch = 3
INVARIANT
    RevocationTakesEffect
CHECK_DEADLOCK FALSE
