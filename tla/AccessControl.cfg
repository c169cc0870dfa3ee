SPECIFICATION Spec
CONSTANTS
    Account = {u1, u2}
    Email = {e1, e2}
    SeedEmail = e1
    Call = {c1, c2}
    Called <- CalledEndpoints
    Granted <- GrantedRoles
    MaxCalls = 3
    NoAccount = NoAccount
    NoEmail = NoEmail
    NoRole = NoRole
    Member = {m1}
    Secret = {s1, s2}
    InitialSecret = s1
    Visit = {q1, q2}
    AccessSetting <- OneSecond
    RefreshSetting <- TwoSeconds
    MaxClock = 2
    NoMember = NoMember
    NoSecret = NoSecret
    NoToken = NoToken
INVARIANTS
    Entitled
    DutiesKept
    ClosuresAccounted
    RevokedStaysRevoked
PROPERTIES
    LostRuleIsFinal
    RevocationStands
    LogoutTakesHold
    ClosureStands
    ClosureTakesHold
CHECK_DEADLOCK FALSE
