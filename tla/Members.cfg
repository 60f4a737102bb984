SPECIFICATION MCSpec
CONSTANTS
    AuthCalls = {c1, c2}
    MaxNow = 4
    AccessLife = 2
    RefreshLife = 3
    FailureLimit = 1
    MaxAuthFaults = 1
    CodeCalls = {c1, c2}
    MaxCodes = 3
    RequestLimit = 1
    TryLimit = 2
    RecentLimit = 2
    Users = {u1, u2, u3}
    r1 = r1
    r2 = r2
    RoomIds <- MCRoomIds
    ChannelsOf <- MCChannelsOf
    RoomCalls = {c1, c2}
    MaxFills = 1
    MaxRequests = 4
SYMMETRY Symmetry
INVARIANTS
    MembersTypeOK
    SessionSurvivesRotation
    NoRequestPastTwoLives
    AcceptedTogether
    FewCodesAtOnce
    TriesAreBounded
    AdmittedWasMember
    JoinsAddUp
\* An account, a code or a room may all have nothing left to do within the bounds.
CHECK_DEADLOCK FALSE
