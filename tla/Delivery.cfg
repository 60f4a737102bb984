CONSTANTS
    phone = phone
    laptop = laptop
    browser = browser
    ann = ann
    bob = bob
    m1 = m1
    w1 = w1
    w2 = w2
    Messages = {m1}
    WebSockets = {phone, laptop}
    SSEs = {browser}
    Users = {ann, bob}
    UserOf <- MCUserOf
    Workers = {w1, w2}
    QueueCap = 1
    ChannelCap = 1
    MaxFaults = 1
    MaxCrashes = 1
SPECIFICATION FairSpec
INVARIANTS TypeOK Accounted SentIsEarned
PROPERTIES JobsSettle ImplementsLifecycle
CHECK_DEADLOCK FALSE
