SPECIFICATION LeaseSpec
CONSTANTS
    Parts = {"pair"}
    alice = alice
    bob = bob
    a1 = a1
    b1 = b1
    NoSession = NoSession
    Nobody = Nobody
    Garbled = Garbled
    Logins <- MCLogins
    Sessions <- MCSessions
    Bodies <- MCBodies
    Workers <- MCSessions
    LoginOf <- MCLoginOf
    SessionOf <- MCSessionOf
    StaleAfter = 1
    MaxRows = 4
    TimeStep = 1
    MaxTime = 2
    MaxComments = 5
    Stride = 2
    MaxClock = 2
    MaxLag = 0
PROPERTY ReleaseFreesTheHolder
CHECK_DEADLOCK FALSE
