SPECIFICATION Spec
CONSTANTS
    alice = alice
    bob = bob
    a1 = a1
    a2 = a2
    b1 = b1
    NoSession = NoSession
    Nobody = Nobody
    Garbled = Garbled
    Logins <- MCLogins
    Sessions <- MCSessions
    Workers <- MCWorkers
    LoginOf <- MCLoginOf
    SessionOf <- MCSessionOf
    StaleAfter = 1
    MaxComments = 3
    Stride = 2
    MaxClock = 2
    MaxLag = 1
SYMMETRY MCSymmetry
INVARIANTS
    TypeOK
    OneWinner
CHECK_DEADLOCK FALSE
