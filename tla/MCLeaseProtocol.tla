-------------------------- MODULE MCLeaseProtocol ---------------------------
\* Two logins; alice runs two sessions, bob an old client that names none.
EXTENDS LeaseProtocol, TLC

CONSTANTS alice, bob, a1, a2, b1

MCLogins == {alice, bob}
MCSessions == {a1, a2}
MCWorkers == {a1, a2, b1}
MCLoginOf == (a1 :> alice) @@ (a2 :> alice) @@ (b1 :> bob)
MCSessionOf == (a1 :> a1) @@ (a2 :> a2) @@ (b1 :> NoSession)

\* Sessions of one login may be exchanged.
MCSymmetry == Permutations({a1, a2})
=============================================================================
