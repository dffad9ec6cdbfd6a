------------------------------- MODULE MCLease --------------------------------
(***************************************************************************)
(* A thread that anyone writes to ("thread"), and beside it one that two   *)
(* workers of different logins claim, beat and release on, long enough for *)
(* a lease to be claimed, lost to staleness, taken over and handed back    *)
(* ("pair").  A behaviour is of one part.                                  *)
(***************************************************************************)
EXTENDS LeaseThread, LeaseProtocol, TLC

CONSTANTS Parts, alice, bob, a1, b1

VARIABLE part

MCLogins == {alice, bob}
MCSessions == {a1, b1}
MCLoginOf == (a1 :> alice) @@ (b1 :> bob)
MCSessionOf == (a1 :> a1) @@ (b1 :> b1)

\* Lease blocks that may name the other login, one whose session is malformed
\* (a second worker under the same login), and prose.
Block(l, a, s) ==
    [block |-> "ok", login |-> l, action |-> a, protocol |-> "1",
     session |-> s]
MCBodies ==
    {Block(alice, "claim", a1), Block(bob, "claim", "bad"),
     Block(alice, "heartbeat", a1), Block(bob, "release", "bad"),
     [block |-> "no", login |-> "bad", action |-> "bad",
      protocol |-> "bad", session |-> "bad"]}

LeaseInit == part \in Parts /\ ThreadInit /\ Init

LeaseNext ==
    /\ UNCHANGED part
    /\ \/ part = "thread" /\ ThreadNext /\ UNCHANGED vars
       \/ part = "pair" /\ Next /\ UNCHANGED threadVars

LeaseSpec == LeaseInit /\ [][LeaseNext]_<<part, threadVars, vars>>
===============================================================================
