---------------------------- MODULE LeaseThread -----------------------------
(***************************************************************************)
(* An issue's comment thread as the public can write it: anyone may post   *)
(* any body under their own login, and edit a beat of theirs.              *)
(* decide_lease is evaluated on every thread reached and compared with a   *)
(* definition of the lease that does not walk the thread.                  *)
(***************************************************************************)
EXTENDS LeaseArbiter

CONSTANTS
    Bodies,        \* the comment bodies people write
    MaxRows,       \* bound on the thread
    TimeStep,      \* how far the clock moves at a time
    MaxTime        \* bound on the clock

\* A value that is missing or fails its shape check reads as "bad".
ASSUME BodiesAssumption ==
    Bodies \subseteq [block : {"ok", "no"}, login : Logins \cup {"bad"},
                     action : LeaseActions \cup {"bad"}, protocol : {"1", "bad"},
                     session : SessionIds \cup {"bad"}]
ASSUME LoginsAssumption == "bad" \notin Logins
ASSUME ThreadAssumption == MaxRows \in Nat /\ TimeStep \in Nat /\ MaxTime \in Nat

VARIABLES rows, time

threadVars == <<rows, time>>

-----------------------------------------------------------------------------
(* decide_lease in full: the walk over the thread, and the decision.       *)

DecideLease(comments, now) == Decide(WalkOf(comments), comments, now)

Comments == LeaseCommentsFromApi(rows)

-----------------------------------------------------------------------------
NextId == Cardinality(rows) + 1

ThreadInit == rows = {} /\ time = 0

\* GitHub assigns ids in order and stamps the row.
Post(l, b) ==
    /\ Cardinality(rows) < MaxRows
    /\ rows' = rows \cup {[id |-> NextId, login |-> l, body |-> b, at |-> time]}
    /\ UNCHANGED time

\* Beats are edited in place: updated_at moves, the place in the thread
\* does not.  A stamp no reader can parse is possible, if unheard of.
Touch(row) ==
    \E stamp \in {time, Garbled} \ {row.at} :
        /\ row.body.action = "heartbeat"
        /\ rows' = (rows \ {row}) \cup {[row EXCEPT !.at = stamp]}
        /\ UNCHANGED time

TimePasses ==
    /\ time + TimeStep <= MaxTime
    /\ time' = time + TimeStep
    /\ UNCHANGED rows

ThreadNext ==
    \/ \E l \in Logins, b \in Bodies : Post(l, b)
    \/ \E row \in rows : Touch(row)
    \/ TimePasses

ThreadSpec == ThreadInit /\ [][ThreadNext]_threadVars

-----------------------------------------------------------------------------
(* A lease without a walk.  A claim starts a tenure when every tenure that *)
(* began before it was ended, by a release of its own login, before it.    *)

EndsBefore(comments, t, s) ==
    \E r \in comments : /\ r.action = "release" /\ r.login = t.login
                        /\ t.id < r.id /\ r.id < s

Tenures(comments) ==
    LET claims == {c \in comments : c.action = "claim"}
    IN  CHOOSE T \in SUBSET claims :
            \A c \in claims :
                c \in T <=> \A t \in T : t.id < c.id
                                         => EndsBefore(comments, t, c.id)

Tenants(comments) ==
    {WorkerId(t) : t \in {u \in Tenures(comments) :
                              ~EndsBefore(comments, u, MaxRows + 1)}}

\* The walk's holder is the author of the one tenure still open, whatever
\* losers, heartbeats and strangers wrote in between (decide_lease, "the
\* earliest claim by comment id holds the lease", "a release frees the
\* lease only from its holder").
HolderIsTenant ==
    LET h == WalkOf(Comments).holder
    IN  Tenants(Comments) = IF h = Nobody THEN {} ELSE {h}

\* What a body says about its author changes nothing: the decision is that
\* of the thread in which every body names its true author
\* (lease_comments_from_api, "the author is what GitHub says it is").
AuthorIsTheRows ==
    LET truthful == {[r EXCEPT !.body.login = IF @ = "bad" THEN @ ELSE r.login]
                        : r \in rows}
    IN  DecideLease(Comments, time)
          = DecideLease(LeaseCommentsFromApi(truthful), time)

\* Whoever is decided the holder asked for the lease and has written
\* within the window: neither a lease passed on nor one kept ever belongs
\* to a worker that left (decide_lease, "rather than passing to a worker
\* that also left").
HolderAskedAndIsThere ==
    LET h == DecideLease(Comments, time).holder
        own == {c \in Comments : WorkerId(c) = h}
    IN  h # Nobody =>
          /\ \E c \in own : c.action = "claim"
          /\ \E c \in own : c.at = Garbled \/ c.at + StaleAfter >= time

\* The beat the decided holder would write is seen by the arbiter: with it
\* the same worker is decided for a whole window from now, and no sooner
\* displaced (heartbeat_target, "a beat on the wrong comment is invisible").
Beaten(h) ==
    LET target == HeartbeatTarget(Comments, h)
        beat   == [id |-> NextId, login |-> h[1], session |-> h[2],
                   action |-> "heartbeat", at |-> time]
    IN  IF target = 0
        THEN Comments \cup {beat}
        ELSE {IF c.id = target THEN [c EXCEPT !.at = time] ELSE c
                 : c \in Comments}

BeatIsVisible ==
    LET h == DecideLease(Comments, time).holder
    IN  (h # Nobody /\ h = WalkOf(Comments).holder) =>
            DecideLease(Beaten(h), time + StaleAfter).holder = h
=============================================================================
