---------------------------- MODULE LeaseArbiter ----------------------------
(***************************************************************************)
(* Who holds a task's lease, decided from the issue's comments alone       *)
(* (src/gate/state/lease_comment.py, src/gate/state/lease_arbiter.py and   *)
(* the pure half of src/client/heartbeat.py).                              *)
(*                                                                         *)
(* A comment thread is a set of API rows.  Rows that are well-formed lease *)
(* blocks become lease comments; the comments, walked in id order, give    *)
(* the walk's holder and the claimants in line behind it; freshness then   *)
(* turns the walk into a decision.  The module has no variables: the       *)
(* protocol (LeaseProtocol) and the open thread (LeaseThread) use it.      *)
(*                                                                         *)
(* Data left out: the wording of a reason, the block's text, and the list  *)
(* `superseded`, which no code of the repository reads.                    *)
(***************************************************************************)
EXTENDS Integers, Sequences, FiniteSets, Folds

CONSTANTS
    Logins,        \* GitHub accounts
    Sessions,      \* session ids as client.lease.new_session mints them
    NoSession,     \* the empty session of a comment that names none
    Nobody,        \* Python's None where a holder is expected
    Garbled,       \* an updated_at that does not parse
    StaleAfter     \* DEFAULT_STALE_AFTER_HOURS, in ticks of the clock

SessionIds == Sessions \cup {NoSession}

\* A worker is a login and one of its sessions.
WorkerIds == Logins \X SessionIds

ASSUME StaleAfterAssumption == StaleAfter \in Nat \ {0}
ASSUME NobodyAssumption     == Nobody \notin WorkerIds
ASSUME NoSessionAssumption  == NoSession \notin Sessions
ASSUME GarbledAssumption    == Garbled \notin Nat

LeaseActions == {"claim", "heartbeat", "release"}

Stamps == Nat \cup {Garbled}

\* LeaseComment: `id` orders the thread, `at` is updated_at.
LeaseComments ==
    [id : Nat, login : Logins, session : SessionIds,
     action : LeaseActions, at : Stamps]

-----------------------------------------------------------------------------
(* Reading a comment body.  A body is what its author wrote: `block` says  *)
(* whether there is a closed ```choir-lease fence of distinct key: value   *)
(* lines; the other fields are the values of its keys, "bad" standing for  *)
(* one that is missing or fails its shape check.                           *)

\* parse_lease_comment returns None for any other body.
IsLeaseBlock(body) ==
    /\ body.block = "ok"
    /\ body.login # "bad"
    /\ body.action \in LeaseActions
    /\ body.protocol # "bad"

\* Mutant: the body names the author.
LeaseCommentByBody(row) ==
    [id      |-> row.id,
     login   |-> row.body.login,
     session |-> IF row.body.session \in Sessions THEN row.body.session
                                                  ELSE NoSession,
     action  |-> row.body.action,
     at      |-> row.at]

\* The row's own login and stamp; the body's action, and its session unless
\* that is not session-shaped.
LeaseComment(row) ==
    [id      |-> row.id,
     login   |-> row.login,
     session |-> IF row.body.session \in Sessions THEN row.body.session
                                                  ELSE NoSession,
     action  |-> row.body.action,
     at      |-> row.at]

LeaseCommentsFromApi(rows) ==
    {LeaseComment(row) : row \in {r \in rows : IsLeaseBlock(r.body)}}

-----------------------------------------------------------------------------
(* Freshness: each worker's id-highest comment carries it.                 *)

WorkerId(c) == <<c.login, c.session>>

LatestByWorker(comments, w) ==
    CHOOSE c \in comments :
        /\ WorkerId(c) = w
        /\ \A d \in comments : WorkerId(d) = w => d.id <= c.id

\* A stamp that does not parse counts as fresh, and so does a future one.
IsFresh(stamp, now) ==
    IF stamp = Garbled THEN TRUE ELSE stamp >= now - StaleAfter

Fresh(comments, w, now) == IsFresh(LatestByWorker(comments, w).at, now)

-----------------------------------------------------------------------------
(* The walk over the thread: its holder, and the claimants in order.       *)

Walks == [holder : WorkerIds \cup {Nobody}, order : Seq(WorkerIds)]

EmptyWalk == [holder |-> Nobody, order |-> << >>]

InOrder(walk, w) == \E i \in 1..Len(walk.order) : walk.order[i] = w

\* Mutants: anyone's release frees the lease; the last claim holds it.
WalkStepAnyRelease(walk, c) ==
    LET w == WorkerId(c)
    IN  CASE c.action = "claim" /\ walk.holder = Nobody ->
               [holder |-> w, order |-> Append(walk.order, w)]
          [] c.action = "release" -> [walk EXCEPT !.holder = Nobody]
          [] OTHER -> walk

WalkStepLastClaim(walk, c) ==
    LET w == WorkerId(c)
    IN  CASE c.action = "claim" ->
               [holder |-> w, order |-> Append(walk.order, w)]
          [] /\ c.action = "release" /\ walk.holder # Nobody
             /\ c.login = walk.holder[1] ->
               [walk EXCEPT !.holder = Nobody]
          [] OTHER -> walk

\* The body of the loop over `ordered`.
WalkStep(walk, c) ==
    LET w == WorkerId(c)
    IN  CASE c.action = "claim" /\ walk.holder = Nobody ->
               [holder |-> w, order |-> Append(walk.order, w)]
          [] /\ c.action = "claim" /\ walk.holder # Nobody
             /\ w # walk.holder /\ ~InOrder(walk, w) ->
               [walk EXCEPT !.order = Append(walk.order, w)]
          [] /\ c.action = "release" /\ walk.holder # Nobody
             /\ c.login = walk.holder[1] ->
               [walk EXCEPT !.holder = Nobody]
          [] OTHER -> walk

\* The loop itself: a thread is walked in id order, so that its newest
\* comment is the last step of the walk.
Newest(comments) == CHOOSE c \in comments : \A d \in comments : d.id <= c.id

WalkOf(comments) ==
    MapThenFoldSet(LAMBDA c, walk : WalkStep(walk, c), EmptyWalk,
                   LAMBDA c : c, Newest, comments)

\* Mutant: a stale claimant may inherit.
FreshCandidatesAll(walk, comments, now) ==
    {i \in 1..Len(walk.order) : walk.order[i] # walk.holder}

\* Places in line of claimants other than the holder that are still fresh.
FreshCandidates(walk, comments, now) ==
    {i \in 1..Len(walk.order) :
        walk.order[i] # walk.holder /\ Fresh(comments, walk.order[i], now)}

\* The rest of decide_lease: LeaseDecision, with the gist of its reason.
Decide(walk, comments, now) ==
    LET heirs == FreshCandidates(walk, comments, now)
        first == CHOOSE i \in heirs : \A j \in heirs : i <= j
    IN  CASE walk.holder = Nobody ->
               [holder |-> Nobody, reason |-> "no live claim"]
          [] walk.holder # Nobody /\ Fresh(comments, walk.holder, now) ->
               [holder |-> walk.holder, reason |-> "claimed"]
          [] /\ walk.holder # Nobody /\ ~Fresh(comments, walk.holder, now)
             /\ heirs # {} ->
               [holder |-> walk.order[first], reason |-> "reclaimed"]
          [] OTHER -> [holder |-> Nobody, reason |-> "stale"]

\* Mutants: any heartbeat of the worker's is edited; the comment after it.
HeartbeatTargetAny(comments, w) ==
    LET own == {c \in comments : WorkerId(c) = w /\ c.action = "heartbeat"}
    IN  IF own = {} THEN 0 ELSE (CHOOSE c \in own : TRUE).id

HeartbeatTargetNext(comments, w) ==
    IF \E c \in comments : WorkerId(c) = w
    THEN LatestByWorker(comments, w).id + 1 ELSE 0

\* The comment a heartbeat edits: the worker's id-highest, if it already is
\* a heartbeat; 0 stands for None (post a new one).
HeartbeatTarget(comments, w) ==
    IF \E c \in comments : WorkerId(c) = w
    THEN LET latest == LatestByWorker(comments, w)
         IN  IF latest.action = "heartbeat" THEN latest.id ELSE 0
    ELSE 0
=============================================================================
