--------------------------- MODULE LeaseProtocol ----------------------------
(***************************************************************************)
(* Worker sessions competing for one task issue (src/client/lease.py,      *)
(* src/client/heartbeat.py, src/client/release.py and the commands of      *)
(* src/client/cli.py and src/client/task.py that call them).               *)
(*                                                                         *)
(* Nothing arbitrates: a claim is a read of the thread, a comment, a       *)
(* second read.  Other sessions move between any two of these, reads may   *)
(* come from a replica that lags, a request may fail before or after it    *)
(* took effect, and the process may die.  GitHub is the shared state:      *)
(* `thread` is the issue's lease comments in id order.                     *)
(*                                                                         *)
(* `walks` keeps what decide_lease's walk gives on every prefix of the     *)
(* thread, so that a reader whose view is the first k comments decides     *)
(* from walks[k + 1].  No code keeps it: it spares the model a walk at     *)
(* every read.  WalksAreFolds, proved in LeaseProofs, says that each is    *)
(* what walking its prefix gives.                                          *)
(***************************************************************************)
EXTENDS LeaseArbiter

CONSTANTS
    Workers,       \* worker processes: agents, each with a session
    LoginOf,       \* the account each worker runs under
    SessionOf,     \* the session it claims with; NoSession for an old client
    MaxComments,   \* bound on the thread
    Stride,        \* how far the clock moves at a time
    MaxClock,      \* bound on the clock
    MaxLag         \* how many comments a read may miss

ASSUME WorkersAssumption ==
    /\ LoginOf \in [Workers -> Logins]
    /\ SessionOf \in [Workers -> SessionIds]

\* new_session draws ids that do not collide.
ASSUME DistinctAssumption ==
    \A v, w \in Workers :
        (LoginOf[v] = LoginOf[w] /\ SessionOf[v] = SessionOf[w]) => v = w

ASSUME BoundsAssumption ==
    MaxComments \in Nat /\ MaxClock \in Nat /\ MaxLag \in Nat /\ Stride \in Nat

VARIABLES
    clock,         \* GitHub's clock, and every client's
    thread,        \* the lease comments, in id order
    walks,         \* the walk over each prefix of the thread
    pc,            \* where each session's claim() stands, or how it ended
    startedAt,     \* claim()'s `now`, taken once, when it starts
    won,           \* the view on which the session was told WON; 0 if none
    beats,         \* heartbeats about to be written
    releasing      \* workers whose release() is about to post

vars == <<clock, thread, walks, pc, startedAt, won, beats, releasing>>

claimVars == <<pc, startedAt, won>>

-----------------------------------------------------------------------------
(* What readers see and decide.                                            *)

Id(w) == <<LoginOf[w], SessionOf[w]>>

\* The views a read may return: the thread, or all but its last comments.
Views == {k \in 0..Len(thread) : k + MaxLag >= Len(thread)}

View(k) == {thread[i] : i \in 1..k}

DecideView(k, now) == Decide(walks[k + 1], View(k), now)

\* The answer every reader of the whole thread computes now.
Answer == DecideView(Len(thread), clock)

Say(login, session, action) ==
    LET c == [id |-> Len(thread) + 1, login |-> login, session |-> session,
              action |-> action, at |-> clock]
    IN  /\ Len(thread) < MaxComments
        /\ thread' = Append(thread, c)
        /\ walks' = Append(walks, WalkStep(walks[Len(walks)], c))

\* The walk kept for each prefix is decide_lease's loop over that prefix,
\* though beats moved stamps in it since (decide_lease sorts by id and starts
\* over on every read).
WalksAreFolds == \A k \in 0..Len(thread) : walks[k + 1] = WalkOf(View(k))

-----------------------------------------------------------------------------
Mid == {"reading", "posting", "settling"}

\* How a claim ended.  WON is "won" when the lease was free and "took" when
\* it was reclaimed from a stale holder; "unseen" is the ERROR of a claim
\* that was posted and not found.  SKIPPED, LOST_RACE and the other ERRORs
\* leave nothing behind: the session is "idle" again.
Outcomes == {"idle", "won", "took", "unseen"}

\* `target` is the comment a beat edits, 0 when it is to be posted.
Beats == [worker : Workers, session : SessionIds, target : Nat]

TypeOK ==
    /\ clock \in 0..MaxClock
    /\ thread \in Seq(LeaseComments)
    /\ walks \in Seq(Walks)
    /\ Len(walks) = Len(thread) + 1
    /\ pc \in [Workers -> Mid \cup Outcomes]
    /\ startedAt \in [Workers -> 0..MaxClock]
    /\ won \in [Workers -> Nat]
    /\ \A w \in Workers : won[w] <= Len(thread)
    /\ beats \subseteq Beats
    /\ \A b \in beats : b.target <= Len(thread)
    /\ releasing \subseteq Workers

Init ==
    /\ clock = 0
    /\ thread = << >>
    /\ walks = <<EmptyWalk>>
    /\ pc = [w \in Workers |-> "idle"]
    /\ startedAt = [w \in Workers |-> 0]
    /\ won = [w \in Workers |-> 0]
    /\ beats = {}
    /\ releasing = {}

-----------------------------------------------------------------------------
(* claim()                                                                 *)

\* claim() ends without a lease to show for it.
End(w, outcome) ==
    /\ pc' = [pc EXCEPT ![w] = outcome]
    /\ startedAt' = [startedAt EXCEPT ![w] = 0]
    /\ won' = [won EXCEPT ![w] = 0]

\* A claim starts, or starts again under the session it had: `now` is taken
\* and the pre-checks of the issue and the protocol pin pass.  The lifecycle
\* label they read is a projection that says nothing certain of the thread,
\* so they may pass at any time; LifecycleLabels has the label itself.
StartClaim(w) ==
    /\ pc[w] \notin Mid
    /\ pc' = [pc EXCEPT ![w] = "reading"]
    /\ startedAt' = [startedAt EXCEPT ![w] = clock]
    /\ won' = [won EXCEPT ![w] = 0]
    /\ UNCHANGED <<clock, thread, walks, beats, releasing>>

\* A held thread is left alone: LOST_RACE, nothing posted.
ReadBefore(w) ==
    /\ pc[w] = "reading"
    /\ \E k \in Views :
           IF DecideView(k, startedAt[w]).holder \in {Nobody, Id(w)}
           THEN /\ pc' = [pc EXCEPT ![w] = "posting"]
                /\ UNCHANGED <<startedAt, won>>
           ELSE End(w, "idle")
    /\ UNCHANGED <<clock, thread, walks, beats, releasing>>

PostClaim(w) ==
    /\ pc[w] = "posting"
    /\ Say(LoginOf[w], SessionOf[w], "claim")
    /\ pc' = [pc EXCEPT ![w] = "settling"]
    /\ UNCHANGED <<clock, startedAt, won, beats, releasing>>

\* Mutant: the winner is told by its login.
ReadAfterByLogin(w) ==
    /\ pc[w] = "settling"
    /\ \E k \in Views :
           LET decided == DecideView(k, startedAt[w])
           IN  /\ decided.holder # Nobody /\ decided.holder[1] = LoginOf[w]
               /\ pc' = [pc EXCEPT ![w] =
                             IF decided.reason = "claimed" THEN "won" ELSE "took"]
               /\ won' = [won EXCEPT ![w] = k]
               /\ startedAt' = [startedAt EXCEPT ![w] = 0]
    /\ UNCHANGED <<clock, thread, walks, beats, releasing>>

\* The re-read is decided with the `now` of the start.
ReadAfter(w) ==
    /\ pc[w] = "settling"
    /\ \E k \in Views :
           LET decided == DecideView(k, startedAt[w])
           IN  \/ /\ decided.holder = Id(w)
                  /\ pc' = [pc EXCEPT ![w] =
                                IF decided.reason = "claimed" THEN "won"
                                                              ELSE "took"]
                  /\ won' = [won EXCEPT ![w] = k]
                  /\ startedAt' = [startedAt EXCEPT ![w] = 0]
               \/ decided.holder = Nobody /\ End(w, "unseen")
               \/ /\ decided.holder \notin {Nobody, Id(w)}
                  /\ End(w, "idle")
    /\ UNCHANGED <<clock, thread, walks, beats, releasing>>

\* A request fails, a pre-check does not pass, or the process dies.  The
\* session id outlives it in the caller's hands or in the workspace.
ClaimStops(w) ==
    /\ pc[w] \in Mid
    /\ End(w, "idle")
    /\ UNCHANGED <<clock, thread, walks, beats, releasing>>

\* The comment landed and the request is reported failed, or the process
\* dies before it sees the reply.
ClaimReplyLost(w) ==
    /\ pc[w] = "posting"
    /\ Say(LoginOf[w], SessionOf[w], "claim")
    /\ End(w, "idle")
    /\ UNCHANGED <<clock, beats, releasing>>

-----------------------------------------------------------------------------
(* heartbeat()                                                             *)

\* heartbeat(login, session) goes on to write: the pair is the decided
\* holder in the view it read.
MayBeat(login, session, k) == DecideView(k, clock).holder = <<login, session>>

\* prepare_task, and callers of the library, pass the claim's session;
\* `choir worker heartbeat` passes none, and heartbeat()'s default is "".
BeatRead(w) ==
    /\ pc[w] \notin Mid
    /\ \A b \in beats : b.worker # w
    /\ \E session \in {SessionOf[w], NoSession}, k \in Views :
           /\ MayBeat(LoginOf[w], session, k)
           /\ beats' = beats \cup
                  {[worker |-> w, session |-> session,
                    target |-> HeartbeatTarget(View(k), <<LoginOf[w], session>>)]}
    /\ UNCHANGED <<clock, thread, walks, claimVars, releasing>>

\* Post the first beat, or edit the last one: updated_at moves.
BeatWrite(b) ==
    /\ IF b.target = 0
       THEN Say(LoginOf[b.worker], b.session, "heartbeat")
       ELSE /\ thread' = [thread EXCEPT ![b.target].at = clock]
            /\ UNCHANGED walks
    /\ beats' = beats \ {b}
    /\ UNCHANGED <<clock, claimVars, releasing>>

\* Best-effort: a failed write, or a death before it, goes unnoticed.
BeatStops(b) ==
    /\ beats' = beats \ {b}
    /\ UNCHANGED <<clock, thread, walks, claimVars, releasing>>

-----------------------------------------------------------------------------
(* release()                                                               *)

\* Only the login that holds the lease posts a release; anyone else is
\* refused, which changes nothing.
ReleaseRead(w) ==
    /\ pc[w] \notin Mid
    /\ w \notin releasing
    /\ \E k \in Views :
           LET holder == DecideView(k, clock).holder
           IN  holder # Nobody /\ holder[1] = LoginOf[w]
    /\ releasing' = releasing \cup {w}
    /\ UNCHANGED <<clock, thread, walks, claimVars, beats>>

\* The release names no session.  The workspace goes with it.
ReleasePost(w) ==
    /\ w \in releasing
    /\ Say(LoginOf[w], NoSession, "release")
    /\ releasing' = releasing \ {w}
    /\ IF pc[w] \in {"won", "took"} THEN End(w, "idle")
                                    ELSE UNCHANGED claimVars
    /\ UNCHANGED <<clock, beats>>

\* The comment landed and the request is reported failed: the command stops
\* before it removes the workspace, and the worker still thinks it holds.
ReleaseReplyLost(w) ==
    /\ w \in releasing
    /\ Say(LoginOf[w], NoSession, "release")
    /\ releasing' = releasing \ {w}
    /\ UNCHANGED <<clock, claimVars, beats>>

ReleaseStops(w) ==
    /\ w \in releasing
    /\ releasing' = releasing \ {w}
    /\ UNCHANGED <<clock, thread, walks, claimVars, beats>>

-----------------------------------------------------------------------------
Tick ==
    /\ clock + Stride <= MaxClock
    /\ clock' = clock + Stride
    /\ UNCHANGED <<thread, walks, claimVars, beats, releasing>>

Claim(w) ==
    \/ StartClaim(w) \/ ReadBefore(w) \/ PostClaim(w) \/ ReadAfter(w)
    \/ ClaimStops(w) \/ ClaimReplyLost(w)

Release(w) ==
    ReleaseRead(w) \/ ReleasePost(w) \/ ReleaseReplyLost(w) \/ ReleaseStops(w)

Next ==
    \/ \E w \in Workers : Claim(w) \/ BeatRead(w) \/ Release(w)
    \/ \E b \in beats : BeatWrite(b) \/ BeatStops(b)
    \/ Tick

Spec == Init /\ [][Next]_vars
-----------------------------------------------------------------------------
(* What the protocol promises.                                             *)

\* A release by the session's login landed after view k was read.
ReleasedBetween(login, j, k) ==
    \E i \in (j + 1)..k : thread[i].action = "release" /\ thread[i].login = login

Released(w) == ReleasedBetween(LoginOf[w], won[w], Len(thread))

\* Two sessions are never both told WON of a claimed lease, unless the first
\* one's login released it in between: not two logins, not two sessions of
\* one login, however their reads, posts, failures and crashes interleave
\* (client/lease.py, "what handed one task to two workers").
OneWinner ==
    \A v, w \in Workers :
        (pc[v] = "won" /\ pc[w] = "won" /\ ~Released(v) /\ ~Released(w)) => v = w

\* Once a session has won, every reader whose view holds the winning claim,
\* at whatever moment up to now it read its clock, decides for the same
\* session as long as that is fresh and its login has not released
\* (lease_arbiter, "run this function over the same thread and cannot
\* disagree").
ReadersAgreeOnAWinner ==
    \A w \in Workers : \A k \in won[w]..Len(thread) : \A n \in 0..clock :
        (/\ pc[w] = "won"
         /\ ~ReleasedBetween(LoginOf[w], won[w], k)
         /\ Fresh(View(k), Id(w), n))
            => DecideView(k, n).holder = Id(w)

\* The walk's holder changes to somebody else only by way of nobody, and to
\* nobody only by a release its own login posts: no claim, beat or stranger's
\* release takes a lease from its holder (decide_lease, "otherwise a worker
\* could free someone else's lease").
Holder == walks[Len(walks)].holder

HolderLosesOnlyByItsRelease ==
    [][Holder # Nobody /\ Holder' # Holder =>
          /\ Holder' = Nobody
          /\ thread'[Len(thread')].action = "release"
          /\ thread'[Len(thread')].login = Holder[1]]_vars

-----------------------------------------------------------------------------
(* What is said of the program and does not hold of it.                    *)

\* The holder's release frees the lease when it lands (client/release.py,
\* "frees the lease the moment the holder's release comment lands").
ReleaseFreesTheHolder ==
    [][\A w \in Workers :
           (ReleasePost(w) /\ Answer.holder = Id(w)) => Answer'.holder # Id(w)]_vars

\* A holder loses the lease by a release of its login or by going quiet,
\* and in no other way (decide_lease, "loses the lease to the next-earliest
\* claimant"; client/lease.py, nothing "can cost a live worker its claim").
LiveHolderKeepsLease ==
    [][\A h \in WorkerIds :
           (Answer.holder = h /\ Answer'.holder # h) =>
               \/ ~Fresh(View(Len(thread)), h, clock)'
               \/ /\ thread'[Len(thread')].action = "release"
                  /\ thread'[Len(thread')].login = h[1]]_vars

\* The worker that holds a lease can refresh it with `choir worker heartbeat`
\* (client/cli.py, "calls this to keep its claim alive").
CliBeatKeepsClaimAlive ==
    \A w \in Workers :
        (pc[w] \in {"won", "took"} /\ Answer.holder = Id(w)) =>
            MayBeat(LoginOf[w], NoSession, Len(thread))
=============================================================================
