----------------------------- MODULE Submission -----------------------------
(***************************************************************************)
(* `choir submit` (src/client/submit.py, src/client/fork.py): contributors *)
(* offering their work on one issue.  Task branches are named after the    *)
(* issue and its declaration, so every contributor's branch has the same   *)
(* name; what tells them apart is the repository that holds it.            *)
(*                                                                         *)
(* Any call may fail, and one that writes may fail after it took effect;   *)
(* `callFaults` counts these.  A contributor runs submit again as often as *)
(* it likes, and meanwhile commits, opens a pull request itself, or sees   *)
(* its pull request merged or closed.                                      *)
(***************************************************************************)
EXTENDS Naturals, Sequences

CONSTANTS
    Contributors,
    Upstream,      \* the account that owns the project
    Namesakes,     \* contributors who may give their fork's name to another repository
    MaxHead,       \* bound on the commits of a contributor
    MaxPRs,        \* bound on the pull requests
    MaxCallFaults  \* bound on the calls that fail

VARIABLES
    stage,         \* where each contributor's submit stands
    head,          \* commits in the contributor's workspace
    fork,          \* its fork on GitHub
    remote,        \* where the clone's choir-fork remote points
    pushed,        \* commits of its branch on GitHub
    elsewhere,     \* contributors whose branch was pushed into a namesake
    offered,       \* commits there were when submit started
    prs,           \* pull requests, in order of number
    url,           \* the pull request that submit found or created, 0 if none
    said,          \* the pull requests each contributor's comments name
    callFaults

submitVars == <<stage, head, fork, remote, pushed, elsewhere, offered, prs, url, said,
                callFaults>>

repoVars == <<fork, remote, pushed, elsewhere>>

Submitting ==
    {"finding", "polling", "syncing", "pushing", "looking", "creating",
     "commenting"}

SubmitInit ==
    /\ stage = [c \in Contributors |-> "idle"]
    /\ head = [c \in Contributors |-> 0]
    /\ fork = [c \in Contributors |-> "none"]
    /\ remote = [c \in Contributors |-> "none"]
    /\ pushed = [c \in Contributors |-> 0]
    /\ elsewhere = {}
    /\ offered = [c \in Contributors |-> 0]
    /\ prs = << >>
    /\ url = [c \in Contributors |-> 0]
    /\ said = [c \in Contributors |-> {}]
    /\ callFaults = 0

Steps(c, from, to) == stage[c] = from /\ stage' = [stage EXCEPT ![c] = to]

CallFault == callFaults < MaxCallFaults /\ callFaults' = callFaults + 1

OpenPRs(c) ==
    {k \in 1..Len(prs) : prs[k].owner = c /\ prs[k].state = "open"}

-----------------------------------------------------------------------------
(* submit_at.                                                              *)

\* A workspace without commits is refused; the upstream's owner, whom GitHub
\* lets have no fork, pushes to origin.
Start(c) ==
    /\ stage[c] \in {"idle", "submitted"}
    /\ head[c] > 0
    /\ stage' = [stage EXCEPT ![c] = IF c = Upstream THEN "pushing" ELSE "finding"]
    /\ offered' = [offered EXCEPT ![c] = head[c]]
    /\ url' = [url EXCEPT ![c] = 0]
    /\ UNCHANGED <<head, repoVars, prs, said, callFaults>>

\* find_fork answers with the fork, or ensure_fork asks for one, which may
\* not be accepted; a lookup that fails ends the command.
FindFork(c) ==
    /\ stage[c] = "finding"
    /\ \/ /\ fork[c] = "there"
          /\ stage' = [stage EXCEPT ![c] = "syncing"]
          /\ UNCHANGED <<fork, callFaults>>
       \/ /\ fork[c] # "there"
          /\ stage' = [stage EXCEPT ![c] = "polling"]
          /\ \/ /\ fork' = [fork EXCEPT ![c] = "copying"]
                /\ UNCHANGED callFaults
             \/ CallFault /\ UNCHANGED fork
       \/ /\ CallFault
          /\ stage' = [stage EXCEPT ![c] = "idle"]
          /\ UNCHANGED fork
    /\ UNCHANGED <<head, remote, pushed, elsewhere, offered, prs, url, said>>

\* One of the polls finds it; when none of them does, submit ends in an error.
PollFork(c) ==
    /\ stage[c] = "polling"
    /\ \/ /\ fork[c] = "there"
          /\ stage' = [stage EXCEPT ![c] = "syncing"]
       \/ /\ fork[c] # "there"
          /\ stage' = [stage EXCEPT ![c] = "idle"]
    /\ UNCHANGED <<head, repoVars, offered, prs, url, said, callFaults>>

\* sync_fork, which nobody checks, and _ensure_fork_remote: the remote is
\* added, or corrected.
EnsureRemote(c) ==
    /\ Steps(c, "syncing", "pushing")
    /\ remote' = [remote EXCEPT ![c] = "fork"]
    /\ UNCHANGED <<head, fork, pushed, elsewhere, offered, prs, url, said,
                   callFaults>>

\* The branch goes to the fork, or for the owner to origin.  A push that
\* fails may have landed.
Push(c) ==
    /\ stage[c] = "pushing"
    /\ LET lands == IF remote[c] = "namesake"
                    THEN /\ elsewhere' = elsewhere \cup {c}
                         /\ UNCHANGED pushed
                    ELSE /\ pushed' = [pushed EXCEPT ![c] = head[c]]
                         /\ UNCHANGED elsewhere
       IN  \/ /\ lands
              /\ stage' = [stage EXCEPT ![c] = "looking"]
              /\ UNCHANGED callFaults
           \/ /\ lands \/ UNCHANGED <<pushed, elsewhere>>
              /\ CallFault
              /\ stage' = [stage EXCEPT ![c] = "idle"]
    /\ UNCHANGED <<head, fork, remote, offered, prs, url, said>>

\* Mutant: the lookup goes by the branch's name alone.
FindOpenPRAnyOwner(c) ==
    /\ stage[c] = "looking"
    /\ LET open == {k \in 1..Len(prs) : prs[k].state = "open"}
       IN  \/ /\ open # {}
              /\ url' = [url EXCEPT ![c] = CHOOSE k \in open : TRUE]
              /\ stage' = [stage EXCEPT ![c] = "commenting"]
              /\ UNCHANGED callFaults
           \/ /\ open = {} \/ callFaults < MaxCallFaults
              /\ callFaults' = IF open = {} THEN callFaults ELSE callFaults + 1
              /\ stage' = [stage EXCEPT ![c] = "creating"]
              /\ UNCHANGED url
    /\ UNCHANGED <<head, repoVars, offered, prs, said>>

\* _find_open_pr; a listing that fails counts as "no existing PR".
FindOpenPR(c) ==
    /\ stage[c] = "looking"
    /\ \/ /\ \E k \in OpenPRs(c) : url' = [url EXCEPT ![c] = k]
          /\ stage' = [stage EXCEPT ![c] = "commenting"]
          /\ UNCHANGED callFaults
       \/ /\ OpenPRs(c) = {}
          /\ stage' = [stage EXCEPT ![c] = "creating"]
          /\ UNCHANGED <<url, callFaults>>
       \/ /\ OpenPRs(c) # {}
          /\ CallFault
          /\ stage' = [stage EXCEPT ![c] = "creating"]
          /\ UNCHANGED url
    /\ UNCHANGED <<head, repoVars, offered, prs, said>>

\* GitHub opens a pull request from a head unless one is open from it.
Opens(c) ==
    /\ OpenPRs(c) = {}
    /\ pushed[c] > 0
    /\ Len(prs) < MaxPRs
    /\ prs' = Append(prs, [owner |-> c, state |-> "open"])

\* _default_branch and _gh_pr_create: with its reply, without it, failing, or
\* refused.
CreatePR(c) ==
    /\ stage[c] = "creating"
    /\ \/ /\ Opens(c)
          /\ url' = [url EXCEPT ![c] = Len(prs) + 1]
          /\ stage' = [stage EXCEPT ![c] = "commenting"]
          /\ UNCHANGED callFaults
       \/ /\ Opens(c) \/ UNCHANGED prs
          /\ CallFault
          /\ stage' = [stage EXCEPT ![c] = "idle"]
          /\ UNCHANGED url
       \/ /\ OpenPRs(c) # {} \/ pushed[c] = 0 \/ Len(prs) = MaxPRs
          /\ stage' = [stage EXCEPT ![c] = "idle"]
          /\ UNCHANGED <<prs, url, callFaults>>
    /\ UNCHANGED <<head, repoVars, offered, said>>

\* The comment on the issue; when it fails the command fails, with the pull
\* request open.
Comment(c) ==
    /\ stage[c] = "commenting"
    /\ \/ /\ said' = [said EXCEPT ![c] = @ \cup {url[c]}]
          /\ stage' = [stage EXCEPT ![c] = "submitted"]
          /\ UNCHANGED callFaults
       \/ /\ CallFault
          /\ said' \in {said, [said EXCEPT ![c] = @ \cup {url[c]}]}
          /\ stage' = [stage EXCEPT ![c] = "idle"]
    /\ UNCHANGED <<head, repoVars, offered, prs, url>>

-----------------------------------------------------------------------------
(* What happens around it.                                                 *)

\* A commit is made between two runs of submit.
Commit(c) ==
    /\ stage[c] \in {"idle", "submitted"}
    /\ head[c] < MaxHead
    /\ head' = [head EXCEPT ![c] = @ + 1]
    /\ UNCHANGED <<stage, repoVars, offered, prs, url, said, callFaults>>

\* GitHub finishes copying.
ForkAppears(c) ==
    /\ fork[c] = "copying"
    /\ fork' = [fork EXCEPT ![c] = "there"]
    /\ UNCHANGED <<stage, head, remote, pushed, elsewhere, offered, prs, url, said,
                   callFaults>>

\* Between two runs of submit the fork is renamed, and its old name, which the
\* clone's remote still has, is given to another repository.
Renamed(c) ==
    /\ c \in Namesakes
    /\ stage[c] \in {"idle", "submitted"}
    /\ remote[c] = "fork"
    /\ remote' = [remote EXCEPT ![c] = "namesake"]
    /\ UNCHANGED <<stage, head, fork, pushed, elsewhere, offered, prs, url, said,
                   callFaults>>

\* The agent opens the pull request itself.
AgentOpens(c) ==
    /\ stage[c] \in {"idle", "submitted"}
    /\ Opens(c)
    /\ UNCHANGED <<stage, head, repoVars, offered, url, said, callFaults>>

Decided(k) ==
    /\ prs[k].state = "open"
    /\ \E s \in {"merged", "closed"} : prs' = [prs EXCEPT ![k].state = s]
    /\ UNCHANGED <<stage, head, repoVars, offered, url, said, callFaults>>

Submit(c) ==
    \/ FindFork(c) \/ PollFork(c) \/ EnsureRemote(c) \/ Push(c)
    \/ FindOpenPR(c) \/ CreatePR(c) \/ Comment(c)

SubmitNext ==
    \/ \E c \in Contributors :
        \/ Start(c) \/ Submit(c) \/ Commit(c)
        \/ ForkAppears(c) \/ Renamed(c) \/ AgentOpens(c)
    \/ \E k \in 1..Len(prs) : Decided(k)

\* A process that runs goes on.  GitHub need not finish a fork.
SubmitsGoOn == \A c \in Contributors : WF_submitVars(Submit(c))

SubmissionSpec == SubmitInit /\ [][SubmitNext]_submitVars /\ SubmitsGoOn

-----------------------------------------------------------------------------
(* Properties.                                                             *)

\* "this submit would then report success, post "Submitted in <their PR>" on
\* the issue, and never open a PR for the work that was just pushed"
\* (submit.py:253-255): nobody's comment names somebody else's pull request,
\* though all their branches have one name.
CommentsNameOwnPR ==
    \A c \in Contributors : \A k \in said[c] :
        k \in 1..Len(prs) /\ prs[k].owner = c

\* A submit that reports success offers the work it was run for: the branch on
\* GitHub has the commits there were when it started, and the pull request it
\* names was opened from that branch.
SuccessMeansOffered ==
    \A c \in Contributors : stage[c] = "submitted" =>
        /\ pushed[c] >= offered[c] /\ offered[c] > 0
        /\ url[c] \in 1..Len(prs) /\ prs[url[c]].owner = c

\* The branch is only ever pushed into the fork, whatever the remote that the
\* tasks of a project share was last pointed at: not into a repository that has
\* the fork's old name ("a renamed or transferred fork self-heal[s]").
NothingGoesElsewhere == elsewhere = {}

\* A submit that reports success offers its own work, by its own pull request,
\* from its own fork.
SubmissionsLand == SuccessMeansOffered /\ CommentsNameOwnPR /\ NothingGoesElsewhere

\* Whatever fails, and also when GitHub never finishes the fork it was asked
\* for, a run of submit comes to an end.
SubmitsEnd ==
    \A c \in Contributors : []<>(stage[c] \notin Submitting)
=============================================================================
