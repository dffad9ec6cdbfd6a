---------------------------- MODULE ChoirUpdate ----------------------------
(***************************************************************************)
(* The protocol gate of a claim (src/client/lease.py, src/gate/protocol.py *)
(* and the claim command of src/client/cli.py) and `choir update`          *)
(* (src/client/update.py).  `choir` runs from a git checkout that all its  *)
(* processes share; a process speaks the protocol of the code it loaded    *)
(* when it started.  A version of Choir is a number, and the protocol it   *)
(* speaks is the same number.                                              *)
(***************************************************************************)
EXTENDS Naturals

CONSTANTS
    Processes,     \* commands run from the checkout
    MaxVersion,    \* bound on the versions of Choir
    MaxUpdateFaults \* bound on the calls that fail

ASSUME UpdateAssumption == MaxVersion \in Nat \ {0} /\ MaxUpdateFaults \in Nat

VARIABLES
    upstream,      \* the latest version
    pin,           \* the protocol the project requires
    checkout,      \* the version the checkout is at
    env,           \* the version whose dependencies are installed
    dirty,         \* the checkout has uncommitted changes
    updPc,         \* where each process stands
    loaded,        \* the version of the code it runs
    asked,         \* the pin that its gate read, 0 if unreadable
    updFaults

updVars == <<upstream, pin, checkout, env, dirty, updPc, loaded, asked, updFaults>>

Running == {"gating", "posting", "stale", "checking", "pulling", "syncing"}

UpdateTypeOK ==
    /\ {upstream, pin, checkout, env} \subseteq 1..MaxVersion
    /\ dirty \in BOOLEAN
    /\ updPc \in [Processes -> Running \cup {"idle", "posted", "updated", "stopped"}]
    /\ loaded \in [Processes -> 1..MaxVersion]
    /\ asked \in [Processes -> 0..MaxVersion]
    /\ updFaults \in 0..MaxUpdateFaults

UpdateInit ==
    /\ upstream = 1
    /\ pin = 1
    /\ checkout = 1
    /\ env = 1
    /\ dirty = FALSE
    /\ updPc = [p \in Processes |-> "idle"]
    /\ loaded = [p \in Processes |-> 1]
    /\ asked = [p \in Processes |-> 0]
    /\ updFaults = 0

UpdateGoes(p, from, to) == updPc[p] = from /\ updPc' = [updPc EXCEPT ![p] = to]

UpdateFault == updFaults < MaxUpdateFaults /\ updFaults' = updFaults + 1

-----------------------------------------------------------------------------
\* `choir claim` or `choir update`, in an interpreter of its own.
Starts(p) ==
    /\ updPc[p] \notin Running
    /\ \E first \in {"gating", "checking"} : updPc' = [updPc EXCEPT ![p] = first]
    /\ loaded' = [loaded EXCEPT ![p] = checkout]
    /\ asked' = [asked EXCEPT ![p] = 0]
    /\ UNCHANGED <<upstream, pin, checkout, env, dirty, updFaults>>

\* _protocol_conflict: a pin that cannot be read stops nobody.
Gate(p) ==
    /\ updPc[p] = "gating"
    /\ \/ /\ asked' = [asked EXCEPT ![p] = pin]
          /\ updPc' = [updPc EXCEPT ![p] = IF pin > loaded[p] THEN "stale" ELSE "posting"]
          /\ UNCHANGED updFaults
       \/ /\ UpdateFault
          /\ updPc' = [updPc EXCEPT ![p] = "posting"]
          /\ UNCHANGED asked
    /\ UNCHANGED <<upstream, pin, checkout, env, dirty, loaded>>

Posts(p) ==
    /\ UpdateGoes(p, "posting", "posted")
    /\ UNCHANGED <<upstream, pin, checkout, env, dirty, loaded, asked, updFaults>>

\* _handle_protocol_stale_skip: the hint, or the update when the person at
\* the terminal wants it.
StaleSkip(p) ==
    /\ updPc[p] = "stale"
    /\ \E then \in {"stopped", "checking"} : updPc' = [updPc EXCEPT ![p] = then]
    /\ UNCHANGED <<upstream, pin, checkout, env, dirty, loaded, asked, updFaults>>

\* run_update: refuse a checkout with changes.
Check(p) ==
    /\ updPc[p] = "checking"
    /\ updPc' = [updPc EXCEPT ![p] = IF dirty THEN "stopped" ELSE "pulling"]
    /\ UNCHANGED <<upstream, pin, checkout, env, dirty, loaded, asked, updFaults>>

\* Mutant: a pull that moved nothing needs no sync.
PullSkipsSync(p) ==
    /\ updPc[p] = "pulling"
    /\ \/ /\ checkout' = upstream
          /\ updPc' = [updPc EXCEPT ![p] = IF checkout = upstream THEN "updated"
                                     ELSE "syncing"]
          /\ UNCHANGED updFaults
       \/ /\ UpdateFault
          /\ updPc' = [updPc EXCEPT ![p] = "stopped"]
          /\ UNCHANGED checkout
    /\ UNCHANGED <<upstream, pin, env, dirty, loaded, asked>>

\* `git pull --ff-only`.
Pull(p) ==
    /\ updPc[p] = "pulling"
    /\ \/ /\ checkout' = upstream
          /\ updPc' = [updPc EXCEPT ![p] = "syncing"]
          /\ UNCHANGED updFaults
       \/ /\ UpdateFault
          /\ updPc' = [updPc EXCEPT ![p] = "stopped"]
          /\ UNCHANGED checkout
    /\ UNCHANGED <<upstream, pin, env, dirty, loaded, asked>>

\* `uv sync`, whether or not the pull moved anything; then the entry point,
\* which may fail without failing the update.  The process is not the new
\* code: a claim has to be run again.
Sync(p) ==
    /\ updPc[p] = "syncing"
    /\ \/ /\ env' = checkout
          /\ updPc' = [updPc EXCEPT ![p] = "updated"]
          /\ UNCHANGED updFaults
       \/ /\ UpdateFault
          /\ updPc' = [updPc EXCEPT ![p] = "stopped"]
          /\ UNCHANGED env
    /\ UNCHANGED <<upstream, pin, checkout, dirty, loaded, asked>>

-----------------------------------------------------------------------------
Release ==
    /\ upstream < MaxVersion
    /\ upstream' = upstream + 1
    /\ UNCHANGED <<pin, checkout, env, dirty, updPc, loaded, asked, updFaults>>

\* A project pins what has been released.
Repin ==
    /\ pin < upstream
    /\ pin' = pin + 1
    /\ UNCHANGED <<upstream, checkout, env, dirty, updPc, loaded, asked, updFaults>>

\* Somebody edits the checkout, or puts the edit away.
Edit ==
    /\ dirty' = ~dirty
    /\ UNCHANGED <<upstream, pin, checkout, env, updPc, loaded, asked, updFaults>>

UpdateNext ==
    \/ \E p \in Processes :
        \/ Starts(p) \/ Gate(p) \/ Posts(p) \/ StaleSkip(p)
        \/ Check(p) \/ Pull(p) \/ Sync(p)
    \/ Release \/ Repin \/ Edit

UpdateSpec == UpdateInit /\ [][UpdateNext]_updVars

-----------------------------------------------------------------------------
(* Properties.                                                             *)

\* An update that reports success leaves the environment of the checkout it
\* leaves, also where an earlier update pulled and then failed to sync.
UpdatesRepair ==
    [][\A p \in Processes :
          (updPc[p] # "updated" /\ updPc'[p] = "updated") => env' = checkout']_updVars

\* No claim is posted in a protocol older than the pin its process read, an
\* update in between or not.
ClaimsSpeakThePin ==
    \A p \in Processes : updPc[p] \in {"posting", "posted"} => loaded[p] >= asked[p]

\* Claims speak the protocol of the pin they read, over versions and processes of
\* their types, and an update that reports success repaired the environment,
\* however claims and updates run from one checkout.
ClaimsAndUpdatesAgree == [](UpdateTypeOK /\ ClaimsSpeakThePin) /\ UpdatesRepair
=============================================================================
