---------------------------- MODULE MCPullRequest ---------------------------
\* The checks of a Lean project and a third party's. Slow are a check that
\* blocks on every prover and one that Lean relaxes; a push may delete the
\* workflow of a third.
EXTENDS PullRequest

MCNames == REQUIRED_PRESENT \cup {"style", "codecov"}
MCSlow == {"rebuild", "statement-equiv"}

\* What the comparator says beside another red.
SeedSlow == {"comparator", "decide-instance", "rebuild"}
MCRemovals == {{}, {"axiom-honesty"}}
MCApprovals == {MCNames, {"rebuild", "axiom-honesty"}}
=============================================================================
