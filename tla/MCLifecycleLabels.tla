-------------------------- MODULE MCLifecycleLabels -------------------------
\* One issue, one record and the body that is rejected.
EXTENDS LifecycleLabels

CONSTANT r1

MCRecords == {r1}
=============================================================================
