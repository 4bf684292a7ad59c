------------------------------ MODULE MCLeases ------------------------------
EXTENDS Leases, TLC

CONSTANTS r1

\* Both operations start with r1 and may need the others later: the shape of
\* RUNTIME_UPDATE (runtime-installation, then runtime-active) and its like.
MCFirstKeys == [o \in Ops |-> {r1}]

=============================================================================
