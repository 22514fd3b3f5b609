------------------------- MODULE MCDumpCoordinator -------------------------
EXTENDS DumpCoordinator

\* State constraint of the safety run: a ring that wraps, a dropped block and two
\* expired deadlines all happen, but not all of them in one behaviour.
Effort == published + dropCum + timeouts <= 4
=============================================================================
