-------------------------- MODULE MCOperationLane --------------------------
\* Two producers, as in the daemon: the accept thread and the scheduler.
EXTENDS OperationLane
=============================================================================
