------------------------- MODULE MCDaemonSupervisor -------------------------
\* The supervisor with its bounds as constants; nothing else is replaced.
EXTENDS DaemonSupervisor
=============================================================================
