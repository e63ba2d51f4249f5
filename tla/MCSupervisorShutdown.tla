------------------------ MODULE MCSupervisorShutdown ------------------------
\* Instances of SupervisorShutdown for TLC.
EXTENDS SupervisorShutdown

WithAndWithout == BOOLEAN
Never == {FALSE}
=============================================================================
