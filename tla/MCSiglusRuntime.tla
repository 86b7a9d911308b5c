--------------------------- MODULE MCSiglusRuntime ---------------------------
EXTENDS SiglusRuntime
=============================================================================
