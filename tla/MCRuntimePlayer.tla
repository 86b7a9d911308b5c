--------------------------- MODULE MCRuntimePlayer ---------------------------
EXTENDS RuntimePlayer
=============================================================================
