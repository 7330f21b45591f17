--------------------------- MODULE MCGlobalQuiescence ---------------------------
EXTENDS GlobalQuiescence
=============================================================================
