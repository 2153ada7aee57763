------------------------- MODULE MCSearchAcquisition -------------------------
EXTENDS SearchAcquisition
==============================================================================
