--------------------------- MODULE MCDemandPaging ---------------------------
EXTENDS DemandPaging
=============================================================================
