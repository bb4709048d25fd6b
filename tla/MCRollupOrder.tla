--------------------------- MODULE MCRollupOrder ---------------------------
EXTENDS RollupOrder, Circumstances
============================================================================
