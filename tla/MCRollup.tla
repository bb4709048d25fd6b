----------------------------- MODULE MCRollup -----------------------------
EXTENDS Rollup, Circumstances
============================================================================
