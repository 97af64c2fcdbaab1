------------------------------ MODULE MCGuided ------------------------------
EXTENDS GuidedRun
==============================================================================
