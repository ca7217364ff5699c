----------------------------- MODULE MCChildRun -----------------------------
EXTENDS ChildRun
=============================================================================
