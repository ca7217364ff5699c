------------------------------ MODULE MCJobPage ------------------------------
EXTENDS JobPage

MCSlots == 1..2
=============================================================================
