------------------------------ MODULE MCSchedule ------------------------------
\* Schedule for TLC.
EXTENDS Schedule, TLC
=============================================================================
