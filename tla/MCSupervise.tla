---------------------------- MODULE MCSupervise ----------------------------
EXTENDS Supervise
=============================================================================
