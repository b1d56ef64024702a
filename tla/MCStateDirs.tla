----------------------------- MODULE MCStateDirs -----------------------------
EXTENDS StateDirs
=============================================================================
