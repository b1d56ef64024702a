----------------------------- MODULE MCForward -----------------------------
EXTENDS Forward
=============================================================================
