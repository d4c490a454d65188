----------------------------- MODULE MCLagPause -----------------------------
EXTENDS LagPause
=============================================================================
