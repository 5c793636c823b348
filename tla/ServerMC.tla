------------------------------ MODULE ServerMC -------------------------------
EXTENDS Server
=============================================================================
