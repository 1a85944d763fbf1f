-------------------------- MODULE MCSessionManager --------------------------
EXTENDS SessionManager
=============================================================================
