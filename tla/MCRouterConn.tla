---------------------------- MODULE MCRouterConn ----------------------------
EXTENDS RouterChannel
=============================================================================
